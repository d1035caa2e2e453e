---------------------------- MODULE MCPPListener ----------------------------
(***************************************************************************)
(* A small instance of PPListener: two sessions, two mailboxes and one     *)
(* name in each, enough for one message with two recipients and for two    *)
(* messages in flight at the same time.                                    *)
(***************************************************************************)
EXTENDS PPListener, TLC

CONSTANTS s1, s2, m1, m2, a, b

MCMboxOf == a :> m1 @@ b :> m2
Sessions == Permutations({s1, s2})
=============================================================================
