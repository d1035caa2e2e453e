--------------------------- MODULE MCSmtpDelivery ---------------------------
(***************************************************************************)
(* Three backends, two of them in one group, and a redundancy of two: a    *)
(* selection can be redundant, too small, or wrongly drawn from one group. *)
(***************************************************************************)
EXTENDS SmtpDelivery, TLC

CONSTANTS b1, b2, b3, g1, g2, r1, r2

Recipients == Permutations({r1, r2})

MCGroupOf == b1 :> g1 @@ b2 :> g1 @@ b3 :> g2
=============================================================================
