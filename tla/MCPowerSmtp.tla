---------------------------- MODULE MCPowerSmtp -----------------------------
(***************************************************************************)
(* Two backends of one group, the second a spare, and one of another       *)
(* group.  Four settings of the bounds: backends that change twice, or one *)
(* that does three times, or once with a daemon that is restarted, with    *)
(* messages of at most one line; and undisturbed backends with longer      *)
(* messages to several recipients.                                         *)
(***************************************************************************)
EXTENDS PowerSmtp, TLC

CONSTANTS b1, b2, b3, g1, g2, limited, unlimited

MCTable == <<b1, b2, b3>>
MCGroupOf == b1 :> g1 @@ b2 :> g1 @@ b3 :> g2
MCPriorityOf == b1 :> 1 @@ b2 :> 2 @@ b3 :> 1
MCQuota == limited :> 2 @@ unlimited :> 0

MCBounds == {[faults |-> 2, ailing |-> {b1, b3}, starts |-> 1, mailboxes |-> {limited},
              forwards |-> 0, lines |-> 1, sizes |-> {0}, usages |-> {1}],
             [faults |-> 3, ailing |-> {b1}, starts |-> 1, mailboxes |-> {limited},
              forwards |-> 0, lines |-> 0, sizes |-> {0}, usages |-> {1}],
             [faults |-> 1, ailing |-> Backend, starts |-> 2, mailboxes |-> {limited},
              forwards |-> 0, lines |-> 1, sizes |-> {0}, usages |-> {1}],
             [faults |-> 0, ailing |-> {}, starts |-> 1, mailboxes |-> {limited, unlimited},
              forwards |-> 1, lines |-> 6, sizes |-> {0, 2}, usages |-> {0, 1, 3}]}
=============================================================================
