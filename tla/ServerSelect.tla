---------------------------- MODULE ServerSelect ----------------------------
(***************************************************************************)
(* ServerSelect: which backends a message may go to, given a copy of the   *)
(* backend table (s_targets).  view[b] has up and readonly, as the state   *)
(* thread last saw them.                                                   *)
(*                                                                         *)
(* Among backends of one group and one priority spread-disk and            *)
(* spread-load compare figures that are asked for in one round of sixty    *)
(* and are what the memory held before: any of them may come first.        *)
(***************************************************************************)
EXTENDS Naturals, FiniteSets

CONSTANTS Backend,     \* s_targets
          GroupOf,     \* TargetData::group
          PriorityOf,  \* TargetData::priority, the least is preferred
          Redundancy   \* s_redundancy

ASSUME SelectAssumption == /\ PriorityOf \in [Backend -> Nat]
                           /\ Redundancy \in Nat \ {0}

GroupsOf(bs) == {GroupOf[b] : b \in bs}

Writable(view, b) == view[b].up /\ ~view[b].readonly

\* Mutant of Offered: `used` is not set.
OfferedAgain(view, used) == {b \in Backend : Writable(view, b) /\ b \notin used}

\* The backends of perGroup: up, writable, in a group none is used of.
Offered(view, used) == {b \in Backend : Writable(view, b) /\ GroupOf[b] \notin GroupsOf(used)}

\* byPrio, after the shuffle: what may be the first of the candidates.
First(candidates) == {b \in candidates : \A c \in candidates : PriorityOf[b] <= PriorityOf[c]}

\* getServer: a group at random, and the first of it; nothing if no group is left.
GetServer(view, used) ==
  UNION {First({b \in Offered(view, used) : GroupOf[b] = g}) : g \in GroupsOf(Offered(view, used))}

\* What openStorage may have selected after n calls of getServer.
Selections(view) ==
  LET After[n \in 0..Redundancy] ==
        IF n = 0 THEN {{}}
        ELSE UNION {IF GetServer(view, used) = {} THEN {used}
                    ELSE {used \cup {b} : b \in GetServer(view, used)} : used \in After[n - 1]}
  IN After[Redundancy]
=============================================================================
