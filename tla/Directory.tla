----------------------------- MODULE Directory ------------------------------
(***************************************************************************)
(* What a userbase promises: the administrator's directory goes through    *)
(* versions, each a set of addresses; a user of the userbase reads one     *)
(* version or a later one each time, never an earlier one again, and is    *)
(* told that an address exists only if that version has it.  It may be     *)
(* told that it does not know, or that there is no such address.           *)
(***************************************************************************)
EXTENDS Naturals, Sequences

CONSTANTS Address, User

VARIABLES versions,  \* versions[n]: the addresses of the n-th version
          served,    \* the version a user reads, 0 before the first
          exists     \* the addresses its last answer said exist: at most one

vars == <<versions, served, exists>>

Init == /\ versions \in {<<listed>> : listed \in SUBSET Address}
        /\ served = [u \in User |-> 0]
        /\ exists = [u \in User |-> {}]

Change == /\ \E listed \in SUBSET Address : versions' = Append(versions, listed)
          /\ UNCHANGED <<served, exists>>

\* A user's process is started again: it has read nothing.
Restart(u) == /\ served' = [served EXCEPT ![u] = 0]
              /\ exists' = [exists EXCEPT ![u] = {}]
              /\ UNCHANGED versions

Read(u) == \E n \in served[u]..Len(versions) :
             /\ served' = [served EXCEPT ![u] = n]
             /\ \/ exists' = [exists EXCEPT ![u] = {}]
                \/ n # 0 /\ \E a \in versions[n] : exists' = [exists EXCEPT ![u] = {a}]
             /\ UNCHANGED versions

Next == Change \/ \E u \in User : Restart(u) \/ Read(u)

Spec == Init /\ [][Next]_vars
=============================================================================
