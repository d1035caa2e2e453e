----------------------------- MODULE MailStore -----------------------------
(***************************************************************************)
(* What a storage backend (pplistener) promises its clients, with the      *)
(* sessions, the temporary files and the directories left out.  A message  *)
(* name becomes visible; a client may be told that a set of names is       *)
(* stored; a name nobody was told about may be withdrawn; a user deletes   *)
(* visible names.  PPListener is shown to implement this specification.    *)
(***************************************************************************)
CONSTANT Name           \* a mailbox together with an index: one maildir entry

VARIABLES visible,      \* names a listing of their mailbox shows
          promised,     \* names whose commit was answered +OK
          deleted       \* names a user deleted or purged

storeVars == <<visible, promised, deleted>>

StoreInit == visible = {} /\ promised = {} /\ deleted = {}

\* A name appears at most once in its life: not after it was promised or deleted.
Appear(n) == /\ n \notin visible \cup promised \cup deleted
             /\ visible' = visible \cup {n}
             /\ UNCHANGED <<promised, deleted>>

\* The backend takes back a name of a transaction it has not acknowledged.
Withdraw(n) == /\ n \in visible \ promised
               /\ visible' = visible \ {n}
               /\ UNCHANGED <<promised, deleted>>

\* +OK on commit: every name of the transaction is there, or a user has
\* already deleted it.
Promise(names) == /\ names \subseteq visible \cup deleted
                  /\ promised' = promised \cup names
                  /\ UNCHANGED <<visible, deleted>>

Delete(n) == /\ n \in visible
             /\ visible' = visible \ {n}
             /\ deleted' = deleted \cup {n}
             /\ UNCHANGED promised

StoreNext == \/ \E n \in Name : Appear(n) \/ Withdraw(n) \/ Delete(n)
             \/ \E names \in SUBSET Name : Promise(names)

StoreSpec == StoreInit /\ [][StoreNext]_storeVars

-----------------------------------------------------------------------------
\* A promised message is never lost: it is visible until a user deletes it.
PromisedKept == promised \subseteq visible \cup deleted
=============================================================================
