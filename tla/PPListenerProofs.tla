-------------------------- MODULE PPListenerProofs --------------------------
(***************************************************************************)
(* Proofs about PPListener for any number of sessions, mailboxes and names.*)
(*                                                                         *)
(* The safety properties are not inductive: that an undo never touches an  *)
(* acknowledged message rests on sessions listing disjoint sets of names,  *)
(* and that a damaged file is never renamed rests on the file a session    *)
(* writes being the one its names refer to, and nobody else's.  IInv adds  *)
(* these facts.                                                            *)
(***************************************************************************)
EXTENDS PPListener, TLAPS

Receiving == {"preLimbo", "inData", "inLimbo"}
Ending == {"moving", "undoing"}

\* Every name in use has been announced, hence is not announced again.
Fresh ==
  /\ acked \subseteq announced /\ deleted \subseteq announced
  /\ \A s \in Session : /\ inTmp[s] \subseteq announced
                        /\ inCur[s] \subseteq announced
                        /\ first[s] # NoName => first[s] \in announced
  /\ \A n \in Name : /\ tmp[n] # NoName => n \in announced
                     /\ cur[n] # NoName => n \in announced /\ cur[n] \in announced

\* Sessions list different names, none of them acknowledged, and write
\* different files.
Apart ==
  /\ \A s, t \in Session : \A n \in Name :
        n \in files(s) /\ n \in files(t) => s = t
  /\ \A s, t \in Session : first[s] = first[t] /\ first[s] # NoName => s = t
  /\ \A s \in Session : \A n \in Name : n \in files(s) => n \notin acked

\* A name that is still to be renamed was never visible.
Unseen == \A s \in Session : \A n \in inTmp[s] : cur[n] = NoName /\ n \notin deleted

\* How the state of one transaction hangs together.
Phase ==
  \A s \in Session :
    /\ mode[s] \in Receiving =>
         task[s] = "none" /\ fd[s] = first[s] /\ first[s] \in inTmp[s]
    /\ task[s] \in Ending => fd[s] = NoName
    /\ fd[s] # NoName => fd[s] = first[s]
    /\ inCur[s] # {} => task[s] \in Ending
    /\ \A n \in inCur[s] : cur[n] # NoName \/ n \in deleted

\* The file being written is visible to nobody, and what it holds is known.
Writing ==
  \A s \in Session :
    /\ fd[s] # NoName => \A n \in Name : cur[n] # fd[s]
    /\ mode[s] = "preLimbo" => data[first[s]] = "partial"
    /\ mode[s] = "inData" /\ ~failed[s] => data[first[s]] \in {"partial", "short"}
    /\ mode[s] = "inLimbo" /\ ~failed[s] => data[first[s]] \in {"whole", "short"}
    /\ task[s] = "moving" => first[s] \in Name /\ data[first[s]] \in {"whole", "short"}

IInv == /\ TypeOK /\ Fresh /\ Apart /\ Unseen /\ Phase /\ Writing
        /\ AckedStored /\ LostLineHidden /\ NoStray /\ RefusedGone /\ OneCopy

-----------------------------------------------------------------------------
(* The invariant holds initially and is preserved, action by action.       *)

\* Nothing is announced, open or visible in an initial state.
LEMMA InitInvariant == Init => IInv
  BY NameAssumption
  DEF Init, IInv, TypeOK, Fresh, Apart, Unseen, Phase, Writing, AckedStored, LostLineHidden,
      NoStray, RefusedGone, OneCopy, files, Mode, Task, Content, File, Receiving, Ending

\* The commands that move a session through its modes touch no file: what IInv
\* says of the session's phase has to hold in the mode it enters.
LEMMA ModeInvariant ==
  ASSUME IInv, NEW s \in Session,
         \/ Connect(s) \/ Pass(s) \/ HangUp(s) \/ Put(s) \/ DirCommand(s) \/ MoreDir(s)
         \/ \E m \in Mbox : Nuke(s, m)
  PROVE  IInv'
<1> USE NameAssumption
    DEF IInv, TypeOK, Fresh, Apart, Unseen, Phase, Writing, AckedStored, LostLineHidden, NoStray,
        RefusedGone, OneCopy, files, Mode, Task, File, Receiving, Ending, Idle, fileVars, history
<1>1. CASE Connect(s)
  BY <1>1 DEF Connect
<1>2. CASE Pass(s)
  BY <1>2 DEF Pass
<1>3. CASE HangUp(s)
  BY <1>3 DEF HangUp
<1>4. CASE Put(s)
  BY <1>4 DEF Put
<1>5. CASE DirCommand(s)
  BY <1>5 DEF DirCommand
<1>6. CASE MoreDir(s)
  BY <1>6 DEF MoreDir
<1>7. ASSUME NEW m \in Mbox, Nuke(s, m) PROVE IInv'
  BY <1>7 DEF Nuke
<1> QED
  BY <1>1, <1>2, <1>3, <1>4, <1>5, <1>6, <1>7

\* Announcing a recipient: the name is fresh, so no other session lists it and
\* no file refers to it.
LEMMA RcptInvariant ==
  ASSUME IInv, NEW s \in Session, NEW n \in Name,
         RcptOpen(s, n) \/ RcptLink(s, n) \/ RcptFails(s, n)
  PROVE  IInv'
<1> USE NameAssumption
    DEF IInv, TypeOK, Fresh, Apart, Unseen, Phase, Writing, AckedStored, LostLineHidden, NoStray,
        RefusedGone, OneCopy, files, Mode, Task, Content, File, Receiving, Ending, MayAnnounce,
        SetupMaildir
<1>1. /\ n \notin announced
      /\ tmp[n] = NoName /\ cur[n] = NoName
      /\ \A t \in Session : n \notin inTmp[t] /\ n \notin inCur[t] /\ first[t] # n
      /\ \A k \in Name : cur[k] # n
  BY DEF RcptOpen, RcptLink, RcptFails
<1>2. CASE RcptOpen(s, n)
  <2>1. fd'[s] = n /\ first'[s] = n /\ tmp'[n] = n /\ data'[n] = "partial"
    BY <1>1, <1>2 DEF RcptOpen
  <2> QED
    BY <1>1, <1>2, <2>1 DEF RcptOpen
<1>3. CASE RcptLink(s, n)
  \* The first name is still in tmp/ and refers to the file it was opened as.
  <2>1. tmp'[n] = first[s]
    BY <1>1, <1>3 DEF RcptLink
  <2> QED
    BY <1>1, <1>3, <2>1 DEF RcptLink
<1>4. CASE RcptFails(s, n)
  <2>1. tmp' = tmp
    BY <1>1, <1>4 DEF RcptFails
  <2>2. /\ \A t \in Session : fd'[t] = fd[t] \/ fd'[t] = NoName
        /\ \A t \in Session : mode[t] \in Receiving => fd'[t] = fd[t]
    BY <1>4 DEF RcptFails
  <2>3. Writing' /\ Phase'
    BY <1>4, <2>2 DEF RcptFails
  <2> QED
    BY <1>4, <2>1, <2>2, <2>3 DEF RcptFails
<1> QED
  BY <1>2, <1>3, <1>4

\* Receiving lines: only the file this session writes changes, and it is
\* visible nowhere.
LEMMA LineInvariant ==
  ASSUME IInv, NEW s \in Session, LineFails(s) \/ LineShort(s) \/ Dot(s)
  PROVE  IInv'
<1> USE NameAssumption
    DEF IInv, TypeOK, Fresh, Apart, Unseen, Phase, Writing, AckedStored, LostLineHidden, NoStray,
        RefusedGone, OneCopy, files, Mode, Task, Content, File, Receiving, Ending, Idle,
        sessionVars, history
<1>1. /\ fd[s] = first[s] /\ first[s] \in Name
      /\ \A n \in Name : cur[n] # first[s]
      /\ \A t \in Session : t # s => first[t] # first[s]
  BY DEF LineFails, LineShort, Dot
<1>2. CASE LineFails(s)
  BY <1>1, <1>2 DEF LineFails
<1>3. CASE LineShort(s)
  BY <1>1, <1>3 DEF LineShort
<1>4. CASE Dot(s)
  BY <1>1, <1>4 DEF Dot
<1> QED
  BY <1>2, <1>3, <1>4

\* The answer to "commit" and "rollback", and the start and end of the loops
\* behind them.
LEMMA EndInvariant ==
  ASSUME IInv, NEW s \in Session,
         \/ CommitRefused(s) \/ Commit(s) \/ CloseFails(s) \/ Rollback(s)
         \/ MoveFails(s) \/ CommitDone(s) \/ UndoDone(s)
  PROVE  IInv'
<1> USE NameAssumption
    DEF IInv, TypeOK, Fresh, Apart, Unseen, Phase, Writing, AckedStored, LostLineHidden, NoStray,
        RefusedGone, OneCopy, files, Mode, Task, Content, File, Receiving, Ending, Idle,
        fileVars, history
<1>1. CASE CommitRefused(s)
  BY <1>1 DEF CommitRefused
<1>2. CASE Commit(s)
  BY <1>2 DEF Commit, CommitCloses
<1>3. CASE CloseFails(s)
  BY <1>3 DEF CloseFails, CommitCloses
<1>4. CASE Rollback(s)
  BY <1>4 DEF Rollback
<1>5. CASE MoveFails(s)
  BY <1>5 DEF MoveFails
<1>6. CASE CommitDone(s)
  \* What is acknowledged now was renamed, and is still there or was deleted.
  <2>1. AckedStored'
    BY <1>6 DEF CommitDone
  <2>2. RefusedGone'
    BY <1>6 DEF CommitDone
  <2> QED
    BY <1>6, <2>1, <2>2 DEF CommitDone
<1>7. CASE UndoDone(s)
  BY <1>7 DEF UndoDone
<1> QED
  BY <1>1, <1>2, <1>3, <1>4, <1>5, <1>6, <1>7

\* One rename or unlink of a transaction: the entry is this session's alone.
LEMMA LoopInvariant ==
  ASSUME IInv, NEW s \in Session, NEW n \in Name,
         MoveOne(s, n) \/ UndoTmp(s, n) \/ UndoCur(s, n)
  PROVE  IInv'
<1> USE NameAssumption
    DEF IInv, TypeOK, Fresh, Apart, Unseen, Phase, Writing, AckedStored, LostLineHidden, NoStray,
        RefusedGone, OneCopy, files, Mode, Task, Content, File, Receiving, Ending, history
<1>1. CASE MoveOne(s, n)
  <2>1. tmp[n] = first[s] /\ data[first[s]] \in {"whole", "short"}
    BY <1>1 DEF MoveOne
  <2>2. \A t \in Session : fd[t] # NoName => fd[t] # first[s]
    BY <1>1 DEF MoveOne
  <2> QED
    BY <1>1, <2>1, <2>2 DEF MoveOne
<1>2. CASE UndoTmp(s, n)
  BY <1>2 DEF UndoTmp
<1>3. CASE UndoCur(s, n)
  <2>1. n \notin acked /\ \A t \in Session : t # s => n \notin inCur[t]
    BY <1>3 DEF UndoCur
  <2> QED
    BY <1>3, <2>1 DEF UndoCur
<1> QED
  BY <1>1, <1>2, <1>3

\* Deleting and purging: entries disappear under the sessions that made them.
LEMMA DeleteInvariant ==
  ASSUME IInv, NEW s \in Session,
         \/ \E n \in Name : Del(s, n) \/ NukeCurFile(s, n) \/ NukeTmpFile(s, n)
         \/ NukeCurDir(s) \/ NukeEnds(s)
  PROVE  IInv'
<1> USE NameAssumption
    DEF IInv, TypeOK, Fresh, Apart, Unseen, Phase, Writing, AckedStored, LostLineHidden, NoStray,
        RefusedGone, OneCopy, files, Mode, Task, Content, File, Receiving, Ending, Idle,
        sessionVars, fileVars, history
<1>1. ASSUME NEW n \in Name, Del(s, n) PROVE IInv'
  BY <1>1 DEF Del
<1>2. ASSUME NEW n \in Name, NukeCurFile(s, n) PROVE IInv'
  BY <1>2 DEF NukeCurFile
<1>3. ASSUME NEW n \in Name, NukeTmpFile(s, n) PROVE IInv'
  BY <1>3 DEF NukeTmpFile
<1>4. CASE NukeCurDir(s)
  <2>1. /\ UNCHANGED <<mode, failed, fd, first, inTmp, inCur, tmp, cur, data, history>>
        /\ target' = target /\ curDir' \in SUBSET Mbox
        /\ task' = [task EXCEPT ![s] = "nukeTmp"] /\ task[s] = "nukeCur"
    BY <1>4 DEF NukeCurDir
  <2> QED
    BY <2>1
<1>5. CASE NukeEnds(s)
  BY <1>5 DEF NukeEnds
<1> QED
  BY <1>1, <1>2, <1>3, <1>4, <1>5

\* A crash turns every name in use into an orphan.
LEMMA CrashInvariant == IInv /\ Crash => IInv'
  BY NameAssumption
  DEF Crash, IInv, TypeOK, Fresh, Apart, Unseen, Phase, Writing, AckedStored, LostLineHidden,
      NoStray, RefusedGone, OneCopy, files, Mode, Task, Content, File, Receiving, Ending, fileVars

\* IInv is inductive.
LEMMA StepInvariant == IInv /\ [Next]_vars => IInv'
<1> SUFFICES ASSUME IInv, [Next]_vars PROVE IInv'
  OBVIOUS
<1>1. CASE UNCHANGED vars
  BY <1>1 DEF vars, IInv, TypeOK, Fresh, Apart, Unseen, Phase, Writing, AckedStored,
      LostLineHidden, NoStray, RefusedGone, OneCopy, files
<1>2. CASE Crash
  BY <1>2, CrashInvariant
<1>3. ASSUME NEW s \in Session, SessionNext(s) PROVE IInv'
  BY <1>3, ModeInvariant, RcptInvariant, LineInvariant, EndInvariant, LoopInvariant,
     DeleteInvariant DEF SessionNext
<1> QED
  BY <1>1, <1>2, <1>3 DEF Next

\* IInv holds throughout.
THEOREM Invariance == Spec => []IInv
  BY InitInvariant, StepInvariant, PTL DEF Spec

-----------------------------------------------------------------------------
(* What follows from it.                                                   *)

\* Every variable keeps its type.
THEOREM TypeCorrect == Spec => []TypeOK
<1>1. IInv => TypeOK
  BY DEF IInv
<1> QED
  BY <1>1, Invariance, PTL

\* A message answered +OK stays in its mailbox until a user deletes it.
THEOREM AckedKept == Spec => []AckedStored
<1>1. IInv => AckedStored
  BY DEF IInv
<1> QED
  BY <1>1, Invariance, PTL

\* A message a line of which was known to be lost is never visible.
THEOREM DamageHidden == Spec => []LostLineHidden
<1>1. IInv => LostLineHidden
  BY DEF IInv
<1> QED
  BY <1>1, Invariance, PTL

\* Short of a crash, tmp/ holds only files that a session will remove or rename.
THEOREM NoLeak == Spec => []NoStray
<1>1. IInv => NoStray
  BY DEF IInv
<1> QED
  BY <1>1, Invariance, PTL

\* A refused transaction leaves nothing in a mailbox once its undo has ended.
THEOREM RefusedInvisible == Spec => []RefusedGone
<1>1. IInv => RefusedGone
  BY DEF IInv
<1> QED
  BY <1>1, Invariance, PTL

\* No line of a message meets a closed file.
THEOREM FileOpen == Spec => []OpenWhileReceiving
<1>1. IInv => OpenWhileReceiving
  BY NameAssumption DEF IInv, TypeOK, Phase, Receiving, OpenWhileReceiving
<1> QED
  BY <1>1, Invariance, PTL

\* All recipients of a transaction share one file.
THEOREM SharedCopy == Spec => []OneCopy
<1>1. IInv => OneCopy
  BY DEF IInv
<1> QED
  BY <1>1, Invariance, PTL

-----------------------------------------------------------------------------
(* The backend implements the abstract store.                              *)

Visible == {n \in Name : cur[n] # NoName}

\* An empty mail root is an empty store.
LEMMA InitRefines == Init => Store!StoreInit
  BY DEF Init, Store!StoreInit

\* A step that leaves cur/ and the two histories alone is a stutter.
LEMMA Stutter == UNCHANGED <<cur, acked, deleted>> => UNCHANGED Store!storeVars
  BY DEF Store!storeVars

\* Every step of the backend is a step of the store, or none.
LEMMA StepRefines == IInv /\ [Next]_vars => [Store!StoreNext]_(Store!storeVars)
<1> SUFFICES ASSUME IInv, [Next]_vars PROVE [Store!StoreNext]_(Store!storeVars)
  OBVIOUS
<1>1. CASE UNCHANGED vars
  BY <1>1, Stutter DEF vars
<1>2. CASE Crash
  BY <1>2, Stutter DEF Crash, fileVars
<1>3. ASSUME NEW s \in Session, SessionNext(s) PROVE [Store!StoreNext]_(Store!storeVars)
  <2>1. ASSUME NEW n \in Name, MoveOne(s, n) PROVE Store!Appear(n)
    <3>1. cur[n] = NoName /\ n \notin acked /\ n \notin deleted
      BY <2>1 DEF MoveOne, IInv, Unseen, Apart, files
    <3>2. Visible' = Visible \cup {n} /\ UNCHANGED <<acked, deleted>>
      BY <2>1, NameAssumption DEF MoveOne, Visible, IInv, TypeOK, history
    <3> QED
      BY <3>1, <3>2 DEF Store!Appear, Visible
  <2>2. ASSUME NEW n \in Name, UndoCur(s, n)
        PROVE  Store!Withdraw(n) \/ UNCHANGED Store!storeVars
    <3>1. n \notin acked
      BY <2>2 DEF UndoCur, IInv, Apart, files
    <3>2. Visible' = Visible \ {n} /\ UNCHANGED <<acked, deleted>>
      BY <2>2 DEF UndoCur, Visible, IInv, TypeOK, history
    <3>3. CASE cur[n] = NoName
      BY <3>2, <3>3 DEF Store!storeVars, Visible
    <3>4. CASE cur[n] # NoName
      BY <3>1, <3>2, <3>4 DEF Store!Withdraw, Visible
    <3> QED
      BY <3>3, <3>4
  <2>3. ASSUME NEW n \in Name, Del(s, n) \/ NukeCurFile(s, n) PROVE Store!Delete(n)
    <3>1. cur[n] # NoName /\ deleted' = deleted \cup {n} /\ acked' = acked
      BY <2>3 DEF Del, NukeCurFile
    <3>2. Visible' = Visible \ {n}
      BY <2>3 DEF Del, NukeCurFile, Visible, IInv, TypeOK
    <3> QED
      BY <3>1, <3>2 DEF Store!Delete, Visible
  <2>4. CASE CommitDone(s)
    <3>1. inCur[s] \subseteq Visible \cup deleted
      BY DEF IInv, TypeOK, Phase, Visible
    <3>2. acked' = acked \cup inCur[s] /\ UNCHANGED <<cur, deleted>>
      BY <2>4 DEF CommitDone, fileVars
    <3>3. Store!Promise(inCur[s]) /\ inCur[s] \in SUBSET Name
      BY <3>1, <3>2 DEF Store!Promise, Visible, IInv, TypeOK
    <3> QED
      BY <3>3 DEF Store!StoreNext
  <2>5. CASE \/ Connect(s) \/ Pass(s) \/ HangUp(s) \/ Put(s) \/ DirCommand(s) \/ MoreDir(s)
             \/ \E m \in Mbox : Nuke(s, m)
    BY <2>5, Stutter DEF Connect, Pass, HangUp, Put, DirCommand, MoreDir, Nuke, fileVars, history
  <2>6. CASE \E n \in Name : RcptOpen(s, n) \/ RcptLink(s, n) \/ RcptFails(s, n)
    BY <2>6, Stutter DEF RcptOpen, RcptLink, RcptFails
  <2>7. CASE LineFails(s) \/ LineShort(s) \/ Dot(s)
    BY <2>7, Stutter DEF LineFails, LineShort, Dot, history
  <2>8. CASE CommitRefused(s) \/ Commit(s) \/ CloseFails(s) \/ Rollback(s) \/ MoveFails(s)
             \/ UndoDone(s) \/ \E n \in Name : UndoTmp(s, n)
    BY <2>8, Stutter DEF CommitRefused, Commit, CloseFails, CommitCloses, Rollback, MoveFails,
       UndoDone, UndoTmp, fileVars, history
  <2>9. CASE NukeCurDir(s) \/ NukeEnds(s) \/ \E n \in Name : NukeTmpFile(s, n)
    BY <2>9, Stutter DEF NukeCurDir, NukeEnds, NukeTmpFile, fileVars, history
  <2> QED
    BY <1>3, <2>1, <2>2, <2>3, <2>4, <2>5, <2>6, <2>7, <2>8, <2>9
    DEF SessionNext, Store!StoreNext
<1> QED
  BY <1>1, <1>2, <1>3 DEF Next

\* pplistener implements MailStore: what a client was promised is kept, and what
\* a user deleted does not come back.
THEOREM Implementation == Spec => ImplementsStore
  BY InitRefines, StepRefines, Invariance, PTL DEF Spec, ImplementsStore, Store!StoreSpec

=============================================================================
