----------------------------- MODULE PPListener -----------------------------
(***************************************************************************)
(* The storage backend: pplistener's connection threads (serveConnection,  *)
(* PPListenSession) and the maildir transactions they run (Delivery) over  *)
(* one shared filesystem.  A transaction announces names ("rcpt"), streams *)
(* the message into the first name's file under tmp/ ("put", lines, "."),  *)
(* then renames every name into cur/ ("commit") or unlinks it ("rollback", *)
(* hang-up, failure).  Each rename and each unlink is a step of its own:   *)
(* other sessions delete, purge and deliver in between.                    *)
(*                                                                         *)
(* An inode is identified by the name it was created under, so a file of   *)
(* the maildir is tmp[n] or cur[n], the inode the entry refers to.         *)
(***************************************************************************)
CONSTANTS Session,      \* connections, each served by a thread
          Mbox,         \* mailboxes
          Name,         \* names that may be announced: a mailbox and an index
          MboxOf,       \* the mailbox of a name
          NoName        \* no file, no open descriptor

ASSUME NameAssumption == MboxOf \in [Name -> Mbox] /\ NoName \notin Name

VARIABLES
  mode,       \* PPListenSession::d_mode, "closed" when there is no connection
  task,       \* the loop a session's thread is in, "none" between commands
  target,     \* the mailbox a purge is about, NoName without one
  failed,     \* PPListenSession::d_failed
  fd,         \* Delivery::d_fd: the inode being written, NoName for -1
  first,      \* Delivery::d_filename: the name the message was opened under
  inTmp,      \* the entries of Delivery::d_filenames that are tmp/ paths
  inCur,      \* ... and those a rename has been logged for
  tmp, cur,   \* the tmp/ and cur/ entries of the mail root
  curDir,     \* mailboxes that have a cur/ directory
  data,       \* what an inode holds
  announced,  \* names any client ever announced
  acked,      \* history: names of transactions answered +OK
  deleted,    \* history: names deleted or purged by a user
  orphans     \* history: names whose session died with the process

sessionVars == <<mode, task, target, failed, fd, first, inTmp, inCur>>
fileVars == <<tmp, cur, curDir, data>>
history == <<announced, acked, deleted, orphans>>
vars == <<mode, task, target, failed, fd, first, inTmp, inCur,
          tmp, cur, curDir, data, announced, acked, deleted, orphans>>

Mode == {"closed", "unAuth", "blank", "preLimbo", "inData", "inLimbo", "Dir"}
Task == {"none", "moving", "undoing", "nukeCur", "nukeTmp"}

\* What an inode holds: the message so far, all of it, all but what a write
\* silently left out ("short"), or less because a write failed ("damaged").
Content == {"none", "partial", "whole", "short", "damaged"}
File == Name \cup {NoName}

files(s) == inTmp[s] \cup inCur[s]           \* d_filenames, and d_destinations with it

TypeOK == /\ mode \in [Session -> Mode]
          /\ task \in [Session -> Task]
          /\ target \in [Session -> Mbox \cup {NoName}]
          /\ failed \in [Session -> BOOLEAN]
          /\ fd \in [Session -> File]
          /\ first \in [Session -> File]
          /\ inTmp \in [Session -> SUBSET Name]
          /\ inCur \in [Session -> SUBSET Name]
          /\ tmp \in [Name -> File]
          /\ cur \in [Name -> File]
          /\ curDir \in SUBSET Mbox
          /\ data \in [Name -> Content]
          /\ announced \in SUBSET Name
          /\ acked \in SUBSET Name
          /\ deleted \in SUBSET Name
          /\ orphans \in SUBSET Name

Init == /\ mode = [s \in Session |-> "closed"]
        /\ task = [s \in Session |-> "none"]
        /\ target = [s \in Session |-> NoName]
        /\ failed = [s \in Session |-> FALSE]
        /\ fd = [s \in Session |-> NoName]
        /\ first = [s \in Session |-> NoName]
        /\ inTmp = [s \in Session |-> {}]
        /\ inCur = [s \in Session |-> {}]
        /\ tmp = [n \in Name |-> NoName]
        /\ cur = [n \in Name |-> NoName]
        /\ curDir = {}
        /\ data = [n \in Name |-> "none"]
        /\ announced = {} /\ acked = {} /\ deleted = {} /\ orphans = {}

-----------------------------------------------------------------------------
(* Connections.                                                            *)

\* A session that may take a command: no loop of an earlier one is running.
Idle(s, m) == mode[s] = m /\ task[s] = "none"

Connect(s) == /\ Idle(s, "closed")
              /\ mode' = [mode EXCEPT ![s] = "unAuth"]
              /\ failed' = [failed EXCEPT ![s] = FALSE]
              /\ UNCHANGED <<task, target, fd, first, inTmp, inCur, fileVars, history>>

Pass(s) == /\ Idle(s, "unAuth")
           /\ mode' = [mode EXCEPT ![s] = "blank"]
           /\ UNCHANGED <<task, target, failed, fd, first, inTmp, inCur, fileVars, history>>

\* Mutant of HangUp: a destructor that closes the file and unlinks nothing.
HangUpKeepsFiles(s) ==
  /\ mode[s] # "closed" /\ task[s] = "none"
  /\ mode' = [mode EXCEPT ![s] = "closed"]
  /\ fd' = [fd EXCEPT ![s] = NoName]
  /\ inTmp' = [inTmp EXCEPT ![s] = {}]
  /\ inCur' = [inCur EXCEPT ![s] = {}]
  /\ UNCHANGED <<task, target, failed, first, fileVars, history>>

\* "quit", or the connection is lost: the Delivery destructor closes the file
\* and unlinks what the session still lists.
HangUp(s) == /\ mode[s] # "closed" /\ task[s] = "none"
             /\ mode' = [mode EXCEPT ![s] = "closed"]
             /\ fd' = [fd EXCEPT ![s] = NoName]
             /\ task' = [task EXCEPT ![s] = "undoing"]
             /\ UNCHANGED <<target, failed, first, inTmp, inCur, fileVars, history>>

\* The process ends under its sessions: "control stop", an exception nobody
\* catches, a kill.  No destructor runs, the files stay.
Crash == /\ mode' = [s \in Session |-> "closed"]
         /\ task' = [s \in Session |-> "none"]
         /\ failed' = [s \in Session |-> FALSE]
         /\ fd' = [s \in Session |-> NoName]
         /\ first' = [s \in Session |-> NoName]
         /\ inTmp' = [s \in Session |-> {}]
         /\ inCur' = [s \in Session |-> {}]
         /\ orphans' = orphans \cup UNION {files(s) : s \in Session}
         /\ target' = [s \in Session |-> NoName]
         /\ UNCHANGED <<fileVars, announced, acked, deleted>>

-----------------------------------------------------------------------------
(* Announcing recipients.  The client (MegaTalker) announces a name once,  *)
(* made of SmtpSession::makeIndex and a message number, and does not reuse *)
(* a connection whose commit was refused (it marks the talker not ok).     *)

MayAnnounce(s, n) == /\ mode[s] \in {"blank", "preLimbo"} /\ task[s] = "none"
                     /\ mode[s] = "blank" => files(s) = {}
                     /\ n \notin announced

\* setupMaildir makes the directories that are missing; makeMessageLoc drops
\* its result, so a failed mkdir goes unnoticed here.
SetupMaildir(m) == curDir' \in {curDir, curDir \cup {m}}

\* The first recipient: open(O_CREAT | O_WRONLY), onto an existing file if any.
RcptOpen(s, n) ==
  /\ MayAnnounce(s, n) /\ files(s) = {}
  /\ SetupMaildir(MboxOf[n])
  /\ LET inode == IF tmp[n] = NoName THEN n ELSE tmp[n]
     IN /\ tmp' = [tmp EXCEPT ![n] = inode]
        /\ data' = IF tmp[n] = NoName THEN [data EXCEPT ![n] = "partial"] ELSE data
        /\ fd' = [fd EXCEPT ![s] = inode]
  /\ first' = [first EXCEPT ![s] = n]
  /\ inTmp' = [inTmp EXCEPT ![s] = {n}]
  /\ mode' = [mode EXCEPT ![s] = "preLimbo"]
  /\ announced' = announced \cup {n}
  /\ UNCHANGED <<task, target, failed, inCur, cur, acked, deleted, orphans>>

\* Mutant of RcptLink: every recipient gets a file of its own.
RcptOpensAgain(s, n) ==
  /\ MayAnnounce(s, n) /\ files(s) # {}
  /\ SetupMaildir(MboxOf[n])
  /\ tmp' = [tmp EXCEPT ![n] = n]
  /\ data' = [data EXCEPT ![n] = "partial"]
  /\ inTmp' = [inTmp EXCEPT ![s] = @ \cup {n}]
  /\ mode' = [mode EXCEPT ![s] = "preLimbo"]
  /\ announced' = announced \cup {n}
  /\ UNCHANGED <<task, target, failed, fd, first, inCur, cur, acked, deleted, orphans>>

\* A further recipient: unlink whatever has the name, link the first file to it.
RcptLink(s, n) ==
  /\ MayAnnounce(s, n) /\ files(s) # {}
  /\ SetupMaildir(MboxOf[n])
  /\ tmp[first[s]] # NoName
  /\ tmp' = [tmp EXCEPT ![n] = tmp[first[s]]]
  /\ inTmp' = [inTmp EXCEPT ![s] = @ \cup {n}]
  /\ mode' = [mode EXCEPT ![s] = "preLimbo"]
  /\ announced' = announced \cup {n}
  /\ UNCHANGED <<task, target, failed, fd, first, inCur, cur, data, acked, deleted, orphans>>

\* Mutant of RcptFails: rcptCommand moves on to preLimbo in spite of the error.
RcptFailsMovesOn(s, n) ==
  /\ MayAnnounce(s, n)
  /\ mode' = [mode EXCEPT ![s] = "preLimbo"]
  /\ announced' = announced \cup {n}
  /\ UNCHANGED <<task, target, failed, fd, first, inTmp, inCur, fileVars,
                 acked, deleted, orphans>>

\* A directory, an open or a link fails: -ERR, and the mode stays what it was.
RcptFails(s, n) ==
  /\ MayAnnounce(s, n)
  /\ SetupMaildir(MboxOf[n])
  /\ IF files(s) = {} THEN fd' = [fd EXCEPT ![s] = NoName] /\ UNCHANGED tmp
                      ELSE tmp' = [tmp EXCEPT ![n] = NoName] /\ UNCHANGED fd
  /\ announced' = announced \cup {n}
  /\ UNCHANGED <<mode, task, target, failed, first, inTmp, inCur, cur, data,
                 acked, deleted, orphans>>

-----------------------------------------------------------------------------
(* Receiving the message.                                                  *)

Put(s) == /\ Idle(s, "preLimbo")
          /\ failed' = [failed EXCEPT ![s] = FALSE]
          /\ mode' = [mode EXCEPT ![s] = "inData"]
          /\ UNCHANGED <<task, target, fd, first, inTmp, inCur, fileVars, history>>

\* A line cannot be written: the session remembers it and drops the rest.
\* (With no file open the line would be an exception nobody catches, and the
\* end of the process: OpenWhileReceiving shows that this does not happen.)
LineFails(s) == /\ Idle(s, "inData") /\ ~failed[s] /\ fd[s] # NoName
                /\ failed' = [failed EXCEPT ![s] = TRUE]
                /\ data' = [data EXCEPT ![fd[s]] = "damaged"]
                /\ UNCHANGED <<mode, task, target, fd, first, inTmp, inCur,
                               tmp, cur, curDir, history>>

\* write(2) stores part of a line and says so: only a negative result is looked at.
LineShort(s) == /\ Idle(s, "inData") /\ ~failed[s] /\ fd[s] # NoName
                /\ data' = [data EXCEPT ![fd[s]] = "short"]
                /\ UNCHANGED <<sessionVars, tmp, cur, curDir, history>>

\* The line ".": whatever was written is the message.
Dot(s) == /\ Idle(s, "inData")
          /\ mode' = [mode EXCEPT ![s] = "inLimbo"]
          /\ data' = IF fd[s] # NoName /\ data[fd[s]] = "partial"
                       THEN [data EXCEPT ![fd[s]] = "whole"] ELSE data
          /\ UNCHANGED <<task, target, failed, fd, first, inTmp, inCur,
                         tmp, cur, curDir, history>>

-----------------------------------------------------------------------------
(* Ending the transaction.                                                 *)

\* Mutant of CommitRefused: commitCommand does not look at d_failed.
CommitIgnoresFailure(s) ==
  /\ Idle(s, "inLimbo") /\ failed[s]
  /\ mode' = [mode EXCEPT ![s] = "blank"]
  /\ failed' = [failed EXCEPT ![s] = FALSE]
  /\ fd' = [fd EXCEPT ![s] = NoName]
  /\ task' = [task EXCEPT ![s] = "moving"]
  /\ UNCHANGED <<target, first, inTmp, inCur, fileVars, history>>

\* "commit" after a failed line: -ERR.  The file and the names are kept.
CommitRefused(s) == /\ Idle(s, "inLimbo") /\ failed[s]
                    /\ mode' = [mode EXCEPT ![s] = "blank"]
                    /\ failed' = [failed EXCEPT ![s] = FALSE]
                    /\ UNCHANGED <<task, target, fd, first, inTmp, inCur, fileVars, history>>

\* "commit": close the file, which NFS may answer with an error, then rename.
CommitCloses(s, next) == /\ Idle(s, "inLimbo") /\ ~failed[s]
                         /\ mode' = [mode EXCEPT ![s] = "blank"]
                         /\ fd' = [fd EXCEPT ![s] = NoName]
                         /\ task' = [task EXCEPT ![s] = next]
                         /\ UNCHANGED <<target, failed, first, inTmp, inCur, fileVars, history>>

Commit(s) == CommitCloses(s, "moving")
CloseFails(s) == CommitCloses(s, "undoing")

\* Mutant of MoveOne: the rename is not logged in d_filenames.
MoveOneUnlogged(s, n) ==
  /\ task[s] = "moving"
  /\ n \in inTmp[s] /\ tmp[n] # NoName /\ MboxOf[n] \in curDir
  /\ cur' = [cur EXCEPT ![n] = tmp[n]]
  /\ tmp' = [tmp EXCEPT ![n] = NoName]
  /\ UNCHANGED <<sessionVars, curDir, data, history>>

\* One turn of moveAll: rename(tmp/n, cur/n), and log it in d_filenames.
MoveOne(s, n) == /\ task[s] = "moving"
                 /\ n \in inTmp[s] /\ tmp[n] # NoName /\ MboxOf[n] \in curDir
                 /\ cur' = [cur EXCEPT ![n] = tmp[n]]
                 /\ tmp' = [tmp EXCEPT ![n] = NoName]
                 /\ inTmp' = [inTmp EXCEPT ![s] = @ \ {n}]
                 /\ inCur' = [inCur EXCEPT ![s] = @ \cup {n}]
                 /\ UNCHANGED <<mode, task, target, failed, fd, first, curDir, data, history>>

\* A rename fails: -ERR, everything this transaction made is unlinked.
MoveFails(s) == /\ task[s] = "moving" /\ inTmp[s] # {}
                /\ task' = [task EXCEPT ![s] = "undoing"]
                /\ UNCHANGED <<mode, target, failed, fd, first, inTmp, inCur, fileVars, history>>

\* Mutant of CommitDone: d_filenames is not cleared, reset() unlinks what it lists.
CommitDoneKeepsList(s) ==
  /\ task[s] = "moving" /\ inTmp[s] = {}
  /\ acked' = acked \cup inCur[s]
  /\ task' = [task EXCEPT ![s] = "undoing"]
  /\ UNCHANGED <<mode, target, failed, fd, first, inTmp, inCur, fileVars,
                 announced, deleted, orphans>>

\* Mutant of CommitDone: +OK as soon as the first name has been renamed.
CommitDoneEarly(s) ==
  /\ task[s] = "moving" /\ inCur[s] # {}
  /\ acked' = acked \cup files(s)
  /\ inCur' = [inCur EXCEPT ![s] = {}]
  /\ inTmp' = [inTmp EXCEPT ![s] = {}]
  /\ task' = [task EXCEPT ![s] = "none"]
  /\ UNCHANGED <<mode, target, failed, fd, first, fileVars, announced, deleted, orphans>>

\* All renamed: the file list is forgotten before reset() unlinks it, and +OK.
CommitDone(s) == /\ task[s] = "moving" /\ inTmp[s] = {}
                 /\ acked' = acked \cup inCur[s]
                 /\ inCur' = [inCur EXCEPT ![s] = {}]
                 /\ task' = [task EXCEPT ![s] = "none"]
                 /\ UNCHANGED <<mode, target, failed, fd, first, inTmp, fileVars,
                                announced, deleted, orphans>>

Rollback(s) == /\ Idle(s, "inLimbo")
               /\ mode' = [mode EXCEPT ![s] = "blank"]
               /\ fd' = [fd EXCEPT ![s] = NoName]
               /\ task' = [task EXCEPT ![s] = "undoing"]
               /\ UNCHANGED <<target, failed, first, inTmp, inCur, fileVars, history>>

\* One turn of unlinkAll: the entry goes, or was gone already.
UndoTmp(s, n) == /\ task[s] = "undoing" /\ n \in inTmp[s]
                 /\ tmp' = [tmp EXCEPT ![n] = NoName]
                 /\ inTmp' = [inTmp EXCEPT ![s] = @ \ {n}]
                 /\ UNCHANGED <<mode, task, target, failed, fd, first, inCur,
                                cur, curDir, data, history>>

UndoCur(s, n) == /\ task[s] = "undoing" /\ n \in inCur[s]
                 /\ cur' = [cur EXCEPT ![n] = NoName]
                 /\ inCur' = [inCur EXCEPT ![s] = @ \ {n}]
                 /\ UNCHANGED <<mode, task, target, failed, fd, first, inTmp,
                                tmp, curDir, data, history>>

UndoDone(s) == /\ task[s] = "undoing" /\ files(s) = {}
               /\ task' = [task EXCEPT ![s] = "none"]
               /\ UNCHANGED <<mode, target, failed, fd, first, inTmp, inCur, fileVars, history>>

-----------------------------------------------------------------------------
(* The other commands of an authenticated session.                         *)

\* "del": unlink(cur/n); a name that is not there is answered +OK as well.
Del(s, n) == /\ Idle(s, "blank") /\ cur[n] # NoName
             /\ cur' = [cur EXCEPT ![n] = NoName]
             /\ deleted' = deleted \cup {n}
             /\ UNCHANGED <<sessionVars, tmp, curDir, data, announced, acked, orphans>>

\* "nuke": empty and remove cur/, then tmp/, then the maildir itself.
Nuke(s, m) == /\ Idle(s, "blank")
              /\ task' = [task EXCEPT ![s] = "nukeCur"]
              /\ target' = [target EXCEPT ![s] = m]
              /\ UNCHANGED <<mode, failed, fd, first, inTmp, inCur, fileVars, history>>

NukeCurFile(s, n) == /\ task[s] = "nukeCur" /\ MboxOf[n] = target[s] /\ cur[n] # NoName
                     /\ cur' = [cur EXCEPT ![n] = NoName]
                     /\ deleted' = deleted \cup {n}
                     /\ UNCHANGED <<sessionVars, tmp, curDir, data, announced, acked, orphans>>

\* rmdir(cur/) works on an empty directory only.
NukeCurDir(s) == /\ task[s] = "nukeCur"
                 /\ \A n \in Name : MboxOf[n] = target[s] => cur[n] = NoName
                 /\ curDir' = curDir \ {target[s]}
                 /\ task' = [task EXCEPT ![s] = "nukeTmp"]
                 /\ UNCHANGED <<mode, target, failed, fd, first, inTmp, inCur,
                                tmp, cur, data, history>>

NukeTmpFile(s, n) == /\ task[s] = "nukeTmp" /\ MboxOf[n] = target[s] /\ tmp[n] # NoName
                     /\ tmp' = [tmp EXCEPT ![n] = NoName]
                     /\ UNCHANGED <<sessionVars, cur, curDir, data, history>>

\* Done, or given up: an entry that cannot be removed, a directory that a
\* delivery has filled again.
NukeEnds(s) == /\ task[s] \in {"nukeCur", "nukeTmp"}
               /\ task' = [task EXCEPT ![s] = "none"]
               /\ target' = [target EXCEPT ![s] = NoName]
               /\ UNCHANGED <<mode, failed, fd, first, inTmp, inCur, fileVars, history>>

\* Mutant of DirCommand: a mode the command loop does not know.
DirCommandUnknownMode(s) == /\ Idle(s, "blank")
                            /\ mode' = [mode EXCEPT ![s] = "listing"]
                            /\ UNCHANGED <<task, target, failed, fd, first, inTmp, inCur,
                                           fileVars, history>>

\* "dir" opens the mail root (an error there is thrown and caught by nobody);
\* the listing is produced by the next turns of the connection's loop.
DirCommand(s) == /\ Idle(s, "blank")
                 /\ mode' = [mode EXCEPT ![s] = "Dir"]
                 /\ UNCHANGED <<task, target, failed, fd, first, inTmp, inCur, fileVars, history>>

MoreDir(s) == /\ Idle(s, "Dir")
              /\ mode' = [mode EXCEPT ![s] = "blank"]
              /\ UNCHANGED <<task, target, failed, fd, first, inTmp, inCur, fileVars, history>>

-----------------------------------------------------------------------------
SessionNext(s) ==
  \/ Connect(s) \/ Pass(s) \/ HangUp(s)
  \/ \E n \in Name : RcptOpen(s, n) \/ RcptLink(s, n) \/ RcptFails(s, n)
  \/ Put(s) \/ LineFails(s) \/ LineShort(s) \/ Dot(s)
  \/ CommitRefused(s) \/ Commit(s) \/ CloseFails(s)
  \/ \E n \in Name : MoveOne(s, n)
  \/ MoveFails(s) \/ CommitDone(s) \/ Rollback(s)
  \/ \E n \in Name : UndoTmp(s, n) \/ UndoCur(s, n)
  \/ UndoDone(s)
  \/ \E n \in Name : Del(s, n)
  \/ \E m \in Mbox : Nuke(s, m)
  \/ \E n \in Name : NukeCurFile(s, n) \/ NukeTmpFile(s, n)
  \/ NukeCurDir(s) \/ NukeEnds(s)
  \/ DirCommand(s) \/ MoreDir(s)

Next == Crash \/ \E s \in Session : SessionNext(s)

Spec == Init /\ [][Next]_vars

-----------------------------------------------------------------------------
(* What must hold.                                                         *)

\* A message answered +OK is in its mailbox until a user removes it: no undo,
\* hang-up, crash or later transaction takes it away (Delivery::commit clears
\* d_filenames before reset() unlinks what is listed there).
AckedStored == \A n \in acked : cur[n] # NoName \/ n \in deleted

\* A message one of whose lines could not be written never becomes visible in a
\* mailbox: such a transaction never reaches moveAll, whatever comes in between.
LostLineHidden == \A n \in Name : cur[n] # NoName => data[cur[n]] \in {"whole", "short"}

\* Whatever is visible in a mailbox is a complete message (powermail.sgml:1923:
\* "delivered atomically to many recipients, with intermediate failure at worst
\* causing a duplicate delivery").  A short write breaks it.
DeliveredWhole == \A n \in Name : cur[n] # NoName => data[cur[n]] = "whole"

\* tmp/ holds no file that nobody will remove: each belongs to a session that
\* still lists it, or was left by a crash.
NoStray == \A n \in Name :
             tmp[n] # NoName => n \in orphans \/ \E s \in Session : n \in inTmp[s]

\* What a mailbox shows was acknowledged, or is part of a commit or an undo that
\* is running, or was left by a crash: a refused commit leaves nothing visible.
RefusedGone == \A n \in Name :
                 cur[n] # NoName =>
                   \/ n \in acked \cup orphans
                   \/ \E s \in Session : n \in inCur[s] /\ task[s] \in {"moving", "undoing"}

\* While a message streams in its file is open: putLine never hits the exception
\* of Delivery::giveLine, which would end the whole process.
OpenWhileReceiving == \A s \in Session : mode[s] = "inData" => fd[s] # NoName

\* One copy serves all recipients of a transaction: every entry it made is the
\* inode it was opened as (or a purge has removed the entry).
OneCopy == \A s \in Session :
             /\ \A n \in inTmp[s] : tmp[n] \in {first[s], NoName}
             /\ \A n \in inCur[s] : cur[n] \in {first[s], NoName}

\* The abstract store: what the listings show, what was promised.
Store == INSTANCE MailStore WITH visible <- {n \in Name : cur[n] # NoName},
                                 promised <- acked

\* The backend implements the abstract store: in particular a message that was
\* promised or deleted never (re)appears, and a promise covers what is there.
ImplementsStore == Store!StoreSpec

=============================================================================
