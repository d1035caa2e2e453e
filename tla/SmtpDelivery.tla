---------------------------- MODULE SmtpDelivery ----------------------------
(***************************************************************************)
(* Accepting mail: one SMTP session of powersmtp (SmtpSession) and the     *)
(* MegaTalker it drives, which opens a connection to Redundancy storage    *)
(* backends of different groups (ServerSelect), announces the recipients,  *)
(* streams the message to all of them and commits everywhere before the    *)
(* client is told 250.  A recipient that is a forward gets a talker of its *)
(* own, to the configured SMTP sender.                                     *)
(*                                                                         *)
(* Each request to a backend or the sender may be done and answered, be    *)
(* refused, or be done with the answer lost (a timeout, a dead link).      *)
(***************************************************************************)
EXTENDS Naturals, Sequences, FiniteSets, SequencesExt

CONSTANTS Backend,      \* s_targets
          GroupOf,      \* TargetData::group of a backend
          Redundancy,   \* s_redundancy
          Local,        \* recipients with a mailbox
          Forward,      \* recipients forwarded elsewhere
          Sender,       \* the SMTP server forwards are handed to
          NoForward,    \* the recipient of a talker to a backend
          MaxIndex,     \* bound: messages a client starts
          MaxTalkers    \* bound: talkers of one MegaTalker before DATA is retried

ASSUME DeliveryAssumption == /\ IsFiniteSet(Backend)
                             /\ Redundancy \in Nat \ {0}
                             /\ MaxIndex \in Nat /\ MaxTalkers \in Nat
                             /\ Sender \notin Backend /\ NoForward \notin Forward

VARIABLES
  step,       \* where the thread is: a command, a part of eatData, or the data
  fromset,    \* SmtpSession::d_fromset
  index,      \* SmtpSession::d_index, 0 before the first message
  rcpts,      \* SmtpSession::d_recipients
  fwds,       \* forwards answered 250: their talkers are in talkers
  mega,       \* whether there is a MegaTalker
  talkers,    \* MegaTalker::d_pptalkers
  degraded,   \* MegaTalker::d_degraded
  todo,       \* recipients eatData has still to announce
  stored,     \* <<index, recipient, backend>> committed in a mailbox
  sent,       \* <<index, forward>> handed to the sender
  rejected,   \* messages whose last answer, to DATA or to the data, was 552
  accepted    \* history: what was answered 250

session == <<step, fromset, index, rcpts, fwds, todo>>
storage == <<mega, talkers, degraded>>
world == <<stored, sent, rejected, accepted>>
vars == <<step, fromset, index, rcpts, fwds, mega, talkers, degraded, todo,
          stored, sent, rejected, accepted>>

Step == {"command", "opening", "announcing", "starting", "data"}
Index == 1..MaxIndex

\* mode is the state of the session at the other end (PPListener's d_mode).
Talker == [server : Backend \cup {Sender}, ok : BOOLEAN, has : SUBSET Local,
           mode : {"blank", "preLimbo", "inData", "done"}, fwd : Forward \cup {NoForward}]

TypeOK == /\ step \in Step
          /\ fromset \in BOOLEAN
          /\ index \in 0..MaxIndex
          /\ rcpts \in SUBSET Local /\ fwds \in SUBSET Forward /\ todo \in SUBSET Local
          /\ mega \in BOOLEAN /\ degraded \in BOOLEAN
          /\ talkers \in Seq(Talker)
          /\ stored \in SUBSET (Index \X Local \X Backend)
          /\ sent \in SUBSET (Index \X Forward)
          /\ rejected \in SUBSET Index
          /\ accepted \in SUBSET [index : Index, local : SUBSET Local, fwds : SUBSET Forward]

Init == /\ step = "command" /\ fromset = FALSE /\ index = 0
        /\ rcpts = {} /\ fwds = {} /\ todo = {}
        /\ mega = FALSE /\ talkers = <<>> /\ degraded = FALSE
        /\ stored = {} /\ sent = {} /\ rejected = {} /\ accepted = {}

-----------------------------------------------------------------------------
(* Talkers.                                                                *)

Up == {i \in DOMAIN talkers : talkers[i].ok}
UpBackends == {i \in Up : talkers[i].server \in Backend}

\* A talker that has thrown: it keeps its place, but is not used again.
Dead(t) == [t EXCEPT !.ok = FALSE, !.has = {}, !.mode = "done"]

\* The talkers after one round of requests in which those of `good` were answered
\* +OK and the others of `asked` have thrown.
AfterRound(asked, good, next(_)) ==
  [i \in DOMAIN talkers |-> IF i \notin asked THEN talkers[i]
                            ELSE IF i \in good THEN next(talkers[i])
                            ELSE Dead(talkers[i])]

\* Every exception of a talker makes the MegaTalker degraded, for good.
DegradeUnless(all) == degraded' = (degraded \/ ~all)

\* Mutant of NewTalker: the recipient and the server are swapped.
NewTalkerSwapped(server, mode, f) ==
  [server |-> f, ok |-> TRUE, has |-> {}, mode |-> mode, fwd |-> server]

NewTalker(server, mode, f) ==
  [server |-> server, ok |-> TRUE, has |-> {}, mode |-> mode, fwd |-> f]

\* rsetSession: the MegaTalker goes, and its connections; a backend forgets what
\* was not committed.
ForgetSession == /\ fromset' = FALSE /\ rcpts' = {} /\ fwds' = {} /\ todo' = {}
                 /\ mega' = FALSE /\ talkers' = <<>> /\ degraded' = FALSE
                 /\ step' = "command" /\ UNCHANGED index

\* An answer to DATA, or to the data, that ends the attempt.
Answer(code) ==
  rejected' = IF code = "552" THEN rejected \cup {index} ELSE rejected \ {index}

-----------------------------------------------------------------------------
(* Commands.                                                               *)

\* "MAIL FROM": a fresh index; 503 when a sender is set already.
MailFrom == /\ step = "command" /\ ~fromset /\ index < MaxIndex
            /\ index' = index + 1
            /\ fromset' = TRUE
            /\ UNCHANGED <<step, rcpts, fwds, todo, storage, world>>

\* "RCPT TO" a mailbox: backends hear of it when DATA is given.
RcptMailbox(r) == /\ step = "command" /\ fromset /\ r \notin rcpts
                  /\ rcpts' = rcpts \cup {r}
                  /\ UNCHANGED <<step, fromset, index, fwds, todo, storage, world>>

\* "RCPT TO" a forward: addRemote connects to the sender at once, up to the
\* point where lines of data are expected.
RcptForward(f) ==
  /\ step = "command" /\ fromset /\ f \notin fwds /\ Len(talkers) < MaxTalkers
  /\ mega' = TRUE
  /\ \/ /\ talkers' = Append(talkers, NewTalker(Sender, "inData", f))
        /\ fwds' = fwds \cup {f}
     \/ UNCHANGED <<talkers, fwds>>
  /\ UNCHANGED <<step, fromset, index, rcpts, todo, degraded, world>>

\* "RSET", "QUIT", or the connection is lost; possibly while data is expected.
Rset == /\ step \in {"command", "data"}
        /\ ForgetSession
        /\ UNCHANGED world

-----------------------------------------------------------------------------
(* "DATA": eatData, in the order of its calls.                             *)

\* A retry on the same MegaTalker adds talkers to those it has.
Data == /\ step = "command" /\ fromset /\ (rcpts # {} \/ mega)
        /\ Len(talkers) + Redundancy <= MaxTalkers + Cardinality(fwds)
        /\ mega' = TRUE
        /\ step' = IF rcpts # {} THEN "opening"
                   ELSE IF degraded THEN "command" ELSE "starting"
        /\ IF rcpts = {} /\ degraded THEN Answer("450") ELSE UNCHANGED rejected
        /\ todo' = rcpts
        /\ UNCHANGED <<fromset, index, rcpts, fwds, talkers, degraded, stored, sent, accepted>>

Groups(bs) == {GroupOf[b] : b \in bs}

\* Mutant of Reachable: a group may be taken from more than once.
ReachableAnyGroup == {bs \in SUBSET Backend : Cardinality(bs) <= Redundancy}

\* getServer, Redundancy times: a server of a group none has been taken from yet,
\* among those the state thread's view has up and writable.  That view, and which
\* of the selected servers can then be reached, are arbitrary.
Reachable == {bs \in SUBSET Backend : /\ Cardinality(bs) <= Redundancy
                                      /\ Cardinality(Groups(bs)) = Cardinality(bs)}

\* openStorage: connect to the selected servers.  One that cannot be reached is
\* not replaced, and every talker counts, forwards and earlier ones included.
OpenStorage ==
  /\ step = "opening"
  /\ \E connected \in Reachable :
       talkers' = talkers \o SetToSeq({NewTalker(b, "blank", NoForward) : b \in connected})
  /\ IF talkers' = <<>> THEN UNCHANGED degraded
                        ELSE DegradeUnless(Len(talkers') >= Redundancy)
  /\ IF talkers' = <<>> \/ degraded'
       THEN Answer("450") /\ step' = "command"
       ELSE step' = "announcing" /\ UNCHANGED rejected
  /\ UNCHANGED <<fromset, index, rcpts, fwds, todo, mega, stored, sent, accepted>>

\* determineKbUsage cannot list a mailbox on some backend: 450.
QuotaUnknown == /\ step = "announcing" /\ todo # {}
                /\ Answer("450") /\ step' = "command"
                /\ UNCHANGED <<fromset, index, rcpts, fwds, todo, storage, stored, sent, accepted>>

\* addRecipient: announced to every backend still ok.  One that is receiving data
\* since an earlier DATA takes it for a line and never answers.
AddRecipient(r) ==
  /\ step = "announcing" /\ r \in todo
  /\ \E good \in SUBSET {i \in UpBackends : talkers[i].mode \in {"blank", "preLimbo"}} :
       /\ talkers' = AfterRound(UpBackends, good,
                       LAMBDA t : [t EXCEPT !.has = @ \cup {r}, !.mode = "preLimbo"])
       /\ DegradeUnless(good = UpBackends)
       /\ IF good = {} THEN Answer("450") /\ step' = "command"
                       ELSE UNCHANGED <<rejected, step>>
  /\ todo' = todo \ {r}
  /\ UNCHANGED <<fromset, index, rcpts, fwds, mega, stored, sent, accepted>>

AllAnnounced == /\ step = "announcing" /\ todo = {}
                /\ step' = "starting"
                /\ UNCHANGED <<fromset, index, rcpts, fwds, todo, storage, world>>

\* startData, and the quota checks that follow it: 354, 450 or 552.
StartData ==
  /\ step = "starting"
  /\ \E good \in SUBSET {i \in Up : talkers[i].server = Sender \/ talkers[i].mode = "preLimbo"} :
       /\ talkers' = AfterRound(Up, good, LAMBDA t : [t EXCEPT !.mode = "inData"])
       /\ DegradeUnless(good = Up)
       /\ \/ (good = {} \/ degraded') /\ Answer("450") /\ step' = "command"
          \/ good # {} /\ ~degraded' /\ rcpts # {} /\ Answer("552") /\ step' = "command"
          \/ good # {} /\ ~degraded' /\ step' = "data" /\ UNCHANGED rejected
  /\ UNCHANGED <<fromset, index, rcpts, fwds, todo, mega, stored, sent, accepted>>

-----------------------------------------------------------------------------
(* The data and its end: eatDataLine.                                      *)

\* A line goes to every talker that is ok; a dead connection shows here.
AddLine == /\ step = "data"
           /\ \E good \in SUBSET Up :
                /\ talkers' = AfterRound(Up, good, LAMBDA t : t)
                /\ DegradeUnless(good = Up)
           /\ UNCHANGED <<session, mega, world>>

\* Mutant of TooLarge: the size is only looked at once the message is committed.
TooLargeAfterCommit == /\ step = "data"
                       /\ stored' = stored \cup {c \in {index} \X Local \X Backend :
                            \E i \in UpBackends : c[2] \in talkers[i].has /\ c[3] = talkers[i].server}
                       /\ Answer("552") /\ ForgetSession
                       /\ UNCHANGED <<sent, accepted>>

\* The data is over quota, or longer than max-msg-kb: rolled back everywhere.
TooLarge == /\ step = "data"
            /\ Answer("552") /\ ForgetSession
            /\ UNCHANGED <<stored, sent, accepted>>

\* What committing the talkers of `done` leaves in mailboxes and with the sender.
Committed(done) ==
  /\ stored' = stored \cup {c \in {index} \X Local \X Backend :
                             \E i \in done : c[2] \in talkers[i].has /\ c[3] = talkers[i].server}
  /\ sent' = sent \cup {<<index, talkers[i].fwd>> : i \in done \ UpBackends}

\* Mutant of MsgDone: 250 as soon as one talker has committed.
MsgDoneAny ==
  /\ step = "data"
  /\ \E done \in SUBSET Up :
       /\ done # {} /\ Committed(done)
       /\ ForgetSession /\ Answer("250")
       /\ accepted' = accepted \cup {[index |-> index, local |-> rcpts, fwds |-> fwds]}

\* msgDone: every talker commits in turn; `done` did it, `good` said so as well.
\* Nothing is committed by all: an exception, and the session is not reset.
\* Degraded: 450, and a rollback that comes too late for those that committed.
\* Closing a broken connection throws, out of the MegaTalker's destructor: the
\* session goes with the connections, and the client gets no answer at all.
MsgDone ==
  /\ step = "data"
  /\ \E done \in SUBSET Up : \E good \in SUBSET done :
       /\ Committed(done)
       /\ IF good = {}
            THEN /\ talkers' = AfterRound(Up, {}, LAMBDA t : t)
                 /\ degraded' = (degraded \/ Up # {})
                 /\ step' = "command" /\ Answer("450")
                 /\ UNCHANGED <<fromset, index, rcpts, fwds, todo, mega, accepted>>
            ELSE /\ ForgetSession
                 /\ \/ UNCHANGED <<rejected, accepted>>
                    \/ (degraded \/ good # Up) /\ Answer("450") /\ UNCHANGED accepted
                    \/ /\ ~degraded /\ good = Up /\ Answer("250")
                       /\ accepted' = accepted \cup
                            {[index |-> index, local |-> rcpts, fwds |-> fwds]}

Next == \/ MailFrom \/ Rset \/ Data
        \/ \E r \in Local : RcptMailbox(r) \/ AddRecipient(r)
        \/ \E f \in Forward : RcptForward(f)
        \/ OpenStorage \/ QuotaUnknown \/ AllAnnounced \/ StartData
        \/ AddLine \/ TooLarge \/ MsgDone

Spec == Init /\ [][Next]_vars

-----------------------------------------------------------------------------
(* What must hold.                                                         *)

CopiesOf(i, r) == {b \in Backend : <<i, r, b>> \in stored}
Redundant(a) == \A r \in a.local :
                  Cardinality(Groups(CopiesOf(a.index, r))) >= Redundancy

\* powermail.sgml:1178: "PowerSmtp makes sure that the redundancy target is met
\* before announcing to the sending mailserver that the message was properly
\* received": 250 means a copy in each of Redundancy groups, for each mailbox.
RedundantWhenAccepted == \A a \in accepted : Redundant(a)

\* ... which holds for messages that have no forward among their recipients,
\* whatever fails when and however often DATA is retried.
RedundantUnlessForwarded == \A a \in accepted : a.fwds = {} => Redundant(a)

\* 250 to the data covers every recipient that was answered 250: each mailbox has
\* a copy and each forward was taken by the sender.
EveryRecipientServed ==
  \A a \in accepted : /\ \A r \in a.local : CopiesOf(a.index, r) # {}
                      /\ \A f \in a.fwds : <<a.index, f>> \in sent

\* A message answered 552 is stored nowhere and sent nowhere: every talker is
\* rolled back, those that failed included.
RejectedNowhere ==
  \A i \in rejected :
     /\ \A r \in Local : CopiesOf(i, r) = {}
     /\ \A f \in Forward : <<i, f>> \notin sent

=============================================================================
