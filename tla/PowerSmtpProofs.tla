--------------------------- MODULE PowerSmtpProofs ---------------------------
(***************************************************************************)
(* powersmtp, for any backends, groups, mailboxes, quotas and bounds.      *)
(* First the quota, which depends on the session alone: what is accepted   *)
(* is whole, and fits the room of a recipient.  Then the whole process:    *)
(* what is selected from the view, and that a message is refused for want  *)
(* of backends only if one of them was ill.                                *)
(***************************************************************************)
EXTENDS PowerSmtp, ServerSelectProofs

Fields == DOMAIN NoSession

\* What the session is, as far as the quota depends on it.
QuotaType == /\ bound \in Bounds
             /\ DOMAIN s = Fields
             /\ s.lines \in Nat /\ s.room \in Int /\ s.best \in Int
             /\ s.needed \in BOOLEAN /\ s.waived \in BOOLEAN /\ s.dropped \in BOOLEAN
             /\ s.todo \subseteq s.rcpts /\ s.rcpts \subseteq Mailbox

\* A line is dropped only in data, under a quota, when the room is reached; and
\* what has been counted does not become less.
Cut == s.dropped => s.pc = "data" /\ s.needed /\ Kb(s.lines) >= s.room

\* The room is never more than what was listed for one of the recipients.
Listed == s.room <= s.best

\* The quota is given up for a recipient that has none, or by a DATA for forwards.
GivenUp == ~s.needed => s.waived \/ \E r \in s.rcpts : Quota[r] = 0

IInv == QuotaType /\ Cut /\ Listed /\ GivenUp

\* A line more is no fewer kilobytes.
LEMMA KbGrows == \A n \in Nat : Kb(n) \in Nat /\ Kb(n + 1) >= Kb(n)
BY DEF Kb

\* Initially, and when a process ends, there is nothing of a message.
LEMMA Begins == ASSUME bound \in Bounds, s = NoSession
                PROVE IInv
BY DEF IInv, QuotaType, Cut, Listed, GivenUp, NoSession, Fields

LEMMA Begun == ASSUME bound' \in Bounds, s' = NoSession
               PROVE IInv'
BY DEF IInv, QuotaType, Cut, Listed, GivenUp, NoSession, Fields

\* Nor is there after an answer that resets the session.
LEMMA Anew == ASSUME NEW code, bound' \in Bounds, s' = Reset(code)
              PROVE IInv'
BY DEF IInv, QuotaType, Cut, Listed, GivenUp, Reset, NoSession, Fields

\* What leaves the session alone leaves the invariant.
LEMMA SessionAlone == ASSUME IInv, bound' = bound, s' = s
                      PROVE IInv'
BY DEF IInv, QuotaType, Cut, Listed, GivenUp, Kb

\* Nor does it matter what else becomes of the session, if nothing was dropped and
\* the recipients and the quota stay.
LEMMA QuotaKept ==
  ASSUME IInv, bound' = bound, DOMAIN s' = Fields,
         s'.room = s.room, s'.best = s.best, s'.needed = s.needed, s'.waived = s.waived,
         s'.rcpts = s.rcpts, s'.todo \subseteq s'.rcpts, s'.lines \in Nat, s'.dropped = FALSE
  PROVE IInv'
BY DEF IInv, QuotaType, Cut, Listed, GivenUp

\* A mailbox that has been listed: what it has left may be less than nothing.
LEMMA MeasuredIs ==
  ASSUME bound \in Bounds, NEW r \in Mailbox, Measured(r)
  PROVE \E listed \in Int, failed \in {FALSE, MayFail} :
          s' = [s EXCEPT !.pc = "announcing", !.todo = @ \ {r}, !.next = 1,
                         !.room = IF listed > @ THEN listed ELSE @,
                         !.best = IF listed > @ THEN listed ELSE @,
                         !.degraded = @ \/ failed]
<1>1. PICK usage \in bound.usages, failed \in {FALSE, MayFail} :
        LET listed == Quota[r] - usage
        IN s' = [s EXCEPT !.pc = "announcing", !.todo = @ \ {r}, !.next = 1,
                          !.room = Room(@, Quota[r], usage),
                          !.best = IF listed > @ THEN listed ELSE @,
                          !.degraded = @ \/ failed]
  BY DEF Measured, InSession
<1>2. usage \in bound.usages
  BY <1>1
<1>3. Quota[r] - usage \in Int
  BY <1>2, PowerSmtpAssumption DEF Bound
<1>4. QED
  BY <1>1, <1>3 DEF Room

\* Each step of the session preserves the invariant.
LEMMA SessionStep == ASSUME IInv, Session PROVE IInv'
<1> USE DEF IInv, QuotaType, Cut, Listed, GivenUp, Fields, NoSession, InSession, At, Answered, Kb
<1>1. CASE MailFrom
  BY <1>1 DEF MailFrom
<1>2. CASE RcptForward
  <2>1. ~s.dropped /\ bound' = bound
    BY <1>2 DEF RcptForward
  <2>2. \/ s' = [s EXCEPT !.forwards = @ + 1, !.mega = TRUE, !.talkers = @ + 1]
        \/ s' = [s EXCEPT !.mega = TRUE, !.answer = "450"]
    BY <1>2 DEF RcptForward
  <2>3. QED
    BY <2>1, <2>2, QuotaKept
<1>3. CASE Rset
  BY <1>3, Anew DEF Rset
<1>4. CASE HangUp
  BY <1>4, Anew DEF HangUp
<1>5. CASE Data
  <2> DEFINE t == [s EXCEPT !.mega = TRUE, !.answer = "none"]
  <2>1. ~s.dropped /\ bound' = bound
    BY <1>5 DEF Data
  <2>2. CASE s.rcpts # {}
    <3>1. s' = [t EXCEPT !.pc = "waiting", !.todo = s.rcpts]
      BY <1>5, <2>2 DEF Data
    <3>2. QED
      BY <2>1, <3>1, QuotaKept
  <2>3. CASE s.rcpts = {} /\ s.degraded
    <3>1. s' = [Answered(t, "450") EXCEPT !.needed = FALSE, !.waived = TRUE]
      BY <1>5, <2>3 DEF Data
    <3>2. QED
      BY <2>1, <3>1
  <2>4. CASE s.rcpts = {} /\ ~s.degraded
    <3>1. s' = [t EXCEPT !.pc = "starting", !.needed = FALSE, !.waived = TRUE]
      BY <1>5, <2>4 DEF Data
    <3>2. QED
      BY <2>1, <3>1
  <2>5. QED
    BY <2>2, <2>3, <2>4
<1>6. CASE Select
  BY <1>6 DEF Select
<1>7. CASE Connect
  <2>1. PICK reached \in SUBSET s.chosen :
          LET talkers == s.talkers + Cardinality(reached)
              degraded == s.degraded \/ (talkers # 0 /\ talkers < Redundancy)
              t == [s EXCEPT !.talkers = talkers, !.degraded = degraded, !.chosen = reached]
          IN s' = IF talkers = 0 \/ degraded THEN Answered(t, "450")
                  ELSE [t EXCEPT !.pc = "announcing"]
    BY <1>7 DEF Connect
  <2>2. ~s.dropped /\ bound' = bound
    BY <1>7 DEF Connect
  <2> DEFINE talkers == s.talkers + Cardinality(reached)
             degraded == s.degraded \/ (talkers # 0 /\ talkers < Redundancy)
             t == [s EXCEPT !.talkers = talkers, !.degraded = degraded, !.chosen = reached]
  <2>3. CASE talkers = 0 \/ degraded
    <3>1. s' = Answered(t, "450")
      BY <2>1, <2>3
    <3>2. QED
      BY <2>2, <3>1, QuotaKept
  <2>4. CASE ~(talkers = 0 \/ degraded)
    <3>1. s' = [t EXCEPT !.pc = "announcing"]
      BY <2>1, <2>4
    <3>2. QED
      BY <2>2, <3>1, QuotaKept
  <2>5. QED
    BY <2>3, <2>4
<1>8. CASE ListAt
  <2>1. ~s.dropped /\ bound' = bound
    BY <1>8 DEF ListAt
  <2>2. \/ s' = [s EXCEPT !.next = @ + 1]
        \/ s' = Answered(s, "450")
    BY <1>8 DEF ListAt
  <2>3. CASE s' = [s EXCEPT !.next = @ + 1]
    BY <2>1, <2>3, QuotaKept
  <2>4. CASE s' = Answered(s, "450")
    BY <2>1, <2>4, QuotaKept
  <2>5. QED
    BY <2>2, <2>3, <2>4
<1>9. CASE StartData
  <2>1. ~s.dropped /\ bound' = bound
    BY <1>9 DEF StartData
  <2>2. \/ s' = Answered([s EXCEPT !.degraded = TRUE], "450")
        \/ \E code \in {"552", "450"} : s' = Answered(s, code)
        \/ s' = [s EXCEPT !.pc = "data"]
    BY <1>9 DEF StartData
  <2>3. CASE s' = Answered([s EXCEPT !.degraded = TRUE], "450")
    BY <2>1, <2>3, QuotaKept
  <2>4. CASE \E code \in {"552", "450"} : s' = Answered(s, code)
    BY <2>1, <2>4, QuotaKept
  <2>5. CASE s' = [s EXCEPT !.pc = "data"]
    BY <2>1, <2>5, QuotaKept
  <2>6. QED
    BY <2>2, <2>3, <2>4, <2>5
<1>10. CASE AddLine
  BY <1>10, KbGrows DEF AddLine, Dropped
<1>11. CASE EndOfData
  <2>1. \/ \E code \in {"552", "250", "450"} : s' = Reset(code)
        \/ s' = Answered([s EXCEPT !.degraded = TRUE], "450")
    BY <1>11 DEF EndOfData
  <2>2. bound' = bound
    BY <1>11 DEF EndOfData
  <2>3. CASE \E code \in {"552", "250", "450"} : s' = Reset(code)
    BY <2>2, <2>3, Anew
  <2>4. CASE s' = Answered([s EXCEPT !.degraded = TRUE], "450")
    BY <2>2, <2>4, QuotaKept
  <2>5. QED
    BY <2>1, <2>3, <2>4
<1>12. ASSUME NEW r \in Mailbox, RcptMailbox(r) PROVE IInv'
  BY <1>12 DEF RcptMailbox
<1>13. ASSUME NEW r \in Mailbox, AddRecipient(r) PROVE IInv'
  <2>1. r \in s.todo /\ ~s.dropped /\ bound' = bound
    BY <1>13 DEF AddRecipient
  <2>2. CASE Quota[r] = 0 \/ ~s.needed
    <3>1. PICK failed \in {FALSE, MayFail} :
            s' = [s EXCEPT !.todo = @ \ {r}, !.needed = @ /\ Quota[r] # 0,
                           !.degraded = @ \/ failed]
      BY <1>13, <2>2 DEF AddRecipient
    <3>2. s'.needed = (s.needed /\ Quota[r] # 0) /\ s'.rcpts = s.rcpts /\ s'.waived = s.waived
      BY <3>1
    <3>3. GivenUp'
      BY <2>1, <3>2
    <3>4. QuotaType' /\ Cut' /\ Listed'
      BY <2>1, <3>1, <3>2
    <3>5. QED
      BY <3>3, <3>4
  <2>3. CASE ~(Quota[r] = 0 \/ ~s.needed)
    <3>1. s' = [s EXCEPT !.pc = "listing", !.next = 1]
      BY <1>13, <2>3 DEF AddRecipient
    <3>2. QED
      BY <2>1, <3>1, QuotaKept
  <2>4. QED
    BY <2>2, <2>3
<1>14. ASSUME NEW r \in Mailbox, Measured(r) PROVE IInv'
  <2>1. ~s.dropped /\ bound' = bound
    BY <1>14 DEF Measured
  <2>2. PICK listed \in Int, failed \in {FALSE, MayFail} :
          s' = [s EXCEPT !.pc = "announcing", !.todo = @ \ {r}, !.next = 1,
                         !.room = IF listed > @ THEN listed ELSE @,
                         !.best = IF listed > @ THEN listed ELSE @,
                         !.degraded = @ \/ failed]
    BY <1>14, MeasuredIs
  <2>3. /\ s'.room = IF listed > s.room THEN listed ELSE s.room
        /\ s'.best = IF listed > s.best THEN listed ELSE s.best
        /\ s'.dropped = s.dropped /\ s'.needed = s.needed /\ s'.waived = s.waived
        /\ s'.rcpts = s.rcpts /\ s'.todo = s.todo \ {r} /\ s'.lines = s.lines /\ DOMAIN s' = Fields
    BY <2>2
  <2>4. QED
    BY <2>1, <2>3
<1>15. QED
  BY <1>1, <1>2, <1>3, <1>4, <1>5, <1>6, <1>7, <1>8, <1>9, <1>10, <1>11, <1>12, <1>13, <1>14
     DEF Session

\* Nobody else touches the session, but to end its process.
LEMMA Elsewhere == ASSUME Next, ~Session
                   PROVE bound' = bound /\ (s' = s \/ s' = NoSession)
<1>1. CASE StateThread
  BY <1>1 DEF StateThread, CheckUp, CheckDown, GoesDown, Ended, sites
<1>2. CASE Administrator
  BY <1>2 DEF Administrator, Start, Serve, Stop, Block, Changes
<1>3. CASE Exit
  BY <1>3 DEF Exit, Ended
<1>4. CASE \E b \in Backend, st \in Status : BackendBecomes(b, st)
  BY <1>4 DEF BackendBecomes, Changes
<1>5. QED
  BY <1>1, <1>2, <1>3, <1>4 DEF Next

\* The invariant holds initially, and every step of the process preserves it.
THEOREM Invariance == Spec => []IInv
<1>1. Init => IInv
  BY Begins DEF Init
<1>2. ASSUME IInv, [Next]_vars PROVE IInv'
  <2>1. CASE Session
    BY <1>2, <2>1, SessionStep
  <2>2. CASE Next /\ ~Session
    BY <1>2, <2>2, Elsewhere, SessionAlone, Begun DEF IInv, QuotaType
  <2>3. CASE UNCHANGED vars
    BY <1>2, <2>3, SessionAlone DEF vars
  <2>4. QED
    BY <1>2, <2>1, <2>2, <2>3
<1>3. QED
  BY <1>1, <1>2, PTL DEF Spec

-----------------------------------------------------------------------------
\* 250 is answered at the end of the data only, and only if it is not too large.
LEMMA AcceptsFits == ASSUME IInv, Next, Accepts PROVE ~TooLarge
<1> USE DEF Accepts
<1>1. CASE Session
  <2> USE <1>1 DEF InSession, At, Answered, NoSession, Fields, IInv, QuotaType
  <2>1. CASE EndOfData
    BY <2>1 DEF EndOfData, Reset
  <2>2. CASE AddLine
    BY <2>2 DEF AddLine
  <2>3. CASE HangUp
    BY <2>3 DEF HangUp, Reset
  <2>4. QED
    BY <2>1, <2>2, <2>3 DEF Session, MailFrom, RcptForward, Rset, Data, Select, Connect,
         ListAt, StartData, RcptMailbox, AddRecipient, Measured
<1>2. CASE ~Session
  BY <1>2, Elsewhere DEF NoSession
<1>3. QED
  BY <1>1, <1>2

\* A message that is accepted had no line dropped, unless it exactly fills the room:
\* lines are dropped when the room is reached, it is refused when it is exceeded.
THEOREM AcceptedIsWhole == Spec => AcceptedWhole
<1>1. ASSUME IInv, [Next]_vars PROVE [Accepts => ~s.dropped \/ Kb(s.lines) = s.room]_vars
  <2>1. SUFFICES ASSUME Next, Accepts, s.dropped PROVE Kb(s.lines) = s.room
    BY <1>1
  <2>2. ~TooLarge
    BY <1>1, <2>1, AcceptsFits
  <2>3. Kb(s.lines) \in Nat
    BY <1>1, KbGrows DEF IInv, QuotaType
  <2>4. QED
    BY <1>1, <2>1, <2>2, <2>3 DEF IInv, QuotaType, Cut, TooLarge
<1>2. QED
  BY Invariance, <1>1, PTL DEF Spec, AcceptedWhole

\* A message that is accepted fits the room listed for a recipient, or one has no
\* quota; whatever was left by a DATA that failed, but that of forwards alone.
THEOREM RoomRespected == Spec => WithinRoom
<1>1. ASSUME IInv, [Next]_vars
      PROVE [Accepts => \/ s.rcpts = {} \/ s.waived
                        \/ \E r \in s.rcpts : Quota[r] = 0
                        \/ Kb(s.lines) <= s.best]_vars
  <2>1. SUFFICES ASSUME Next, Accepts, s.needed PROVE Kb(s.lines) <= s.best
    BY <1>1 DEF IInv, QuotaType, GivenUp
  <2>2. ~TooLarge
    BY <1>1, <2>1, AcceptsFits
  <2>3. Kb(s.lines) \in Nat
    BY <1>1, KbGrows DEF IInv, QuotaType
  <2>4. QED
    BY <1>1, <2>1, <2>2, <2>3 DEF IInv, QuotaType, Listed, TooLarge
<1>2. QED
  BY Invariance, <1>1, PTL DEF Spec, WithinRoom
-----------------------------------------------------------------------------
(* The whole state: what TypeOK says, and what a daemon that has seen no    *)
(* backend ill knows of them.                                               *)

Entry == [up : BOOLEAN, readonly : BOOLEAN, open : BOOLEAN, linked : BOOLEAN, late : Seq(Line)]

\* The backends, the process and its table.
SitesType == /\ status \in [Backend -> Status] /\ blocked \in [Backend -> BOOLEAN]
             /\ proc \in {"none", "serving", "leaving"} /\ starter \in {"none", "binding"}
             /\ first \in BOOLEAN /\ at \in DOMAIN Table /\ round \in 0..(StatEvery - 1)

\* An entry of the table: what is unread is bounded, who is up has a connection, and
\* who is gone is at the end of none.
EntryFits(e, st) == /\ e \in Entry /\ Len(e.late) <= MaxLate
                    /\ e.up => e.open
                    /\ e.linked => st # "gone"

ViewType == DOMAIN view = Backend /\ \A b \in Backend : EntryFits(view[b], status[b])

\* The session: while storage is opened the talkers are still those of before.
SessionFits(t, lines) ==
  /\ t.pc \in Pc
  /\ t.chosen \subseteq Backend /\ IsFiniteSet(t.chosen) /\ Cardinality(t.chosen) <= Redundancy
  /\ t.next \in 1..(Len(Table) + 1)
  /\ t.talkers \in 0..(MaxTalkers + Redundancy)
  /\ t.pc \in {"waiting", "connecting"} => t.talkers <= MaxTalkers
  /\ t.lines \in 0..lines

SessionType == SessionFits(s, bound.lines)

\* No connection, and nothing unread.
Unseen(e) == ~e.up /\ ~e.open /\ ~e.linked /\ e.late = <<>>

\* Up, writable, and nothing unread on its connection.
SeenWell(e) == e.up /\ ~e.readonly /\ e.open /\ e.linked /\ e.late = <<>>

\* A process that is not there has seen nothing and has no session.
NobodyHome == proc = "none" => /\ first /\ at = 1 /\ s = NoSession
                               /\ \A b \in Backend : Unseen(view[b])

\* While no backend was ill since the daemon began, the thread has seen all of them
\* well that it has come by, and after its first round all there are.
Healthy == proc # "none" /\ ~ill

AllWell == Healthy => \A b \in Backend : status[b] = "well" /\ ~blocked[b]

SeenSoFar == Healthy => /\ \A b \in Backend : Unseen(view[b]) \/ SeenWell(view[b])
                        /\ \A i \in DOMAIN Table : i < at \/ ~first => SeenWell(view[Table[i]])

\* So what is selected is as many as are wanted, if there are as many groups.
EnoughGroups == Cardinality(GroupsOf(Backend)) >= Redundancy

ChosenEnough == Healthy /\ s.pc = "connecting" /\ EnoughGroups => Cardinality(s.chosen) >= Redundancy

Inv == SitesType /\ ViewType /\ SessionType /\ NobodyHome /\ AllWell /\ SeenSoFar /\ ChosenEnough

\* Initially, and when a process ends, the session is a fresh one; so it is after an
\* answer that resets it.
LEMMA FreshFits == ASSUME NEW lines \in Nat, NEW code
                   PROVE SessionFits(NoSession, lines) /\ SessionFits(Reset(code), lines)
<1>1. IsFiniteSet({}) /\ Cardinality({}) = 0
  BY FS_EmptySet
<1>2. 1 \in 1..(Len(Table) + 1) /\ Redundancy \in Nat /\ 0 \in 0..(MaxTalkers + Redundancy)
  BY PowerSmtpAssumption, SelectAssumption
<1>3. ASSUME NEW t, t.pc = "command", t.chosen = {}, t.next = 1, t.talkers = 0, t.lines = 0
      PROVE SessionFits(t, lines)
  BY <1>1, <1>2, <1>3 DEF SessionFits, Pc
<1>4. SessionFits(NoSession, lines)
  BY <1>3 DEF NoSession
<1>5. SessionFits(Reset(code), lines)
  BY <1>3 DEF Reset, NoSession
<1>6. QED
  BY <1>4, <1>5

\* An answer that keeps the message leaves no backend chosen.
LEMMA AnsweredFits == ASSUME NEW t, NEW lines \in Nat, NEW code, DOMAIN t = Fields,
                             t.talkers \in 0..(MaxTalkers + Redundancy)
                      PROVE SessionFits(Answered(t, code), lines)
<1>1. /\ Answered(t, code).pc = "command" /\ Answered(t, code).chosen = {}
      /\ Answered(t, code).next = 1 /\ Answered(t, code).talkers = t.talkers
      /\ Answered(t, code).lines = 0
  BY DEF Answered, Fields, NoSession
<1>2. IsFiniteSet({}) /\ Cardinality({}) = 0
  BY FS_EmptySet
<1>3. 1 \in 1..(Len(Table) + 1) /\ Redundancy \in Nat
  BY PowerSmtpAssumption, SelectAssumption
<1>4. QED
  BY <1>1, <1>2, <1>3 DEF SessionFits, Pc

\* What has the same backends, talkers and lines fits, unless it waits for storage.
LEMMA SameFits == ASSUME NEW t, NEW u, NEW lines, SessionFits(t, lines),
                         u.pc \in Pc \ {"waiting", "connecting"} \/ u.pc = t.pc,
                         u.chosen = t.chosen, u.talkers = t.talkers, u.lines = t.lines,
                         u.next = t.next \/ u.next \in 1..(Len(Table) + 1)
                  PROVE SessionFits(u, lines)
BY DEF SessionFits, Pc

\* Each step of the session leaves it as its type says.
LEMMA SessionFitsOn == ASSUME IInv, SessionType, Session PROVE SessionType'
<1>1. bound.lines \in Nat /\ DOMAIN s = Fields
  BY PowerSmtpAssumption DEF IInv, QuotaType, Bound
<1>2. bound' = bound
  BY DEF Session, MailFrom, RcptForward, Rset, HangUp, Data, Select, Connect, ListAt, StartData,
         AddLine, EndOfData, RcptMailbox, AddRecipient, Measured, InSession
<1>3. SUFFICES SessionFits(s', bound.lines)
  BY <1>2 DEF SessionType
<1>4. SessionFits(s, bound.lines) /\ s.talkers \in 0..(MaxTalkers + Redundancy)
  BY DEF SessionType, SessionFits
<1>5. \A code : SessionFits(Answered(s, code), bound.lines) /\ SessionFits(Reset(code), bound.lines)
  BY <1>1, <1>4, AnsweredFits, FreshFits
<1>6. \A code : SessionFits(Answered([s EXCEPT !.degraded = TRUE], code), bound.lines)
  BY <1>1, <1>4, AnsweredFits DEF Fields, NoSession
<1>7. CASE MailFrom
  <2>1. PICK size \in bound.sizes :
          s' = [s EXCEPT !.from = TRUE, !.needed = TRUE, !.room = 0, !.size = size,
                         !.answer = "none", !.best = 0, !.waived = FALSE]
    BY <1>7 DEF MailFrom, InSession
  <2>2. s'.pc = s.pc /\ s'.chosen = s.chosen /\ s'.talkers = s.talkers /\ s'.lines = s.lines
        /\ s'.next = s.next
    BY <1>1, <2>1 DEF Fields, NoSession
  <2>3. QED
    BY <1>4, <2>2, SameFits
<1>8. CASE RcptForward
  <2>1. \/ /\ s.pc = "command" /\ s.talkers < MaxTalkers
           /\ s' = [s EXCEPT !.forwards = @ + 1, !.mega = TRUE, !.talkers = @ + 1]
        \/ s' = [s EXCEPT !.mega = TRUE, !.answer = "450"]
    BY <1>8 DEF RcptForward, InSession, At
  <2>2. CASE /\ s.pc = "command" /\ s.talkers < MaxTalkers
             /\ s' = [s EXCEPT !.forwards = @ + 1, !.mega = TRUE, !.talkers = @ + 1]
    <3>1. s'.pc = s.pc /\ s'.chosen = s.chosen /\ s'.talkers = s.talkers + 1 /\ s'.lines = s.lines
          /\ s'.next = s.next
      BY <1>1, <2>2 DEF Fields, NoSession
    <3>2. s'.talkers \in 0..(MaxTalkers + Redundancy) /\ s'.talkers <= MaxTalkers
      BY <1>4, <2>2, <3>1, PowerSmtpAssumption, SelectAssumption
    <3>3. QED
      BY <1>4, <3>1, <3>2 DEF SessionFits
  <2>3. CASE s' = [s EXCEPT !.mega = TRUE, !.answer = "450"]
    <3>1. s'.pc = s.pc /\ s'.chosen = s.chosen /\ s'.talkers = s.talkers /\ s'.lines = s.lines
          /\ s'.next = s.next
      BY <1>1, <2>3 DEF Fields, NoSession
    <3>2. QED
      BY <1>4, <3>1, SameFits
  <2>4. QED
    BY <2>1, <2>2, <2>3
<1>9. CASE Rset \/ HangUp
  BY <1>5, <1>9 DEF Rset, HangUp, InSession
<1>10. CASE Data
  <2> DEFINE t == [s EXCEPT !.mega = TRUE, !.answer = "none"]
  <2>1. s.talkers <= MaxTalkers
    BY <1>10 DEF Data
  <2>2. DOMAIN t = Fields /\ t.pc = s.pc /\ t.chosen = s.chosen /\ t.talkers = s.talkers
        /\ t.lines = s.lines /\ t.next = s.next
    BY <1>1 DEF Fields, NoSession
  <2>3. CASE s.rcpts # {}
    <3>1. s' = [t EXCEPT !.pc = "waiting", !.todo = s.rcpts]
      BY <1>10, <2>3 DEF Data, InSession
    <3>2. s'.pc = "waiting" /\ s'.chosen = s.chosen /\ s'.talkers = s.talkers
          /\ s'.lines = s.lines /\ s'.next = s.next
      BY <2>2, <3>1 DEF Fields, NoSession
    <3>3. QED
      BY <1>4, <2>1, <3>2 DEF SessionFits, Pc
  <2>4. CASE s.rcpts = {} /\ s.degraded
    <3>1. s' = [Answered(t, "450") EXCEPT !.needed = FALSE, !.waived = TRUE]
      BY <1>10, <2>4 DEF Data, InSession
    <3>2. SessionFits(Answered(t, "450"), bound.lines)
      BY <1>1, <1>4, <2>2, AnsweredFits
    <3>3. /\ s'.pc = Answered(t, "450").pc /\ s'.chosen = Answered(t, "450").chosen
          /\ s'.talkers = Answered(t, "450").talkers /\ s'.lines = Answered(t, "450").lines
          /\ s'.next = Answered(t, "450").next
      BY <2>2, <3>1 DEF Answered, Fields, NoSession
    <3>4. QED
      BY <3>2, <3>3, SameFits
  <2>5. CASE s.rcpts = {} /\ ~s.degraded
    <3>1. s' = [t EXCEPT !.pc = "starting", !.needed = FALSE, !.waived = TRUE]
      BY <1>10, <2>5 DEF Data, InSession
    <3>2. s'.pc = "starting" /\ s'.chosen = s.chosen /\ s'.talkers = s.talkers
          /\ s'.lines = s.lines /\ s'.next = s.next
      BY <2>2, <3>1 DEF Fields, NoSession
    <3>3. QED
      BY <1>4, <3>2, SameFits DEF Pc
  <2>6. QED
    BY <2>3, <2>4, <2>5
<1>11. CASE Select
  <2>1. PICK chosen \in Selections(view) :
          s' = [s EXCEPT !.pc = "connecting", !.chosen = chosen, !.stale = s.talkers > s.forwards]
    BY <1>11 DEF Select, InSession
  <2>2. chosen \subseteq Backend /\ IsFiniteSet(chosen) /\ Cardinality(chosen) <= Redundancy
    BY SelectedWell DEF WellChosen
  <2>3. s'.pc = "connecting" /\ s'.chosen = chosen /\ s'.talkers = s.talkers /\ s'.lines = s.lines
        /\ s'.next = s.next
    BY <1>1, <2>1 DEF Fields, NoSession
  <2>4. s.talkers <= MaxTalkers
    BY <1>4, <1>11 DEF Select, At, SessionFits
  <2>5. QED
    BY <1>4, <2>2, <2>3, <2>4 DEF SessionFits, Pc
<1>12. CASE Connect
  <2>1. PICK reached \in SUBSET s.chosen :
          LET talkers == s.talkers + Cardinality(reached)
              degraded == s.degraded \/ (talkers # 0 /\ talkers < Redundancy)
              t == [s EXCEPT !.talkers = talkers, !.degraded = degraded, !.chosen = reached]
          IN s' = IF talkers = 0 \/ degraded THEN Answered(t, "450")
                  ELSE [t EXCEPT !.pc = "announcing"]
    BY <1>12 DEF Connect, InSession
  <2> DEFINE talkers == s.talkers + Cardinality(reached)
             degraded == s.degraded \/ (talkers # 0 /\ talkers < Redundancy)
             t == [s EXCEPT !.talkers = talkers, !.degraded = degraded, !.chosen = reached]
  <2>2. /\ IsFiniteSet(s.chosen) /\ Cardinality(s.chosen) <= Redundancy /\ s.chosen \subseteq Backend
        /\ s.talkers \in Nat /\ s.talkers <= MaxTalkers
    BY <1>4, <1>12, PowerSmtpAssumption, SelectAssumption DEF Connect, At, SessionFits
  <2>3. /\ IsFiniteSet(reached) /\ Cardinality(reached) <= Cardinality(s.chosen)
        /\ Cardinality(reached) \in Nat /\ Cardinality(s.chosen) \in Nat
    BY <2>2, FS_Subset, FS_CardinalityType
  <2>4. talkers \in 0..(MaxTalkers + Redundancy)
    BY <2>2, <2>3, PowerSmtpAssumption, SelectAssumption
  <2>5. Cardinality(reached) <= Redundancy /\ reached \subseteq Backend
    BY <2>2, <2>3, SelectAssumption
  <2>6. DOMAIN t = Fields /\ t.talkers = talkers /\ t.chosen = reached /\ t.lines = s.lines
        /\ t.next = s.next
    BY <1>1 DEF Fields, NoSession
  <2>7. s' = Answered(t, "450") \/ s' = [t EXCEPT !.pc = "announcing"]
    BY <2>1
  <2> HIDE DEF t, talkers, degraded
  <2>8. CASE s' = Answered(t, "450")
    BY <1>1, <2>4, <2>6, <2>8, AnsweredFits
  <2>9. CASE s' = [t EXCEPT !.pc = "announcing"]
    <3>1. s'.pc = "announcing" /\ s'.talkers = talkers /\ s'.chosen = reached /\ s'.lines = s.lines
          /\ s'.next = s.next
      BY <2>6, <2>9 DEF Fields, NoSession
    <3>2. QED
      BY <1>4, <2>3, <2>4, <2>5, <3>1 DEF SessionFits, Pc
  <2>10. QED
    BY <2>7, <2>8, <2>9
<1>13. CASE ListAt
  <2>1. \/ s.next <= Len(Table) /\ s' = [s EXCEPT !.next = @ + 1]
        \/ s' = Answered(s, "450")
    BY <1>13 DEF ListAt
  <2>2. CASE s.next <= Len(Table) /\ s' = [s EXCEPT !.next = @ + 1]
    <3>1. s'.pc = s.pc /\ s'.chosen = s.chosen /\ s'.talkers = s.talkers /\ s'.lines = s.lines
          /\ s'.next = s.next + 1
      BY <1>1, <2>2 DEF Fields, NoSession
    <3>2. s'.next \in 1..(Len(Table) + 1)
      BY <1>4, <2>2, <3>1, PowerSmtpAssumption DEF SessionFits
    <3>3. QED
      BY <1>4, <3>1, <3>2, SameFits
  <2>3. QED
    BY <1>5, <2>1, <2>2
<1>14. CASE StartData
  <2>1. \/ s' = Answered([s EXCEPT !.degraded = TRUE], "450")
        \/ \E code \in {"552", "450"} : s' = Answered(s, code)
        \/ s' = [s EXCEPT !.pc = "data"]
    BY <1>14 DEF StartData, InSession
  <2>2. CASE s' = [s EXCEPT !.pc = "data"]
    <3>1. s'.pc = "data" /\ s'.chosen = s.chosen /\ s'.talkers = s.talkers /\ s'.lines = s.lines
          /\ s'.next = s.next
      BY <1>1, <2>2 DEF Fields, NoSession
    <3>2. QED
      BY <1>4, <3>1, SameFits DEF Pc
  <2>3. QED
    BY <1>5, <1>6, <2>1, <2>2
<1>15. CASE AddLine
  <2>1. /\ s.lines < bound.lines
        /\ s' = [s EXCEPT !.lines = @ + 1, !.dropped = @ \/ (s.needed /\ Dropped(s.lines, s.room))]
    BY <1>15 DEF AddLine, InSession
  <2>2. s'.pc = s.pc /\ s'.chosen = s.chosen /\ s'.talkers = s.talkers /\ s'.lines = s.lines + 1
        /\ s'.next = s.next
    BY <1>1, <2>1 DEF Fields, NoSession
  <2>3. QED
    BY <1>1, <1>4, <2>1, <2>2 DEF SessionFits
<1>16. CASE EndOfData
  BY <1>5, <1>6, <1>16 DEF EndOfData, InSession
<1>17. ASSUME NEW r \in Mailbox, RcptMailbox(r) PROVE SessionFits(s', bound.lines)
  <2>1. s' = [s EXCEPT !.rcpts = @ \cup {r}]
    BY <1>17 DEF RcptMailbox, InSession
  <2>2. s'.pc = s.pc /\ s'.chosen = s.chosen /\ s'.talkers = s.talkers /\ s'.lines = s.lines
        /\ s'.next = s.next
    BY <1>1, <2>1 DEF Fields, NoSession
  <2>3. QED
    BY <1>4, <2>2, SameFits
<1>18. ASSUME NEW r \in Mailbox, AddRecipient(r) PROVE SessionFits(s', bound.lines)
  <2>1. \/ \E failed \in {FALSE, MayFail} :
             s' = [s EXCEPT !.todo = @ \ {r}, !.needed = @ /\ Quota[r] # 0, !.degraded = @ \/ failed]
        \/ s' = [s EXCEPT !.pc = "listing", !.next = 1]
    BY <1>18 DEF AddRecipient, InSession
  <2>2. /\ s'.pc = s.pc \/ s'.pc = "listing"
        /\ s'.chosen = s.chosen /\ s'.talkers = s.talkers /\ s'.lines = s.lines
        /\ s'.next = s.next \/ s'.next = 1
    BY <1>1, <2>1 DEF Fields, NoSession
  <2>3. s'.next = s.next \/ s'.next \in 1..(Len(Table) + 1)
    BY <2>2, PowerSmtpAssumption
  <2>4. QED
    BY <1>4, <2>2, <2>3, SameFits DEF Pc
<1>19. ASSUME NEW r \in Mailbox, Measured(r) PROVE SessionFits(s', bound.lines)
  <2>1. PICK listed \in Int, failed \in {FALSE, MayFail} :
          s' = [s EXCEPT !.pc = "announcing", !.todo = @ \ {r}, !.next = 1,
                         !.room = IF listed > @ THEN listed ELSE @,
                         !.best = IF listed > @ THEN listed ELSE @,
                         !.degraded = @ \/ failed]
    BY <1>19, MeasuredIs DEF IInv, QuotaType
  <2>2. s'.pc = "announcing" /\ s'.chosen = s.chosen /\ s'.talkers = s.talkers
        /\ s'.lines = s.lines /\ s'.next = 1
    BY <1>1, <2>1 DEF Fields, NoSession
  <2>3. s'.next \in 1..(Len(Table) + 1)
    BY <2>2, PowerSmtpAssumption
  <2>4. QED
    BY <1>4, <2>2, <2>3, SameFits DEF Pc
<1>20. QED
  BY <1>7, <1>8, <1>9, <1>10, <1>11, <1>12, <1>13, <1>14, <1>15, <1>16, <1>17, <1>18, <1>19
     DEF Session

\* Nobody else touches the session, but to end its process.
LEMMA SessionTypeKept == ASSUME IInv, SessionType, [Next]_vars PROVE SessionType'
<1>1. bound.lines \in Nat
  BY PowerSmtpAssumption DEF IInv, QuotaType, Bound
<1>2. CASE Session
  BY <1>2, SessionFitsOn
<1>3. CASE Next /\ ~Session
  BY <1>1, <1>3, Elsewhere, FreshFits DEF SessionType
<1>4. CASE UNCHANGED vars
  BY <1>4 DEF vars, SessionType
<1>5. QED
  BY <1>2, <1>3, <1>4

-----------------------------------------------------------------------------
(* The view.                                                               *)

LEMMA LastInTable == Len(Table) \in DOMAIN Table /\ 1 \in DOMAIN Table /\ DOMAIN Table = 1..Len(Table)
                     /\ \A b \in Backend : \E i \in DOMAIN Table : Table[i] = b
BY PowerSmtpAssumption DEF Range

\* No connection: nothing is known and nothing unread.
LEMMA DownFits == \A st : EntryFits(Down, st) /\ Unseen(Down)
<1>1. Len(<<>>) = 0 /\ <<>> \in Seq(Line)
  OBVIOUS
<1>2. QED
  BY <1>1, PowerSmtpAssumption DEF EntryFits, Entry, Down, Unseen

\* What a step of the session leaves: all but itself, and what a listing reads.
LEMMA SessionLeaves ==
  ASSUME Session
  PROVE /\ proc # "none" /\ UNCHANGED <<status, blocked, proc, starter, first, round, at, ill>>
        /\ ListAt \/ view' = view
BY DEF Session, MailFrom, RcptForward, Rset, HangUp, Data, Select, Connect, ListAt, StartData,
       AddLine, EndOfData, RcptMailbox, AddRecipient, Measured, InSession, At, sites, daemon, thread

\* The backends and the daemon stay what they are.
LEMMA SitesKept == ASSUME IInv, SitesType, [Next]_vars PROVE SitesType'
<1> USE LastInTable DEF SitesType
<1>1. CASE StateThread
  <2>1. UNCHANGED <<status, blocked, starter>> /\ ((Goes /\ proc' = proc) \/ Ended)
    BY <1>1 DEF StateThread, CheckUp, CheckDown, GoesDown, sites
  <2>2. Goes => first' \in BOOLEAN /\ at' \in DOMAIN Table
    BY DEF Goes
  <2>3. Goes => round' \in 0..(StatEvery - 1)
    BY PowerSmtpAssumption DEF Goes
  <2>4. Ended => proc' = "none" /\ first' \in BOOLEAN /\ at' \in DOMAIN Table
    BY DEF Ended
  <2>5. Ended => round' \in 0..(StatEvery - 1)
    BY PowerSmtpAssumption DEF Ended
  <2>6. QED
    BY <2>1, <2>2, <2>3, <2>4, <2>5
<1>2. CASE Session
  BY <1>2, SessionLeaves
<1>3. CASE Administrator
  <2>1. CASE Start \/ Serve \/ Stop
    BY <2>1 DEF Start, Serve, Stop, sites, thread
  <2>2. ASSUME NEW b \in Backend, Block(b) PROVE SitesType'
    BY <2>2 DEF Block, Changes, daemon, thread
  <2>3. QED
    BY <1>3, <2>1, <2>2 DEF Administrator
<1>4. CASE Exit
  <2>1. round' \in 0..(StatEvery - 1)
    BY <1>4, PowerSmtpAssumption DEF Exit, Ended
  <2>2. QED
    BY <1>4, <2>1 DEF Exit, Ended, sites
<1>5. CASE \E b \in Backend, st \in Status : BackendBecomes(b, st)
  BY <1>5 DEF BackendBecomes, Changes, daemon, thread
<1>6. CASE UNCHANGED vars
  BY <1>6 DEF vars
<1>7. QED
  BY <1>1, <1>2, <1>3, <1>4, <1>5, <1>6 DEF Next

\* The view, of backends that are as they were, after one entry has changed.
LEMMA OneEntry == ASSUME ViewType, status' = status, NEW b \in Backend, NEW e,
                         view' = [view EXCEPT ![b] = e], EntryFits(e, status[b])
                  PROVE ViewType'
<1>1. DOMAIN view' = Backend /\ \A c \in Backend : view'[c] = IF c = b THEN e ELSE view[c]
  BY DEF ViewType
<1>2. ASSUME NEW c \in Backend PROVE EntryFits(view'[c], status'[c])
  BY <1>1 DEF ViewType
<1>3. QED
  BY <1>1, <1>2 DEF ViewType

\* The lines that an answer of at most two makes of what is unread.
LEMMA LinesAre == ASSUME ViewType, NEW b \in Backend, NEW answer \in Seq(Line)
                  PROVE Lines(b, answer) \in Seq(Line)
                        /\ Len(Lines(b, answer)) <= Len(view[b].late) + Len(answer)
<1>1. view[b].late \in Seq(Line)
  BY DEF ViewType, EntryFits, Entry
<1>2. CASE view[b].linked
  BY <1>1, <1>2 DEF Lines
<1>3. CASE ~view[b].linked
  BY <1>1, <1>3 DEF Lines
<1>4. QED
  BY <1>2, <1>3

LEMMA Answers == /\ \A b : PingAnswer(b) \in Seq(Line) /\ Len(PingAnswer(b)) = 1
                 /\ ListAnswer \in Seq(Line) /\ Len(ListAnswer) = 2
BY DEF PingAnswer, ListAnswer, Line

\* A listing leaves the rest of the lines, from one of them on.
LEMMA ListingIs == ASSUME ViewType, NEW b \in Backend, NEW listing \in Listings(b)
                   PROVE listing.late \in Seq(Line)
<1> DEFINE lines == Lines(b, ListAnswer)
           End == {k \in 2..Len(lines) : lines[k] = "."}
           Rest(k) == SubSeq(lines, k + 1, Len(lines))
<1>1. lines \in Seq(Line)
  BY Answers, LinesAre
<1>2. End # {} => Min(End) \in 2..Len(lines)
  <2>1. SUFFICES ASSUME End # {} PROVE Min(End) \in 2..Len(lines)
    OBVIOUS
  <2>2. End \in SUBSET Nat
    OBVIOUS
  <2> HIDE DEF End
  <2>3. Min(End) \in End
    BY <2>1, <2>2, Least DEF Min
  <2> USE DEF End
  <2>4. QED
    BY <2>3
<1>3. \/ lines # <<>> /\ listing.late = Rest(1)
      \/ End # {} /\ listing.late = Rest(Min(End))
      \/ listing.late = Rest(Len(lines))
      \/ \E n \in 0..Len(lines) : listing.late = Rest(n)
  BY DEF Listings
<1> HIDE DEF lines, End
<1>4. Len(lines) \in Nat /\ (lines # <<>> => 1 \in 0..Len(lines)) /\ (End # {} => Min(End) \in 0..Len(lines))
  <2>1. lines # <<>> => Len(lines) \in Nat \ {0}
    BY <1>1
  <2>2. QED
    BY <1>1, <1>2, <2>1
<1> HIDE DEF Rest
<1>5. \E k \in 0..Len(lines) : listing.late = Rest(k)
  BY <1>3, <1>4
<1> USE DEF Rest
<1>6. QED
  BY <1>1, <1>5

\* Nobody has a connection when the process has ended.
LEMMA ViewEnds == ASSUME Ended PROVE ViewType' /\ NobodyHome'
BY DownFits DEF Ended, ViewType, NobodyHome

\* Each step leaves the view as its type says.
LEMMA ViewKept == ASSUME IInv, SitesType, SessionType, ViewType, [Next]_vars PROVE ViewType'
<1> USE DEF ViewType
<1>1. ASSUME NEW b \in Backend, CheckUp(b) PROVE ViewType'
  <2> DEFINE lines == Lines(b, PingAnswer(b))
  <2>1. status' = status /\ view[b].up
    BY <1>1 DEF CheckUp, sites
  <2>2. EntryFits(view[b], status[b]) /\ view[b] \in Entry
    BY DEF EntryFits
  <2>3. lines \in Seq(Line) /\ Len(lines) <= Len(view[b].late) + 1
    BY Answers, LinesAre
  <2> HIDE DEF lines
  <2>4. CASE lines # <<>> /\ view' = Pinged(b, lines)
    <3> DEFINE e == [view[b] EXCEPT !.up = TRUE, !.late = Tail(lines),
                                    !.readonly = lines[1] = "readonly"]
    <3>1. view' = [view EXCEPT ![b] = e]
      BY <2>4 DEF Pinged
    <3>2. Tail(lines) \in Seq(Line) /\ Len(Tail(lines)) <= Len(view[b].late)
      BY <2>2, <2>3, <2>4 DEF Entry
    <3>3. e \in Entry /\ e.late = Tail(lines) /\ e.up /\ e.open = view[b].open
          /\ e.linked = view[b].linked
      BY <2>2, <3>2 DEF Entry
    <3> HIDE DEF e
    <3>4. EntryFits(e, status[b])
      BY <2>1, <2>2, <3>2, <3>3, PowerSmtpAssumption DEF EntryFits, Entry
    <3>5. QED
      BY <2>1, <3>1, <3>4, OneEntry
  <2>5. CASE view' = [view EXCEPT ![b] = Down]
    BY <2>1, <2>5, DownFits, OneEntry
  <2>6. CASE Ended
    BY <2>6, ViewEnds
  <2>7. QED
    BY <1>1, <2>4, <2>5, <2>6 DEF CheckUp, GoesDown, lines
<1>2. ASSUME NEW b \in Backend, CheckDown(b) PROVE ViewType'
  <2> DEFINE made == [Down EXCEPT !.open = TRUE, !.linked = TRUE]
             up == [made EXCEPT !.up = TRUE, !.readonly = blocked[b]]
             late == [made EXCEPT !.late = PingAnswer(b)]
             uplate == [made EXCEPT !.up = TRUE, !.readonly = blocked[b], !.late = <<"ok">>]
  <2>1. status' = status /\ blocked[b] \in BOOLEAN
    BY <1>2 DEF CheckDown, sites, SitesType
  <2>2. <<>> \in Seq(Line) /\ Len(<<>>) = 0 /\ <<"ok">> \in Seq(Line) /\ Len(<<"ok">>) = 1
        /\ 1 <= MaxLate /\ 0 <= MaxLate
    BY PowerSmtpAssumption DEF Line
  <2>3. status[b] # "gone" => EntryFits(up, status[b])
    BY <2>1, <2>2 DEF EntryFits, Entry, Down
  <2>4. status[b] # "gone" => EntryFits(late, status[b])
    BY <2>2, Answers DEF EntryFits, Entry, Down
  <2>5. status[b] # "gone" => EntryFits(uplate, status[b])
    BY <2>1, <2>2 DEF EntryFits, Entry, Down
  <2>6. \/ status[b] # "gone" /\ \E e \in {up, late, uplate} : view' = [view EXCEPT ![b] = e]
        \/ view' = [view EXCEPT ![b] = Down]
        \/ Ended
    BY <1>2 DEF CheckDown
  <2> HIDE DEF made, up, late, uplate
  <2>7. QED
    BY <2>1, <2>3, <2>4, <2>5, <2>6, DownFits, OneEntry, ViewEnds
<1>3. CASE ListAt
  <2> DEFINE b == Table[s.next]
  <2>1. /\ status' = status
        /\ \/ view' = view
           \/ \E listing \in Listings(b) : /\ Len(listing.late) <= MaxLate
                                           /\ view' = [view EXCEPT ![b].late = listing.late]
    BY <1>3 DEF ListAt, sites
  <2>2. CASE view' = view
    BY <2>1, <2>2
  <2>3. CASE \E listing \in Listings(b) : /\ Len(listing.late) <= MaxLate
                                          /\ view' = [view EXCEPT ![b].late = listing.late]
    <3>1. b \in Backend
      BY <1>3, PowerSmtpAssumption DEF ListAt, SessionType, SessionFits
    <3>2. PICK listing \in Listings(b) : /\ Len(listing.late) <= MaxLate
                                        /\ view' = [view EXCEPT ![b].late = listing.late]
      BY <2>3
    <3>3. EntryFits(view[b], status[b]) /\ view[b] \in Entry
      BY <3>1 DEF EntryFits
    <3> DEFINE late == listing.late
    <3>4. late \in Seq(Line)
      BY <3>1, <3>2, ListingIs
    <3>5. Len(late) <= MaxLate /\ view' = [view EXCEPT ![b].late = late]
      BY <3>2
    <3> HIDE DEF late
    <3> DEFINE e == [view[b] EXCEPT !.late = late]
    <3>7. view' = [view EXCEPT ![b] = e]
      BY <3>5
    <3>8. e \in Entry /\ e.late = late /\ e.up = view[b].up /\ e.open = view[b].open
          /\ e.linked = view[b].linked
      BY <3>3, <3>4 DEF Entry
    <3> HIDE DEF e
    <3>9. EntryFits(e, status[b])
      BY <3>3, <3>5, <3>8 DEF EntryFits
    <3>10. QED
      BY <2>1, <3>1, <3>7, <3>9, OneEntry
  <2>4. QED
    BY <2>1, <2>2, <2>3
<1>4. CASE Session /\ ~ListAt
  BY <1>4 DEF Session, MailFrom, RcptForward, Rset, HangUp, Data, Select, Connect, StartData,
         AddLine, EndOfData, RcptMailbox, AddRecipient, Measured, InSession, sites
<1>5. ASSUME NEW b \in Backend, NEW st \in Status, BackendBecomes(b, st) PROVE ViewType'
  <2>1. st # "gone" => view' = view
    BY <1>5 DEF BackendBecomes
  <2>2. status' = [status EXCEPT ![b] = st] /\ status \in [Backend -> Status]
    BY <1>5 DEF BackendBecomes, SitesType
  <2>3. CASE st # "gone"
    BY <2>1, <2>2, <2>3 DEF EntryFits
  <2>4. CASE st = "gone"
    <3> DEFINE e == [view[b] EXCEPT !.linked = FALSE]
    <3>1. view' = [view EXCEPT ![b] = e]
      BY <1>5, <2>4 DEF BackendBecomes
    <3>2. EntryFits(view[b], status[b])
      OBVIOUS
    <3>3. EntryFits(e, st)
      BY <3>2 DEF EntryFits, Entry
    <3> HIDE DEF e
    <3>4. ASSUME NEW c \in Backend PROVE EntryFits(view'[c], status'[c])
      BY <2>2, <2>4, <3>1, <3>3
    <3>5. QED
      BY <3>1, <3>4
  <2>5. QED
    BY <2>3, <2>4
<1>6. CASE Administrator
  BY <1>6 DEF Administrator, Start, Serve, Stop, Block, Changes, sites
<1>7. CASE Exit
  BY <1>7, ViewEnds DEF Exit
<1>8. CASE UNCHANGED vars
  BY <1>8 DEF vars
<1>9. QED
  BY <1>1, <1>2, <1>3, <1>4, <1>5, <1>6, <1>7, <1>8 DEF Next, StateThread

-----------------------------------------------------------------------------
(* What the daemon knows.                                                  *)

\* A process that is not there has seen nothing.
LEMMA NobodyKept == ASSUME ViewType, NobodyHome, [Next]_vars PROVE NobodyHome'
<1> USE DEF NobodyHome
<1>1. CASE StateThread
  <2>1. proc' # "none" \/ Ended
    BY <1>1 DEF StateThread, CheckUp, CheckDown, GoesDown
  <2>2. QED
    BY <2>1, ViewEnds
<1>2. CASE Session
  BY <1>2, SessionLeaves
<1>3. CASE Administrator
  BY <1>3 DEF Administrator, Start, Serve, Stop, Block, Changes, daemon, thread
<1>4. CASE Exit
  BY <1>4, ViewEnds DEF Exit
<1>5. ASSUME NEW b \in Backend, NEW st \in Status, BackendBecomes(b, st) PROVE NobodyHome'
  <2>1. UNCHANGED <<proc, first, at, s>>
    BY <1>5 DEF BackendBecomes, Changes, daemon, thread
  <2>2. \A c \in Backend : Unseen(view[c]) => Unseen(view'[c])
    <3>1. view' = view \/ view' = [view EXCEPT ![b].linked = FALSE]
      BY <1>5 DEF BackendBecomes
    <3>2. ASSUME NEW c \in Backend, Unseen(view[c]), view' = [view EXCEPT ![b].linked = FALSE]
          PROVE Unseen(view'[c])
      <4>1. view[c] \in Entry
        BY DEF ViewType, EntryFits
      <4>2. view'[c] = view[c] \/ view'[c] = [view[c] EXCEPT !.linked = FALSE]
        BY <3>2 DEF ViewType
      <4>3. QED
        BY <3>2, <4>1, <4>2 DEF Entry, Unseen
    <3>3. QED
      BY <3>1, <3>2
  <2>3. QED
    BY <2>1, <2>2
<1>6. CASE UNCHANGED vars
  BY <1>6 DEF vars
<1>7. QED
  BY <1>1, <1>2, <1>3, <1>4, <1>5, <1>6 DEF Next

\* Nobody has become ill, whom nobody has seen become so.
LEMMA WellKept == ASSUME AllWell, [Next]_vars PROVE AllWell'
<1> USE DEF AllWell, Healthy
<1>1. CASE StateThread
  BY <1>1 DEF StateThread, CheckUp, CheckDown, sites
<1>2. CASE Session
  BY <1>2, SessionLeaves
<1>3. CASE Administrator
  BY <1>3 DEF Administrator, Start, Serve, Stop, Block, Changes, sites
<1>4. CASE Exit
  BY <1>4 DEF Exit, Ended
<1>5. CASE \E b \in Backend, st \in Status : BackendBecomes(b, st)
  BY <1>5 DEF BackendBecomes, Changes
<1>6. CASE UNCHANGED vars
  BY <1>6 DEF vars
<1>7. QED
  BY <1>1, <1>2, <1>3, <1>4, <1>5, <1>6 DEF Next

\* A round goes on: who is seen well, and stays so, and the one looked at, are seen
\* well as far as the thread has come.
LEMMA RoundGoesOn ==
  ASSUME SitesType, SeenSoFar, Healthy, Goes, SeenWell(view'[Table[at]]),
         \A b \in Backend : b # Table[at] => view'[b] = view[b]
  PROVE SeenSoFar'
<1>1. at \in 1..Len(Table) /\ \A i \in DOMAIN Table : i \in 1..Len(Table) /\ Table[i] \in Backend
  BY LastInTable, PowerSmtpAssumption DEF SitesType
<1>2. \A b \in Backend : SeenWell(view[b]) => SeenWell(view'[b])
  OBVIOUS
<1>3. \A b \in Backend : Unseen(view'[b]) \/ SeenWell(view'[b])
  BY DEF SeenSoFar
<1>4. ASSUME NEW i \in DOMAIN Table, i < at' \/ ~first'
      PROVE SeenWell(view'[Table[i]])
  <2>1. CASE i < at \/ ~first
    <3>1. SeenWell(view[Table[i]]) /\ Table[i] \in Backend
      BY <1>1, <2>1 DEF SeenSoFar
    <3>2. QED
      BY <1>2, <3>1
  <2>2. CASE i = at
    BY <2>2
  <2>3. CASE i > at /\ first
    <3>1. at # Len(Table)
      BY <1>1, <2>3
    <3>2. at' = at + 1 /\ ~(i < at')
      BY <1>1, <2>3, <3>1 DEF Goes
    <3>3. first' = TRUE
      BY <2>3, <3>1 DEF Goes
    <3>4. QED
      BY <1>4, <3>2, <3>3
  <2>4. QED
    BY <1>1, <2>1, <2>2, <2>3
<1>5. QED
  BY <1>3, <1>4 DEF SeenSoFar

\* A listing of a backend that is seen well leaves nothing unread.
LEMMA ListingLeavesNone ==
  ASSUME ViewType, AllWell, SeenSoFar, Healthy, ListAt, SessionType
  PROVE \A b \in Backend : (Unseen(view[b]) => Unseen(view'[b])) /\ (SeenWell(view[b]) => SeenWell(view'[b]))
<1> DEFINE b == Table[s.next]
           lines == Lines(b, ListAnswer)
           End == {k \in 2..Len(lines) : lines[k] = "."}
<1>1. b \in Backend
  BY PowerSmtpAssumption DEF ListAt, SessionType, SessionFits
<1>2. CASE ~view[b].up
  <2>1. view' = view
    BY <1>2 DEF ListAt
  <2>2. QED
    BY <2>1
<1>3. CASE view[b].up
  <2>1. SeenWell(view[b]) /\ view[b] \in Entry
    BY <1>1, <1>3 DEF SeenSoFar, ViewType, EntryFits, Unseen
  <2>2. ~TimesOut(b)
    BY <1>1, <2>1 DEF TimesOut, AllWell, SeenWell
  <2>3. lines = <<"ok", ".">>
    BY <2>1 DEF Lines, ListAnswer, SeenWell
  <2>4. End = {2}
    BY <2>3
  <2>5. Min({2}) = 2
    BY DEF Min
  <2>6. SubSeq(lines, 3, 2) = <<>>
    <3> HIDE DEF lines
    <3>1. lines \in Seq(Line)
      BY <1>1, Answers, LinesAre DEF lines
    <3>2. QED
      BY <3>1, SubSeqEmpty
  <2>7. ASSUME NEW listing \in Listings(b) PROVE listing.late = <<>>
    <3>1. listing = [ok |-> TRUE, late |-> SubSeq(lines, Min(End) + 1, Len(lines))]
      BY <2>2, <2>3, <2>4 DEF Listings
    <3>2. Min(End) = 2 /\ Len(lines) = 2
      BY <2>3, <2>4, <2>5
    <3> HIDE DEF lines, End
    <3>3. QED
      BY <2>6, <3>1, <3>2
  <2>8. view' = [view EXCEPT ![b].late = <<>>]
    BY <1>3, <2>7 DEF ListAt
  <2> HIDE DEF b
  <2>9. \A c \in Backend : c # b => view'[c] = view[c]
    BY <2>8 DEF ViewType
  <2>10. SeenWell(view'[b])
    BY <1>1, <2>1, <2>8 DEF ViewType, SeenWell, Entry
  <2>11. ~Unseen(view[b])
    BY <2>1 DEF SeenWell, Unseen
  <2>12. QED
    BY <2>9, <2>10, <2>11
<1>4. QED
  BY <1>2, <1>3

\* The view of a daemon that has seen none ill.
LEMMA SeenKept ==
  ASSUME SitesType, SessionType, ViewType, NobodyHome, AllWell, SeenSoFar, [Next]_vars
  PROVE SeenSoFar'
<1> SUFFICES ASSUME Healthy'
             PROVE SeenSoFar'
  BY DEF SeenSoFar
<1>1. ASSUME NEW b \in Backend, CheckUp(b) PROVE SeenSoFar'
  <2> DEFINE lines == Lines(b, PingAnswer(b))
  <2>1. Healthy /\ b = Table[at] /\ view[b].up
    BY <1>1 DEF CheckUp, Healthy, Ended
  <2>2. SeenWell(view[b]) /\ status[b] = "well" /\ ~blocked[b] /\ view[b] \in Entry
    BY <2>1 DEF SeenSoFar, Unseen, AllWell, ViewType, EntryFits
  <2>3. lines = <<"ok">>
    BY <2>2 DEF Lines, PingAnswer, SeenWell
  <2>4. ~TimesOut(b) /\ ~Misread(lines)
    BY <2>2, <2>3 DEF TimesOut, Misread, SeenWell
  <2>5. view' = Pinged(b, lines) /\ Goes
    BY <1>1, <2>4 DEF CheckUp
  <2> HIDE DEF lines
  <2>6. view' = [view EXCEPT ![b] = [@ EXCEPT !.up = TRUE, !.late = <<>>, !.readonly = FALSE]]
    <3>1. Tail(lines) = <<>> /\ (lines[1] = "readonly") = FALSE
      BY <2>3
    <3>2. QED
      BY <2>5, <3>1 DEF Pinged
  <2>7. SeenWell(view'[b]) /\ \A c \in Backend : c # b => view'[c] = view[c]
    BY <2>2, <2>6 DEF ViewType, SeenWell, Entry
  <2>8. QED
    BY <2>1, <2>5, <2>7, RoundGoesOn
<1>2. ASSUME NEW b \in Backend, CheckDown(b) PROVE SeenSoFar'
  <2> DEFINE e == [Down EXCEPT !.open = TRUE, !.linked = TRUE, !.up = TRUE, !.readonly = FALSE]
  <2>1. Healthy /\ b = Table[at] /\ ~view[b].up
    BY <1>2 DEF CheckDown, Healthy, Ended
  <2>2. status[b] = "well" /\ blocked[b] = FALSE /\ ~view[b].open
    BY <2>1 DEF SeenSoFar, SeenWell, Unseen, AllWell, SitesType
  <2>3. Goes /\ view' = [view EXCEPT ![b] = [[Down EXCEPT !.open = TRUE, !.linked = TRUE]
                                               EXCEPT !.up = TRUE, !.readonly = blocked[b]]]
    BY <1>2, <2>2 DEF CheckDown
  <2>4. SeenWell(view'[b]) /\ \A c \in Backend : c # b => view'[c] = view[c]
    BY <2>2, <2>3 DEF ViewType, SeenWell, Down
  <2>5. QED
    BY <2>1, <2>3, <2>4, RoundGoesOn
<1>3. CASE Session
  <2>1. Healthy /\ UNCHANGED <<first, at>>
    BY <1>3, SessionLeaves DEF Healthy
  <2>2. \A b \in Backend : (Unseen(view[b]) => Unseen(view'[b])) /\ (SeenWell(view[b]) => SeenWell(view'[b]))
    BY <1>3, <2>1, SessionLeaves, ListingLeavesNone
  <2>3. \A b \in Backend : Unseen(view'[b]) \/ SeenWell(view'[b])
    BY <2>1, <2>2 DEF SeenSoFar
  <2>4. ASSUME NEW i \in DOMAIN Table, i < at' \/ ~first'
        PROVE SeenWell(view'[Table[i]])
    <3>1. SeenWell(view[Table[i]]) /\ Table[i] \in Backend
      BY <2>1, <2>4, PowerSmtpAssumption DEF SeenSoFar
    <3>2. QED
      BY <2>2, <3>1
  <2>5. QED
    BY <2>3, <2>4 DEF SeenSoFar
<1>4. CASE Serve /\ proc = "none"
  <2>1. view' = view /\ first' = TRUE /\ at' = 1 /\ \A b \in Backend : Unseen(view[b])
    BY <1>4 DEF Serve, NobodyHome
  <2>2. \A i \in DOMAIN Table : ~(i < at')
    BY <2>1, LastInTable
  <2>3. \A b \in Backend : Unseen(view'[b])
    BY <2>1
  <2>4. \A i \in DOMAIN Table : ~(i < at' \/ ~first')
    BY <2>1, <2>2
  <2>5. QED
    BY <2>3, <2>4 DEF SeenSoFar
<1>5. CASE Start \/ (Serve /\ proc # "none") \/ Stop
  <2>1. Healthy /\ UNCHANGED <<view, first, at>>
    <3>1. CASE Start
      BY <3>1 DEF Start, thread, Healthy
    <3>2. CASE Serve /\ proc # "none"
      BY <3>2 DEF Serve, Healthy
    <3>3. CASE Stop
      BY <3>3 DEF Stop, thread, Healthy
    <3>4. QED
      BY <1>5, <3>1, <3>2, <3>3
  <2>2. QED
    BY <2>1 DEF SeenSoFar
<1>6. CASE (\E b \in Backend : Block(b)) \/ \E b \in Backend, st \in Status : BackendBecomes(b, st)
  BY <1>6 DEF Block, BackendBecomes, Changes, Healthy
<1>7. CASE Exit
  BY <1>7 DEF Exit, Ended, Healthy
<1>8. CASE UNCHANGED vars
  <2>1. Healthy /\ UNCHANGED <<view, first, at>>
    BY <1>8 DEF vars, Healthy
  <2>2. QED
    BY <2>1 DEF SeenSoFar
<1>9. QED
  BY <1>1, <1>2, <1>3, <1>4, <1>5, <1>6, <1>7, <1>8 DEF Next, StateThread, Administrator

-----------------------------------------------------------------------------
(* What is selected, and what comes of it.                                 *)

\* Storage is selected by Select, from the view as it is, when a first round is over.
LEMMA SelectsWell == ASSUME IInv, Next, Selects
                     PROVE ~first /\ s'.chosen \in Selections(view)
<1>1. DOMAIN s = Fields
  BY DEF IInv, QuotaType
<1>2. CASE Select
  BY <1>1, <1>2 DEF Select, InSession, Fields, NoSession
<1>3. CASE Session /\ ~Select
  BY <1>1, <1>3 DEF Selects, Session, MailFrom, RcptForward, Rset, HangUp, Data, Connect, ListAt,
       StartData, AddLine, EndOfData, RcptMailbox, AddRecipient, Measured, InSession, At
<1>4. CASE ~Session
  BY <1>4, Elsewhere DEF Selects, NoSession
<1>5. QED
  BY <1>2, <1>3, <1>4

\* A session is connecting only because it selected, or was connecting.
LEMMA ComesFromSelect == ASSUME IInv, Next, s'.pc = "connecting"
                         PROVE Selects \/ s' = s
<1>1. DOMAIN s = Fields
  BY DEF IInv, QuotaType
<1>2. CASE Session
  <2> USE <1>1 DEF Fields, NoSession, InSession, At, Answered, Reset
  <2>1. CASE MailFrom \/ RcptForward
    BY <2>1 DEF MailFrom, RcptForward
  <2>2. CASE Rset \/ HangUp
    BY <2>2 DEF Rset, HangUp
  <2>3. CASE Data
    <3> DEFINE t == [s EXCEPT !.mega = TRUE, !.answer = "none"]
    <3>1. \/ s' = [t EXCEPT !.pc = "waiting", !.todo = s.rcpts]
          \/ s' = [Answered(t, "450") EXCEPT !.needed = FALSE, !.waived = TRUE]
          \/ s' = [t EXCEPT !.pc = "starting", !.needed = FALSE, !.waived = TRUE]
      BY <2>3 DEF Data
    <3>2. QED
      BY <3>1
  <2>4. CASE Select
    BY <2>4 DEF Select, Selects
  <2>5. CASE Connect
    <3>1. PICK reached \in SUBSET s.chosen :
            LET talkers == s.talkers + Cardinality(reached)
                degraded == s.degraded \/ (talkers # 0 /\ talkers < Redundancy)
                t == [s EXCEPT !.talkers = talkers, !.degraded = degraded, !.chosen = reached]
            IN s' = IF talkers = 0 \/ degraded THEN Answered(t, "450")
                    ELSE [t EXCEPT !.pc = "announcing"]
      BY <2>5 DEF Connect
    <3>2. QED
      BY <3>1
  <2>6. CASE ListAt \/ StartData \/ AddLine \/ EndOfData
    <3>1. CASE ListAt
      <4>1. s.pc = "listing" /\ (s' = [s EXCEPT !.next = @ + 1] \/ s' = Answered(s, "450"))
        BY <3>1 DEF ListAt
      <4>2. QED
        BY <4>1
    <3>2. CASE StartData
      <4>1. \/ s' = Answered([s EXCEPT !.degraded = TRUE], "450")
            \/ \E code \in {"552", "450"} : s' = Answered(s, code)
            \/ s' = [s EXCEPT !.pc = "data"]
        BY <3>2 DEF StartData
      <4>2. QED
        BY <4>1
    <3>3. CASE AddLine \/ EndOfData
      BY <3>3 DEF AddLine, EndOfData
    <3>4. QED
      BY <2>6, <3>1, <3>2, <3>3
  <2>7. ASSUME NEW r \in Mailbox, RcptMailbox(r) \/ AddRecipient(r)
        PROVE FALSE
    BY <2>7 DEF RcptMailbox, AddRecipient
  <2>8. ASSUME NEW r \in Mailbox, Measured(r)
        PROVE FALSE
    BY <2>8 DEF Measured
  <2>9. QED
    BY <1>2, <2>1, <2>2, <2>3, <2>4, <2>5, <2>6, <2>7, <2>8 DEF Session
<1>3. CASE ~Session
  BY <1>3, Elsewhere DEF NoSession
<1>4. QED
  BY <1>2, <1>3

\* What is well chosen has as many backends as are wanted, if all are up and writable
\* and there are as many groups: else every group is represented, and has one at most.
LEMMA EnoughChosen ==
  ASSUME NEW chosen, WellChosen(view, chosen, Redundancy), EnoughGroups,
         \A b \in Backend : Writable(view, b)
  PROVE Cardinality(chosen) >= Redundancy
<1>1. chosen \subseteq Backend /\ IsFiniteSet(chosen) /\ Cardinality(chosen) \in Nat /\ Redundancy \in Nat
  BY FS_CardinalityType, SelectAssumption DEF WellChosen
<1>2. SUFFICES ASSUME Cardinality(chosen) < Redundancy
               PROVE FALSE
  BY <1>1
<1>3. GroupsOf(Backend) = GroupsOf(chosen)
  BY <1>1, <1>2 DEF WellChosen, GroupsOf
<1>4. /\ [b \in chosen |-> GroupOf[b]] \in Surjection(chosen, GroupsOf(chosen))
  BY DEF Surjection, GroupsOf
<1>5. IsFiniteSet(GroupsOf(chosen)) /\ Cardinality(GroupsOf(chosen)) <= Cardinality(chosen)
  BY <1>1, <1>4, FS_Surjection
<1>6. Cardinality(GroupsOf(chosen)) \in Nat
  BY <1>5, FS_CardinalityType
<1>7. QED
  BY <1>1, <1>2, <1>3, <1>5, <1>6 DEF EnoughGroups

\* A client waits for the first round, so enough are selected while all are well.
LEMMA EnoughKept ==
  ASSUME IInv, SitesType, SessionType, ViewType, NobodyHome, AllWell, SeenSoFar, ChosenEnough,
         [Next]_vars
  PROVE ChosenEnough'
<1> SUFFICES ASSUME Healthy', s'.pc = "connecting", EnoughGroups
             PROVE Cardinality(s'.chosen) >= Redundancy
  BY DEF ChosenEnough, EnoughGroups
<1>1. Healthy \/ (proc = "none" /\ s' = s)
  <2>1. CASE StateThread
    BY <2>1 DEF StateThread, CheckUp, CheckDown, Healthy, Ended
  <2>2. CASE Session
    BY <2>2, SessionLeaves DEF Healthy
  <2>3. CASE Administrator \/ Exit
    BY <2>3 DEF Administrator, Start, Serve, Stop, Block, Changes, Exit, Ended, Healthy
  <2>4. CASE \E b \in Backend, st \in Status : BackendBecomes(b, st)
    BY <2>4 DEF BackendBecomes, Changes, Healthy
  <2>5. CASE UNCHANGED vars
    BY <2>5 DEF vars, Healthy
  <2>6. QED
    BY <2>1, <2>2, <2>3, <2>4, <2>5 DEF Next
<1>2. CASE proc = "none" /\ s' = s
  BY <1>2 DEF NobodyHome, NoSession
<1>3. CASE Healthy /\ s' = s
  BY <1>3 DEF ChosenEnough
<1>4. CASE Healthy /\ Next /\ Selects
  <2>1. ~first /\ s'.chosen \in Selections(view)
    BY <1>4, SelectsWell
  <2>2. \A b \in Backend : \E i \in DOMAIN Table : Table[i] = b
    BY LastInTable
  <2>3. \A b \in Backend : SeenWell(view[b])
    BY <1>4, <2>1, <2>2 DEF SeenSoFar
  <2>4. \A b \in Backend : Writable(view, b)
    BY <2>3 DEF SeenWell, Writable
  <2>5. WellChosen(view, s'.chosen, Redundancy)
    BY <2>1, SelectedWell
  <2>6. QED
    BY <2>4, <2>5, EnoughChosen
<1>5. CASE UNCHANGED vars
  BY <1>1, <1>2, <1>3, <1>5 DEF vars
<1>6. QED
  BY <1>1, <1>2, <1>3, <1>4, <1>5, ComesFromSelect

-----------------------------------------------------------------------------
\* The invariant of the whole process holds initially, and every step preserves it.
THEOREM WholeInvariance == Spec => []Inv
<1>1. Init => Inv
  <2>1. SUFFICES ASSUME Init PROVE Inv
    OBVIOUS
  <2>2. bound \in Bounds /\ bound.lines \in Nat
    BY <2>1, PowerSmtpAssumption DEF Init, Bound
  <2>3. SitesType /\ ~Healthy
    <3>1. round \in 0..(StatEvery - 1)
      BY <2>1, PowerSmtpAssumption DEF Init
    <3>2. QED
      BY <2>1, <3>1, LastInTable DEF Init, SitesType, Status, Healthy
  <2>4. ViewType /\ NobodyHome
    BY <2>1, DownFits DEF Init, ViewType, NobodyHome
  <2>5. SessionType
    BY <2>1, <2>2, FreshFits DEF Init, SessionType
  <2>6. QED
    BY <2>3, <2>4, <2>5 DEF Inv, AllWell, SeenSoFar, ChosenEnough
<1>2. ASSUME IInv, Inv, [Next]_vars PROVE Inv'
  BY <1>2, SitesKept, ViewKept, SessionTypeKept, NobodyKept, WellKept, SeenKept, EnoughKept DEF Inv
<1>3. QED
  BY Invariance, <1>1, <1>2, PTL DEF Spec

\* Type correctness: that the unread lines of a connection and the talkers of a message
\* are bounded, that who is up has a connection, and that nobody is connected to a
\* backend that is gone.
THEOREM TypeCorrect == Spec => []TypeOK
<1>1. IInv /\ Inv => TypeOK
  <2>1. SUFFICES ASSUME IInv, Inv PROVE TypeOK
    OBVIOUS
  <2>2. \A b \in Backend : EntryFits(view[b], status[b])
    BY <2>1 DEF Inv, ViewType
  <2>3. \A b \in Backend : /\ {view[b].up, view[b].readonly, view[b].open} \subseteq BOOLEAN
                           /\ view[b].late \in Seq(Line) /\ Len(view[b].late) <= MaxLate
                           /\ view[b].up => view[b].open
                           /\ view[b].linked => status[b] # "gone"
    BY <2>2 DEF EntryFits, Entry
  <2>4. QED
    BY <2>1, <2>3 DEF TypeOK, IInv, QuotaType, Inv, SitesType, SessionType, SessionFits
<1>2. QED
  BY Invariance, WholeInvariance, <1>1, PTL

\* What openStorage selects is the best of its groups, and as many as can be.
THEOREM SelectionWell == Spec => ChosenWell
<1> DEFINE Best == LET chosen == s'.chosen IN
                   /\ \A b \in chosen, c \in Backend :
                        /\ Writable(view, b)
                        /\ GroupOf[b] = GroupOf[c] /\ Writable(view, c) =>
                             (b = c \/ (c \notin chosen /\ PriorityOf[b] <= PriorityOf[c]))
                   /\ Cardinality(chosen) < Redundancy =>
                        \A c \in Backend : Writable(view, c) => GroupOf[c] \in GroupsOf(chosen)
<1>1. ASSUME IInv, [Next]_vars PROVE [Selects => Best]_vars
  <2>1. SUFFICES ASSUME Next, Selects PROVE Best
    BY <1>1
  <2>2. WellChosen(view, s'.chosen, Redundancy)
    BY <1>1, <2>1, SelectsWell, SelectedWell
  <2>3. QED
    BY <2>2 DEF WellChosen
<1>2. QED
  BY Invariance, <1>1, PTL DEF Spec, ChosenWell

\* While no backend was ill since the daemon began all that is selected is reached, and
\* that is enough: a message is refused for want of backends only if one was ill.
THEOREM NeverRefusedIdly == Spec => RefusedForCause
<1> DEFINE Refused == /\ s.pc = "connecting" /\ ~s.degraded /\ s'.answer = "450" /\ s'.pc = "command"
                      /\ Cardinality(GroupsOf(Backend)) >= Redundancy
<1>1. ASSUME IInv, Inv, [Next]_vars PROVE [Refused => ill]_vars
  <2>1. SUFFICES ASSUME Next, Refused, ~ill PROVE FALSE
    BY <1>1
  <2>2. DOMAIN s = Fields /\ proc # "none"
    BY <1>1, <2>1 DEF IInv, QuotaType, Inv, NobodyHome, NoSession
  <2>3. Healthy /\ EnoughGroups
    BY <2>1, <2>2 DEF Healthy, EnoughGroups
  <2>4. /\ Cardinality(s.chosen) >= Redundancy
        /\ s.chosen \subseteq Backend /\ IsFiniteSet(s.chosen) /\ s.talkers \in Nat
        /\ \A b \in s.chosen : status[b] = "well"
    BY <1>1, <2>1, <2>3, PowerSmtpAssumption, SelectAssumption
       DEF Inv, ChosenEnough, SessionType, SessionFits, AllWell
  <2>5. CASE Connect
    <3>1. PICK reached \in SUBSET s.chosen :
            /\ \A b \in s.chosen \ reached : status[b] \in {"gone", "slow"}
            /\ LET talkers == s.talkers + Cardinality(reached)
                   degraded == s.degraded \/ (talkers # 0 /\ talkers < Redundancy)
                   t == [s EXCEPT !.talkers = talkers, !.degraded = degraded, !.chosen = reached]
               IN s' = IF talkers = 0 \/ degraded THEN Answered(t, "450")
                       ELSE [t EXCEPT !.pc = "announcing"]
      BY <2>5 DEF Connect, InSession
    <3>2. reached = s.chosen
      BY <2>4, <3>1
    <3>3. Cardinality(reached) \in Nat /\ Cardinality(reached) >= Redundancy
      BY <2>4, <3>2, FS_CardinalityType
    <3> DEFINE talkers == s.talkers + Cardinality(reached)
               degraded == s.degraded \/ (talkers # 0 /\ talkers < Redundancy)
               t == [s EXCEPT !.talkers = talkers, !.degraded = degraded, !.chosen = reached]
    <3>4. talkers # 0 /\ ~(talkers < Redundancy)
      BY <2>4, <3>3, SelectAssumption
    <3>5. ~(talkers = 0 \/ degraded)
      BY <2>1, <3>4
    <3>6. DOMAIN t = Fields
      BY <2>2
    <3>7. s' = [t EXCEPT !.pc = "announcing"]
      BY <3>1, <3>5
    <3> HIDE DEF t
    <3>8. s'.pc = "announcing"
      BY <3>6, <3>7 DEF Fields, NoSession
    <3>9. QED
      BY <2>1, <3>8
  <2>6. CASE Session /\ ~Connect
    BY <2>1, <2>2, <2>6 DEF Session, MailFrom, RcptForward, Rset, HangUp, Data, Select, ListAt,
       StartData, AddLine, EndOfData, RcptMailbox, AddRecipient, Measured, InSession, At
  <2>7. CASE ~Session
    BY <2>1, <2>7, Elsewhere DEF NoSession
  <2>8. QED
    BY <2>5, <2>6, <2>7
<1>2. QED
  BY Invariance, WholeInvariance, <1>1, PTL DEF Spec, RefusedForCause
=============================================================================
