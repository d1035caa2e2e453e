------------------------------ MODULE PowerSmtp ------------------------------
(***************************************************************************)
(* powersmtp as a process: its start and stop, the state thread that keeps *)
(* the view of the backends, and a session that by this view selects where *)
(* to store a message (ServerSelect), and by what the backends list how    *)
(* much room its recipients have.  The administrator stops and starts the  *)
(* daemon and blocks backends (pptool); backends come and go, become slow  *)
(* or full.  What the talkers of a message do among themselves is the      *)
(* subject of SmtpDelivery: here they fail only if a backend is not well.  *)
(*                                                                         *)
(* Sizes are in kilobytes; a line of data has half of one.                 *)
(***************************************************************************)
EXTENDS Naturals, Integers, Sequences, FiniteSets, Functions, FiniteSetsExt, ServerSelect

CONSTANTS Table,      \* s_targets, in its order
          Mailbox,    \* recipients that are mailboxes
          Quota,      \* MboxData::mbQuota of a mailbox, in kilobytes; 0: unlimited
          MaxMsgKb,   \* max-msg-kb, 0: unlimited
          StatEvery,  \* rounds of the state thread from one "stat" to the next
          Bounds,     \* bounds considered together: see Bound
          MaxLate,    \* bound: unread lines of a connection
          MaxTalkers  \* bound: talkers of one MegaTalker

\* faults: changes of the backends, of those that are ailing; starts: of the daemon; mailboxes, forwards and
\* lines: of a message; sizes: that a client announces; usages: of a mailbox.
Bound == [faults : Nat, ailing : SUBSET Backend, starts : Nat \ {0}, mailboxes : SUBSET Mailbox, forwards : Nat,
          lines : Nat, sizes : SUBSET Nat, usages : SUBSET Nat]

ASSUME PowerSmtpAssumption == /\ Table \in Seq(Backend) /\ Table # <<>>
                              /\ Range(Table) = Backend /\ Len(Table) = Cardinality(Backend)
                              /\ Quota \in [Mailbox -> Nat]
                              /\ MaxMsgKb \in Nat /\ StatEvery \in Nat \ {0}
                              /\ MaxLate \in Nat \ {0} /\ MaxTalkers \in Nat
                              /\ Bounds \subseteq Bound

VARIABLES
  bound,    \* a member of Bounds
  status,   \* a backend's state
  blocked,  \* a backend's file "readonly"
  faults,   \* bound: changes of status and blocked so far
  proc,     \* the daemon; "leaving": it has answered a stop
  starter,  \* `powersmtp start`
  starts,   \* how often the daemon began
  view,     \* TargetData: up, readonly and the connection pp_talker
  first,    \* the state thread is in its first round: it holds s_statelock
  round,    \* its rounds, modulo StatEvery
  at,       \* the backend it looks at next
  s,        \* a session
  ill       \* history: some backend was not well, or blocked, since the daemon began

sites == <<status, blocked, faults>>
daemon == <<proc, starter, starts>>
thread == <<first, round, at>>
vars == <<bound, status, blocked, faults, proc, starter, starts, view, first, round, at, s, ill>>

Status == {"well", "slow", "full", "gone"}
Line == {"ok", "readonly", "."}
Pc == {"command", "waiting", "connecting", "announcing", "listing", "starting", "data"}

Down == [up |-> FALSE, readonly |-> FALSE, open |-> FALSE, linked |-> FALSE, late |-> <<>>]

\* chosen: the backends of the last openStorage.  dropped, best and waived are
\* history: whether a line was dropped, the largest room listed for this message,
\* and whether a DATA for forwards alone gave up the quota.
NoSession == [pc |-> "command", from |-> FALSE, rcpts |-> {}, todo |-> {}, next |-> 1, forwards |-> 0,
              mega |-> FALSE, talkers |-> 0, chosen |-> {}, stale |-> FALSE, degraded |-> FALSE,
              needed |-> TRUE, room |-> 0, size |-> 0, lines |-> 0, answer |-> "none",
              dropped |-> FALSE, best |-> 0, waived |-> FALSE]

TypeOK == /\ bound \in Bounds
          /\ status \in [Backend -> Status] /\ blocked \in [Backend -> BOOLEAN]
          /\ proc \in {"none", "serving", "leaving"} /\ starter \in {"none", "binding"}
          /\ \A b \in Backend : /\ {view[b].up, view[b].readonly, view[b].open} \subseteq BOOLEAN
                                /\ view[b].late \in Seq(Line) /\ Len(view[b].late) <= MaxLate
                                /\ view[b].up => view[b].open
                                /\ view[b].linked => status[b] # "gone"
          /\ at \in DOMAIN Table /\ round \in 0..(StatEvery - 1)
          /\ s.pc \in Pc /\ s.chosen \subseteq Backend /\ s.todo \subseteq s.rcpts
          /\ s.next \in 1..(Len(Table) + 1) /\ s.room \in Int /\ s.talkers \in 0..(MaxTalkers + Redundancy)
          /\ s.lines \in 0..bound.lines

Init == /\ bound \in Bounds
        /\ status = [b \in Backend |-> "well"] /\ blocked = [b \in Backend |-> FALSE] /\ faults = 0
        /\ proc = "none" /\ starter = "binding" /\ starts = 0
        /\ view = [b \in Backend |-> Down] /\ first = TRUE /\ round = 0 /\ at = 1
        /\ s = NoSession /\ ill = FALSE

-----------------------------------------------------------------------------
(* The backends, and pptool.                                               *)

Changes == /\ faults < bound.faults /\ faults' = faults + 1
           /\ ill' = TRUE
           /\ UNCHANGED <<bound, daemon, thread, s>>

BackendBecomes(b, st) ==
  /\ Changes /\ b \in bound.ailing /\ st # status[b]
  /\ status' = [status EXCEPT ![b] = st]
  /\ view' = IF st = "gone" THEN [view EXCEPT ![b].linked = FALSE] ELSE view
  /\ UNCHANGED blocked

\* `pptool block` and `pptool unblock`: "readonly" and "readwrite" over a connection
\* of its own.
Block(b) == /\ Changes /\ b \in bound.ailing /\ status[b] # "gone"
            /\ blocked' = [blocked EXCEPT ![b] = ~@]
            /\ UNCHANGED <<status, view>>

-----------------------------------------------------------------------------
(* The daemon.                                                             *)

\* The process has gone.
Ended == /\ proc' = "none"
         /\ view' = [b \in Backend |-> Down]
         /\ first' = TRUE /\ round' = 0 /\ at' = 1
         /\ s' = NoSession

\* "start": who answers at the port is running, and "start" is over; a connection
\* that is lost before the banner counts as nobody.
Start == /\ starter = "none" /\ starts < bound.starts
         /\ proc # "serving"
         /\ starter' = "binding"
         /\ UNCHANGED <<bound, sites, proc, starts, view, thread, s, ill>>

\* Mutant of Serve: the lock is left to the thread to take.
ServeUnlocked == /\ starter = "binding" /\ starter' = "none"
                 /\ IF proc = "none"
                    THEN /\ proc' = "serving" /\ starts' = starts + 1
                         /\ first' = FALSE
                         /\ ill' = \E b \in Backend : status[b] # "well" \/ blocked[b]
                    ELSE UNCHANGED <<proc, starts, first, ill>>
                 /\ UNCHANGED <<bound, sites, view, round, at, s>>

\* The rest of PowerSmtpMain: bind, which fails while another has the port, lock
\* s_statelock, start the state thread and accept sessions.
Serve == /\ starter = "binding" /\ starter' = "none"
         /\ IF proc = "none"
            THEN /\ proc' = "serving" /\ starts' = starts + 1
                 /\ first' = TRUE
                 /\ ill' = \E b \in Backend : status[b] # "well" \/ blocked[b]
            ELSE UNCHANGED <<proc, starts, first, ill>>
         /\ UNCHANGED <<bound, sites, view, round, at, s>>

\* "control stop" in a session of the administrator's: the answer, then exit(0).
Stop == /\ proc = "serving" /\ starts < bound.starts
        /\ proc' = "leaving"
        /\ UNCHANGED <<bound, sites, starter, starts, view, thread, s, ill>>

Exit == /\ proc = "leaving"
        /\ Ended
        /\ UNCHANGED <<bound, sites, starter, starts, ill>>

-----------------------------------------------------------------------------
(* Requests on the connection of an entry of the table: the answer goes    *)
(* behind what is unread; that of a slow backend may come after a timeout. *)

Lines(b, answer) == view[b].late \o (IF view[b].linked THEN answer ELSE <<>>)

TimesOut(b) == status[b] = "slow" \/ ~view[b].linked

\* ping: READONLY if the file is there.  d_full belongs to another session.
PingAnswer(b) == <<IF blocked[b] THEN "readonly" ELSE "ok">>

\* The answer of "ls": a status line, what is in the mailbox, a dot.
ListAnswer == <<"ok", ".">>

Pinged(b, lines) ==
  [view EXCEPT ![b] = [@ EXCEPT !.up = TRUE, !.late = Tail(lines), !.readonly = lines[1] = "readonly"]]

-----------------------------------------------------------------------------
(* The state thread.                                                       *)

\* Mutant of Goes: s_statelock is not let go of.
GoesLocked == /\ at' = IF at = Len(Table) THEN 1 ELSE at + 1
              /\ round' = IF at # Len(Table) THEN round
                          ELSE IF round + 1 = StatEvery THEN 0 ELSE round + 1
              /\ UNCHANGED first

\* Mutant of Goes: the table has no end.
GoesPast == /\ at' = at + 1
            /\ round' = round
            /\ first' = (first /\ at # Len(Table))

\* To the next backend; the end of the table is the end of a round.
Goes == /\ at' = IF at = Len(Table) THEN 1 ELSE at + 1
        /\ round' = IF at # Len(Table) THEN round
                    ELSE IF round + 1 = StatEvery THEN 0 ELSE round + 1
        /\ first' = (first /\ at # Len(Table))

\* Mutant of StatDue: no "stat" is ever asked for.
StatNever == FALSE

\* !(round%60): a ping is followed by a "stat", for the room on the disk.
StatDue == round = 0

\* Mutant of GoesDown: a ping that fails is only logged.
GoesDownNot(b) == view' = view /\ Goes /\ UNCHANGED <<proc, s>>

\* The connection is closed, which says "quit" and throws if the connection is
\* broken.  Nothing catches that, and the process ends.
GoesDown(b) == \/ view' = [view EXCEPT ![b] = Down] /\ Goes /\ UNCHANGED <<proc, s>>
               \/ ~view[b].linked /\ Ended

\* A ping reads a line that is no status line, or the "stat" behind it reads the
\* answer of another request: too few words.
Misread(lines) == lines # <<>> /\ (lines[1] = "." \/ (StatDue /\ Len(lines) > 1))

\* The ping, and the "stat" if it is due, of a backend that is up.
CheckUp(b) ==
  LET lines == Lines(b, PingAnswer(b)) IN
  /\ proc # "none" /\ b = Table[at] /\ view[b].up
  /\ \/ /\ lines # <<>> /\ ~Misread(lines)
        /\ view' = Pinged(b, lines) /\ Goes /\ UNCHANGED <<proc, s>>
     \/ /\ TimesOut(b) \/ Misread(lines)
        /\ GoesDown(b)
  /\ UNCHANGED <<bound, sites, starter, starts, ill>>

\* Mutant of CheckDown: a backend that was down stays so.
CheckDownNever(b) ==
  /\ proc # "none" /\ b = Table[at] /\ ~view[b].up /\ ~first
  /\ Goes
  /\ UNCHANGED <<bound, sites, daemon, view, s, ill>>

\* Connect again.  A ping that fails leaves the connection, which the next round
\* closes first; a "stat" that fails leaves the backend up and its answer unread.
CheckDown(b) ==
  LET made == [Down EXCEPT !.open = TRUE, !.linked = TRUE] IN
  /\ proc # "none" /\ b = Table[at] /\ ~view[b].up
  /\ \/ /\ status[b] # "gone"
        /\ view' = [view EXCEPT ![b] = [made EXCEPT !.up = TRUE, !.readonly = blocked[b]]]
        /\ Goes /\ UNCHANGED <<proc, s>>
     \/ /\ status[b] = "slow"
        /\ view' = [view EXCEPT ![b] = [made EXCEPT !.late = PingAnswer(b)]]
        /\ Goes /\ UNCHANGED <<proc, s>>
     \/ /\ status[b] = "slow" /\ StatDue
        /\ view' = [view EXCEPT ![b] = [made EXCEPT !.up = TRUE, !.readonly = blocked[b], !.late = <<"ok">>]]
        /\ Goes /\ UNCHANGED <<proc, s>>
     \/ /\ status[b] \in {"slow", "gone"}
        /\ view' = [view EXCEPT ![b] = Down]
        /\ Goes /\ UNCHANGED <<proc, s>>
     \/ view[b].open /\ ~view[b].linked /\ Ended
  /\ UNCHANGED <<bound, sites, starter, starts, ill>>

StateThread == \E b \in Backend : CheckUp(b) \/ CheckDown(b)

-----------------------------------------------------------------------------
(* A session: commands.                                                    *)

\* The session alone changes.
InSession(t) == /\ proc # "none"
                /\ s' = t
                /\ UNCHANGED <<bound, sites, daemon, view, thread, ill>>

At(pc) == proc # "none" /\ s.pc = pc

Answered(t, code) == [t EXCEPT !.pc = "command", !.answer = code, !.todo = {}, !.chosen = {},
                              !.next = 1, !.lines = 0, !.dropped = FALSE]

\* rsetSession, with what comes of the message.
Reset(code) == [NoSession EXCEPT !.answer = code]

MailFrom == /\ At("command") /\ ~s.from
            /\ \E size \in bound.sizes :
                 InSession([s EXCEPT !.from = TRUE, !.needed = TRUE, !.room = 0, !.size = size,
                                     !.answer = "none", !.best = 0, !.waived = FALSE])

RcptMailbox(r) == /\ At("command") /\ s.from /\ r \in bound.mailboxes \ s.rcpts
                  /\ InSession([s EXCEPT !.rcpts = @ \cup {r}])

\* addRemote: a talker to the sender, in the same MegaTalker; one that fails leaves
\* the MegaTalker it was to be in.
RcptForward ==
  /\ At("command") /\ s.from /\ s.forwards < bound.forwards
  /\ \/ /\ s.talkers < MaxTalkers
        /\ InSession([s EXCEPT !.forwards = @ + 1, !.mega = TRUE, !.talkers = @ + 1])
     \/ InSession([s EXCEPT !.mega = TRUE, !.answer = "450"])

\* "RSET", "QUIT", or the connection is lost.
Rset == At("command") /\ s # Reset("none") /\ InSession(Reset("none"))

HangUp == At("data") /\ InSession(Reset("none"))

-----------------------------------------------------------------------------
(* DATA: eatData, openStorage and determineKbUsage.                        *)

Data ==
  /\ At("command") /\ s.from /\ (s.rcpts # {} \/ s.mega) /\ s.talkers <= MaxTalkers
  /\ LET t == [s EXCEPT !.mega = TRUE, !.answer = "none"]
     IN IF s.rcpts # {} THEN InSession([t EXCEPT !.pc = "waiting", !.todo = s.rcpts])
        ELSE InSession([IF s.degraded THEN Answered(t, "450") ELSE [t EXCEPT !.pc = "starting"]
                          EXCEPT !.needed = FALSE, !.waived = TRUE])

\* openStorage waits until s_statelock is free and selects from a copy of the table.
Select == /\ At("waiting") /\ ~first
          /\ \E chosen \in Selections(view) :
               InSession([s EXCEPT !.pc = "connecting", !.chosen = chosen,
                                   !.stale = s.talkers > s.forwards])

\* It connects; a backend that cannot be reached is not replaced, and every talker
\* counts, those of forwards and of an earlier DATA included.
Connect ==
  /\ At("connecting")
  /\ \E reached \in SUBSET s.chosen :
       /\ \A b \in s.chosen \ reached : status[b] \in {"gone", "slow"}
       /\ \A b \in reached : status[b] # "gone"
       /\ LET talkers == s.talkers + Cardinality(reached)
              degraded == s.degraded \/ (talkers # 0 /\ talkers < Redundancy)
              t == [s EXCEPT !.talkers = talkers, !.degraded = degraded, !.chosen = reached]
          IN InSession(IF talkers = 0 \/ degraded THEN Answered(t, "450")
                       ELSE [t EXCEPT !.pc = "announcing"])

\* Announcing r, and later commands, may fail if a backend is not well or is still
\* in the middle of an earlier DATA; so may those of forwards.
MayFail == s.stale \/ s.forwards > 0 \/ \E b \in s.chosen : status[b] # "well"

\* A recipient: without a quota it takes the quota from the whole message; of
\* another the mailbox is listed, unless that has happened.
AddRecipient(r) ==
  /\ At("announcing") /\ r \in s.todo
  /\ IF Quota[r] = 0 \/ ~s.needed
     THEN \E failed \in {FALSE, MayFail} :
            InSession([s EXCEPT !.todo = @ \ {r}, !.needed = @ /\ Quota[r] # 0,
                                !.degraded = @ \/ failed])
     ELSE InSession([s EXCEPT !.pc = "listing", !.next = 1])

\* How the reading of a listing may go: the answer, if a status line and a dot behind
\* it are read, and what is left unread.  A status line that is none, or too few
\* lines, and it fails; it may time out at any line of a slow backend.
Listings(b) ==
  LET lines == Lines(b, ListAnswer)
      End == {k \in 2..Len(lines) : lines[k] = "."}
      After(k) == SubSeq(lines, k + 1, Len(lines))
      Listing(ok, k) == [ok |-> ok, late |-> After(k)]
  IN {IF lines # <<>> /\ lines[1] = "." THEN Listing(FALSE, 1)
      ELSE IF End # {} THEN Listing(TRUE, Min(End)) ELSE Listing(FALSE, Len(lines))}
     \cup {Listing(FALSE, k) : k \in IF TimesOut(b)
             THEN {n \in 0..Len(lines) : \A i \in 1..n : lines[i] # "."} ELSE {}}

\* getMsgs at the next backend, on the connection of the state thread.
ListAt ==
  /\ At("listing") /\ s.next <= Len(Table)
  /\ LET b == Table[s.next] IN
     IF ~view[b].up
     THEN s' = [s EXCEPT !.next = @ + 1] /\ UNCHANGED view
     ELSE \E listing \in Listings(b) :
            /\ Len(listing.late) <= MaxLate
            /\ view' = [view EXCEPT ![b].late = listing.late]
            /\ s' = IF listing.ok THEN [s EXCEPT !.next = @ + 1] ELSE Answered(s, "450")
  /\ UNCHANGED <<bound, sites, daemon, thread, ill>>

\* Mutant of Room: what is used is not taken off.
RoomWhole(room, quota, usage) == IF quota > room THEN quota ELSE room

\* d_kbroom: the largest of the recipients' rooms.
Room(room, quota, usage) == IF quota - usage > room THEN quota - usage ELSE room

\* The usage is of what the backends that are up have listed: of messages that are
\* nowhere else, those of the others are missing.
Measured(r) ==
  /\ At("listing") /\ r \in s.todo /\ s.next > Len(Table)
  /\ \E usage \in bound.usages, failed \in {FALSE, MayFail} :
       LET listed == Quota[r] - usage
       IN InSession([s EXCEPT !.pc = "announcing", !.todo = @ \ {r}, !.next = 1,
                              !.room = Room(@, Quota[r], usage),
                              !.best = IF listed > @ THEN listed ELSE @,
                              !.degraded = @ \/ failed])

\* Too large for the room, or for the server, as announced with SIZE=: 552, and the
\* session and its talkers stay as they are.
Oversized == \/ s.room <= 0
             \/ s.size # 0 /\ s.size > s.room
             \/ s.size # 0 /\ MaxMsgKb # 0 /\ s.size > MaxMsgKb

StartData ==
  /\ (At("announcing") /\ s.todo = {}) \/ At("starting")
  /\ \E failed \in {FALSE, MayFail} :
       InSession(IF s.degraded \/ failed THEN Answered([s EXCEPT !.degraded = TRUE], "450")
                 ELSE IF s.talkers = 0 THEN Answered(s, "450")
                 ELSE IF s.needed /\ Oversized THEN Answered(s, "552")
                 ELSE [s EXCEPT !.pc = "data"])

-----------------------------------------------------------------------------
(* The data: eatDataLine.                                                  *)

Kb(lines) == lines \div 2

Dropped(lines, room) == Kb(lines) >= room

\* Mutant of AddLine: whether there is a quota is not looked at.
AddLineAlways == /\ At("data") /\ s.lines < bound.lines
                 /\ InSession([s EXCEPT !.lines = @ + 1, !.dropped = @ \/ Dropped(s.lines, s.room)])

AddLine == /\ At("data") /\ s.lines < bound.lines
           /\ InSession([s EXCEPT !.lines = @ + 1,
                                  !.dropped = @ \/ (s.needed /\ Dropped(s.lines, s.room))])

TooLarge == \/ s.needed /\ Kb(s.lines) > s.room
            \/ MaxMsgKb # 0 /\ Kb(s.lines) > MaxMsgKb

\* The dot.  A full backend does not commit.  If no talker commits the session is
\* left as it is.
EndOfData ==
  /\ At("data")
  /\ \/ TooLarge /\ InSession(Reset("552"))
     \/ ~TooLarge /\ ~s.degraded /\ (\A b \in s.chosen : status[b] \in {"well", "slow"})
        /\ InSession(Reset("250"))
     \/ ~TooLarge /\ MayFail /\ InSession(Reset("450"))
     \/ ~TooLarge /\ MayFail /\ InSession(Answered([s EXCEPT !.degraded = TRUE], "450"))

-----------------------------------------------------------------------------
Session == \/ MailFrom \/ RcptForward \/ Rset \/ HangUp \/ Data
           \/ Select \/ Connect \/ ListAt \/ StartData \/ AddLine \/ EndOfData
           \/ \E r \in Mailbox : RcptMailbox(r) \/ AddRecipient(r) \/ Measured(r)

Administrator == Start \/ Serve \/ Stop \/ \E b \in Backend : Block(b)

Next == \/ StateThread \/ Session \/ Administrator \/ Exit
        \/ \E b \in Backend, st \in Status : BackendBecomes(b, st)

\* The state thread runs, and a session goes on in DATA.
Fairness == WF_vars(StateThread) /\ WF_vars(Select \/ Connect)

Spec == Init /\ [][Next]_vars /\ Fairness

-----------------------------------------------------------------------------
(* What must hold.                                                         *)

Selects == s.pc = "waiting" /\ s'.pc = "connecting"

\* "Data is always stored on the highest-priority available host", and backends of
\* a group "do not generate redundancy": what openStorage selects is at most one
\* backend of a group, each up and writable in the copy, none passed over that is
\* better, and too few only if every group that has any is represented.
ChosenWell ==
  [][Selects =>
       LET chosen == s'.chosen IN
       /\ \A b \in chosen, c \in Backend :
            /\ Writable(view, b)
            /\ GroupOf[b] = GroupOf[c] /\ Writable(view, c) =>
                 (b = c \/ (c \notin chosen /\ PriorityOf[b] <= PriorityOf[c]))
       /\ Cardinality(chosen) < Redundancy =>
            \A c \in Backend : Writable(view, c) => GroupOf[c] \in GroupsOf(chosen)]_vars

\* A message is refused for want of backends only if one of them has been away,
\* slow, full or blocked since the daemon began: a client that is there before the
\* state thread has seen the backends waits for it.
RefusedForCause ==
  [][s.pc = "connecting" /\ ~s.degraded /\ s'.answer = "450" /\ s'.pc = "command"
     /\ Cardinality(GroupsOf(Backend)) >= Redundancy => ill]_vars

\* A backend that is blocked, and stays so, is selected no more after some time, also
\* if sessions have left answers unread on the connection it is pinged by while it
\* was slow, and each of them leaves as many as it found: a "stat" ends that.
BlockedLeftAlone ==
  \A b \in Backend : <>[](blocked[b] /\ status[b] # "slow") =>
                       <>[][Selects => b \notin s'.chosen]_vars

\* A session that waits for the first round to be over goes on, whatever becomes of
\* the backends in that round, or goes with the process.
WaitEnds == []<>(s.pc # "waiting")

\* A backend that is well and not blocked, and stays so, is up and writable in the
\* view after some time, if the daemon serves.
BackAgain ==
  \A b \in Backend : <>[](proc = "serving" /\ status[b] = "well" /\ ~blocked[b]) =>
                       <>[](view[b].up /\ ~view[b].readonly)

Usable(b) == status[b] = "well" /\ ~blocked[b]

\* When the backends stay as they are, well or away, with Redundancy groups that have
\* one that is well and not blocked, then after some time every session that opens
\* storage finds it.
ServesAgain ==
  <>[](/\ proc = "serving" /\ \A b \in Backend : status[b] \in {"well", "gone"}
       /\ Cardinality(GroupsOf({b \in Backend : Usable(b)})) >= Redundancy) =>
    <>[][s.pc = "connecting" /\ ~s.degraded => s'.answer # "450"]_vars

Accepts == s.pc = "data" /\ s'.pc = "command" /\ s'.answer = "250"

\* A message that is accepted was stored whole, whatever its quota: no line of it was
\* dropped.  The exception is a message that exactly fills the room to the kilobyte.
AcceptedWhole == [][Accepts => ~s.dropped \/ Kb(s.lines) = s.room]_vars

\* powermail.sgml:1944: "a message is accepted if at least *one* of the recipients has
\* enough room in his mailbox": when it is accepted it fits the room that was listed
\* for one of its recipients, or one has no quota; over retries of DATA and messages
\* before it.  The exception: a DATA for forwards alone, which gives up the quota for
\* recipients that are added when it has failed.
WithinRoom ==
  [][Accepts => \/ s.rcpts = {} \/ s.waived
                \/ \E r \in s.rcpts : Quota[r] = 0
                \/ Kb(s.lines) <= s.best]_vars
=============================================================================
