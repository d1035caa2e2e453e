------------------------------ MODULE PowerPop ------------------------------
(***************************************************************************)
(* Reading mail: the POP sessions of one powerpop process, its state       *)
(* thread, and the table of backends they share (MegaTalker::s_targets).   *)
(* A backend's entry holds one connection, the PPTalker all of them use,   *)
(* under the entry's lock: what is done with one backend is one step here, *)
(* and sessions and the state thread interleave between backends.          *)
(*                                                                         *)
(* A request that times out leaves its answer to be read by the next one.  *)
(* A deletion a backend does not hear of is left in its failure log, for   *)
(* the state thread to replay when the backend comes back.                 *)
(***************************************************************************)
EXTENDS Naturals, Sequences, FiniteSets, SequencesExt

CONSTANTS Backend,   \* s_targets
          Client,    \* POP sessions that may be open at once
          Msg,       \* the names of the messages of one mailbox
          Junk,      \* a name that is not that of a message
          NoMsg,     \* no line to replay in a failure log
          LogMayFail,\* whether opening a failure log can fail
          MaxLate    \* bound: lines a connection may be behind

ASSUME PopAssumption == /\ IsFiniteSet(Msg)
                        /\ NoMsg \notin Msg /\ MaxLate \in Nat /\ LogMayFail \in BOOLEAN
                        /\ Junk \notin Msg /\ NoMsg # Junk
                        /\ Msg \cap {"ok", "err", "."} = {}

VARIABLES
  alive,     \* which backends run (pplistener)
  stored,    \* the messages each has in the mailbox
  up,        \* TargetData::up
  talker,    \* TargetData::pp_talker
  log,       \* the failure log of a backend, in s_statedir
  phase,     \* where a session is
  left,      \* backends a session's getMsgs or delMsg has still to visit
  view,      \* names a session has listed: PopSession::d_msgData
  marked,    \* those with d_deleted
  todo,      \* those delDeleted has still to delete
  asked,     \* history: names a client gave QUIT with
  expunged   \* history: names of which a client was told +OK to QUIT

backends == <<alive, stored>>
targets == <<up, talker, log>>
sessions == <<phase, left, view, marked, todo>>
history == <<asked, expunged>>
vars == <<alive, stored, up, talker, log, phase, left, view, marked, todo, asked, expunged>>

\* A line of an answer: a status, a message of a listing, or the listing's end.
Line == {"ok", "err", "."} \cup Msg

\* What a line of a listing is taken for: a status line is taken for a message too.
Name == Msg \cup {Junk}
\* Mutant of NameIn: a line of a listing is taken for what it is.
NameInVerbatim(line) == line

NameIn(line) == IF line \in Msg THEN line ELSE Junk

\* linked: the other end of the connection is there.  late: lines not yet read.
Talker == [open : BOOLEAN, linked : BOOLEAN, late : Seq(Line)]
NoTalker == [open |-> FALSE, linked |-> FALSE, late |-> <<>>]

\* "listing": in getMsgs; "unscanned": it failed; "expunging": in delDeleted.
Phase == {"out", "listing", "unscanned", "ready", "expunging"}

TypeOK == /\ alive \in [Backend -> BOOLEAN] /\ stored \in [Backend -> SUBSET Msg]
          /\ up \in [Backend -> BOOLEAN]
          /\ talker \in [Backend -> Talker]
          /\ log \in [Backend -> Name \cup {NoMsg}]
          /\ phase \in [Client -> Phase] /\ left \in [Client -> SUBSET Backend]
          /\ view \in [Client -> SUBSET Name] /\ marked \in [Client -> SUBSET Name]
          /\ todo \in [Client -> SUBSET Name]
          /\ asked \in SUBSET Msg /\ expunged \in SUBSET Msg

SessionOut == [c \in Client |-> "out"]
Nothing == [c \in Client |-> {}]

\* Any mailbox powersmtp and the sites' failures can have left behind.
Init == /\ alive = [b \in Backend |-> TRUE]
        /\ stored \in [Backend -> SUBSET Msg]
        /\ up = [b \in Backend |-> FALSE]
        /\ talker = [b \in Backend |-> NoTalker]
        /\ log = [b \in Backend |-> NoMsg]
        /\ phase = SessionOut /\ left = Nothing /\ view = Nothing
        /\ marked = Nothing /\ todo = Nothing
        /\ asked = {} /\ expunged = {}

-----------------------------------------------------------------------------
(* Requests on a connection: what the backend answers goes behind what is  *)
(* still unread, and some of it arrives before the timeout.                *)

Unread(t, answer) == IF t.linked THEN t.late \o answer ELSE t.late

Reading(t, rest) == [t EXCEPT !.late = rest]

\* A one-line answer: the first unread line is taken for it.
Replies(t, answer) ==
  LET lines == Unread(t, answer) IN
  {[ok |-> FALSE, talker |-> Reading(t, lines)]} \cup
  {[ok |-> lines[1] = "ok", talker |-> Reading(t, Tail(lines))] : n \in DOMAIN lines \cap {1}}

\* getMsgs: a status line, then lines up to "."; n lines arrive.
Listings(t, answer) ==
  LET lines == Unread(t, answer)
      End(n) == {k \in 2..n : lines[k] = "."}
      First(S) == CHOOSE k \in S : \A j \in S : k <= j
      After(n) == IF n = 0 THEN lines
                  ELSE IF lines[1] # "ok" THEN Tail(lines)
                  ELSE IF End(n) = {} THEN SubSeq(lines, n + 1, Len(lines))
                  ELSE SubSeq(lines, First(End(n)) + 1, Len(lines))
      Ok(n) == n # 0 /\ lines[1] = "ok" /\ End(n) # {}
  IN {[ok |-> Ok(n), talker |-> Reading(t, After(n)),
       names |-> IF Ok(n) THEN {NameIn(lines[k]) : k \in 2..(First(End(n)) - 1)} ELSE {}]
        : n \in 0..Len(lines)}

Skipped(t) == [ok |-> TRUE, talker |-> t, names |-> {}]

\* The backend's answer to "ls": its messages, and a dot.
ListAnswer(b) == <<"ok">> \o SetToSeq(stored[b]) \o <<".">>

\* "del m" at b: whether the file is there or not, unless unlink fails.
Deletes(b, m) ==
  {[stored |-> stored[b] \ {m}, answer |-> <<"ok">>]} \cup
  {[stored |-> stored[b], answer |-> <<"err">>] : x \in stored[b] \cap {m}}

\* "del m" over the connection t: only a backend that is linked does it.
Deletions(b, t, m) ==
  IF t.linked
    THEN UNION {{[stored |-> d.stored, reply |-> r] : r \in Replies(t, d.answer)} : d \in Deletes(b, m)}
    ELSE {[stored |-> stored[b], reply |-> r] : r \in Replies(t, <<>>)}

Bounded(t) == Len(t.late) <= MaxLate

-----------------------------------------------------------------------------
(* Backends come and go.                                                   *)

Kill(b) == /\ alive[b]
           /\ alive' = [alive EXCEPT ![b] = FALSE]
           /\ talker' = [talker EXCEPT ![b].linked = FALSE]
           /\ UNCHANGED <<stored, up, log, sessions, history>>

Restart(b) == /\ ~alive[b]
              /\ alive' = [alive EXCEPT ![b] = TRUE]
              /\ UNCHANGED <<stored, targets, sessions, history>>

-----------------------------------------------------------------------------
(* The process: doStateThread, and its end.                                *)

\* The process is gone, and started again: its logs are what it remembers.
Reborn == /\ up' = [b \in Backend |-> FALSE]
          /\ talker' = [b \in Backend |-> NoTalker]
          /\ phase' = SessionOut /\ left' = Nothing /\ view' = Nothing
          /\ marked' = Nothing /\ todo' = Nothing
          /\ UNCHANGED <<log, backends, history>>

\* "control stop", or the end of the process for another reason.
Stop == (\E c \in Client : phase[c] # "out") /\ Reborn

\* Mutant of CheckUp: a backend that fails its ping is not marked down.
CheckUpForgets(b) ==
  /\ up[b] /\ talker[b].open
  /\ \E r \in Replies(talker[b], <<"ok">>) :
       /\ Bounded(r.talker)
       /\ talker' = [talker EXCEPT ![b] = IF r.ok THEN r.talker ELSE NoTalker]
       /\ UNCHANGED <<up, log, backends, sessions, history>>

\* A ping of a backend that is up: a failure takes it down.  Closing its connection
\* says "quit" first, and throws when the connection is broken: nothing catches
\* that, and the process ends.
CheckUp(b) ==
  /\ up[b] /\ talker[b].open
  /\ \E r \in Replies(talker[b], <<"ok">>) :
       \/ /\ r.ok /\ Bounded(r.talker)
          /\ talker' = [talker EXCEPT ![b] = r.talker]
          /\ UNCHANGED <<up, log, backends, sessions, history>>
       \/ /\ ~r.ok
          /\ up' = [up EXCEPT ![b] = FALSE]
          /\ talker' = [talker EXCEPT ![b] = NoTalker]
          /\ UNCHANGED <<log, backends, sessions, history>>
       \/ ~r.ok /\ ~talker[b].linked /\ Reborn

\* playbackLog, on the connection t: the log goes when its line was answered +OK.
Playback(b, t) ==
  IF log[b] = NoMsg
    THEN talker' = [talker EXCEPT ![b] = t] /\ UNCHANGED <<log, stored>>
    ELSE \E d \in Deletions(b, t, log[b]) :
           /\ talker' = [talker EXCEPT ![b] = d.reply.talker]
           /\ stored' = [stored EXCEPT ![b] = d.stored]
           /\ log' = IF d.reply.ok THEN [log EXCEPT ![b] = NoMsg] ELSE log

Fresh == [open |-> TRUE, linked |-> TRUE, late |-> <<>>]

\* Mutant of CheckDown: the connection of an earlier attempt is used again.
CheckDownReuses(b) ==
  /\ ~up[b] /\ alive[b]
  /\ \E r \in Replies(IF talker[b].linked THEN talker[b] ELSE Fresh, <<"ok">>) :
       \/ /\ ~r.ok /\ talker' = [talker EXCEPT ![b] = r.talker] /\ Bounded(r.talker)
          /\ UNCHANGED <<up, log, backends, sessions, history>>
       \/ /\ r.ok
          /\ up' = [up EXCEPT ![b] = TRUE]
          /\ Playback(b, r.talker)
          /\ UNCHANGED <<alive, sessions, history>>

\* A backend that is down: connect, ping, and replay its log before it is up for
\* others; that is one step, the entry's lock being held.  An old connection is
\* closed first, which may throw.  A ping that fails leaves the new one behind.
CheckDown(b) ==
  /\ ~up[b]
  /\ \/ talker[b].open /\ ~talker[b].linked /\ Reborn
     \/ /\ talker[b].open
        /\ talker' = [talker EXCEPT ![b] = NoTalker]
        /\ UNCHANGED <<up, log, backends, sessions, history>>
     \/ /\ alive[b]
        /\ \E r \in Replies(Fresh, <<"ok">>) :
             \/ /\ ~r.ok /\ talker' = [talker EXCEPT ![b] = r.talker]
                /\ UNCHANGED <<up, log, backends, sessions, history>>
             \/ /\ r.ok
                /\ up' = [up EXCEPT ![b] = TRUE]
                /\ Playback(b, r.talker)
                /\ UNCHANGED <<alive, sessions, history>>

-----------------------------------------------------------------------------
(* A POP session.                                                          *)

\* PASS or APOP, and each command after a listing that failed: getMsgs begins.
\* It does not wait until the state thread has seen the backends.
Login(c) == /\ phase[c] \in {"out", "unscanned"}
            /\ phase' = [phase EXCEPT ![c] = "listing"]
            /\ left' = [left EXCEPT ![c] = Backend]
            /\ view' = [view EXCEPT ![c] = {}]
            /\ UNCHANGED <<backends, targets, marked, todo, history>>

\* getMsgs at b: one that is down is skipped, one that fails ends the listing.
ListAt(c, b) ==
  /\ phase[c] = "listing" /\ b \in left[c]
  /\ \E r \in IF up[b] THEN Listings(talker[b], ListAnswer(b)) ELSE {Skipped(talker[b])} :
       /\ talker' = [talker EXCEPT ![b] = r.talker] /\ Bounded(r.talker)
       /\ left' = [left EXCEPT ![c] = IF r.ok THEN @ \ {b} ELSE {}]
       /\ view' = [view EXCEPT ![c] = IF r.ok THEN @ \cup r.names ELSE {}]
       /\ phase' = [phase EXCEPT ![c] = IF ~r.ok THEN "unscanned"
                                        ELSE IF left'[c] = {} THEN "ready" ELSE @]
  /\ UNCHANGED <<backends, up, log, marked, todo, history>>

Dele(c, m) == /\ phase[c] = "ready" /\ m \in view[c] \ marked[c]
              /\ marked' = [marked EXCEPT ![c] = @ \cup {m}]
              /\ UNCHANGED <<backends, targets, phase, left, view, todo, history>>

Rset(c) == /\ phase[c] = "ready" /\ marked[c] # {}
           /\ marked' = [marked EXCEPT ![c] = {}]
           /\ UNCHANGED <<backends, targets, phase, left, view, todo, history>>

\* delDeleted begins, and ends here when nothing is marked.
Expunge(c) ==
  /\ phase[c] \in {"ready", "unscanned"}
  /\ phase' = [phase EXCEPT ![c] = IF marked[c] = {} THEN "out" ELSE "expunging"]
  /\ todo' = [todo EXCEPT ![c] = marked[c]]
  /\ left' = [left EXCEPT ![c] = IF marked[c] = {} THEN {} ELSE Backend]
  /\ view' = [view EXCEPT ![c] = IF marked[c] = {} THEN {} ELSE @]
  /\ UNCHANGED <<backends, targets, marked, expunged>>

\* QUIT.
Quit(c) == Expunge(c) /\ asked' = asked \cup (marked[c] \cap Msg)

\* Mutant of HangUp: a session that ends without QUIT deletes what it marked.
HangUpExpunges(c) == Expunge(c) /\ UNCHANGED asked

\* The connection of a client is lost, or silent for too long.
HangUp(c) == /\ phase[c] \in {"unscanned", "ready"}
             /\ phase' = [phase EXCEPT ![c] = "out"]
             /\ view' = [view EXCEPT ![c] = {}] /\ marked' = [marked EXCEPT ![c] = {}]
             /\ UNCHANGED <<backends, targets, left, todo, history>>

\* storeFailure opens the log anew: the line in it is replaced.  When that fails
\* the deletion is forgotten.
StoreFailure(b, m) == log' = [log EXCEPT ![b] = m] \/ (LogMayFail /\ UNCHANGED log)

\* The message being deleted: delDeleted goes through them in the order of names.
Current(c) == SetToSeq(todo[c])[1]

\* delMsg at b, which goes on whatever b answers; then the next message; and when
\* all were broadcast "+OK", and the session ends.
DelAt(c, b) ==
  /\ phase[c] = "expunging" /\ b \in left[c]
  /\ \/ ~up[b] /\ StoreFailure(b, Current(c)) /\ UNCHANGED <<stored, talker>>
     \/ /\ up[b]
        /\ \E d \in Deletions(b, talker[b], Current(c)) :
             /\ talker' = [talker EXCEPT ![b] = d.reply.talker] /\ Bounded(d.reply.talker)
             /\ stored' = [stored EXCEPT ![b] = d.stored]
             /\ IF d.reply.ok THEN UNCHANGED log ELSE StoreFailure(b, Current(c))
  /\ LET rest == IF left[c] = {b} THEN todo[c] \ {Current(c)} ELSE todo[c]
         over == rest = {}
     IN /\ todo' = [todo EXCEPT ![c] = rest]
        /\ left' = [left EXCEPT ![c] = IF over THEN {} ELSE IF rest # todo[c] THEN Backend ELSE @ \ {b}]
        /\ phase' = [phase EXCEPT ![c] = IF over THEN "out" ELSE @]
        /\ view' = [view EXCEPT ![c] = IF over THEN {} ELSE @]
        /\ marked' = [marked EXCEPT ![c] = IF over THEN {} ELSE @]
        /\ expunged' = IF over THEN expunged \cup (marked[c] \cap Msg) ELSE expunged
  /\ UNCHANGED <<alive, up, asked>>

SessionNext(c) == \/ Login(c) \/ Rset(c) \/ Quit(c) \/ HangUp(c)
                  \/ \E b \in Backend : ListAt(c, b) \/ DelAt(c, b)
                  \/ \E m \in Name : Dele(c, m)

Next == \/ \E b \in Backend : Kill(b) \/ Restart(b) \/ CheckUp(b) \/ CheckDown(b)
        \/ \E c \in Client : SessionNext(c)
        \/ Stop

Spec == Init /\ [][Next]_vars

-----------------------------------------------------------------------------
(* What must hold.                                                         *)

\* A backend that is up has a connection: getMsgs and delMsg use it unseen.
UpIsConnected == \A b \in Backend : up[b] => talker[b].open

\* A message goes from a backend only when a client gave QUIT with it marked: not
\* by RSET, a lost connection, a session that is aborted, or a replay.
OnlyAskedGone == [][\A b \in Backend : stored[b] \ stored'[b] \subseteq asked]_vars

\* powermail.sgml:1259: "When a backend comes online again, these deletions are
\* first replayed before messages are made available to users again": when a
\* backend comes up, the deletion in its log is done there, or is still logged.
ReplayedOrKept ==
  [][\A b \in Backend : ~up[b] /\ up'[b] /\ log[b] # NoMsg
        => log[b] \notin stored'[b] \/ log'[b] = log[b]]_vars

\* powermail.sgml:1254: powerpop "stores a failure log per backend which stores
\* failed deletions", so that messages do not reappear: once +OK is said, a message
\* is gone from a backend, or its deletion is in the backend's log.
DeletionKept ==
  \A m \in expunged : \A b \in Backend : m \in stored[b] => log[b] = m

\* megatalker.hh: getMsgs retrieves "all messages for a certain mbox": each name
\* listed is a message.
ListedReal == \A c \in Client : view[c] \subseteq Msg

=============================================================================
