--------------------------- MODULE PowerPopProofs ---------------------------
(***************************************************************************)
(* Proofs about PowerPop, for any backends, any sessions, any messages and *)
(* any number of late answers.                                             *)
(*                                                                         *)
(* That a message goes only when it was asked for is not inductive: the    *)
(* name that is deleted comes from what a session has still to delete or   *)
(* from the log of a backend, where some session left it much earlier.     *)
(***************************************************************************)
EXTENDS PowerPop, SetLemmas

\* Whatever is to be deleted, now or by a replay, some client gave QUIT with; and a
\* session that is in delDeleted has something to delete.
OnlyAsked == /\ \A c \in Client : todo[c] \subseteq asked \cup {Junk}
             /\ \A c \in Client : phase[c] = "expunging" => todo[c] # {}
             /\ \A b \in Backend : log[b] \in asked \cup {Junk, NoMsg}

IInv == TypeOK /\ UpIsConnected /\ OnlyAsked

-----------------------------------------------------------------------------
(* Requests on a connection.                                               *)

\* What has not been read is lines.
LEMMA UnreadLines ==
  ASSUME NEW t \in Talker, NEW answer \in Seq(Line)
  PROVE  Unread(t, answer) \in Seq(Line)
<1>1. t.late \in Seq(Line)
  BY DEF Talker
<1> QED BY <1>1, ConcatProperties DEF Unread

\* A connection stays a connection, as open as it was, whatever was read.
LEMMA ReadingTalker ==
  ASSUME NEW t \in Talker, NEW rest \in Seq(Line)
  PROVE  /\ Reading(t, rest) \in Talker /\ Reading(t, rest).open = t.open
         /\ Reading(t, rest).linked = t.linked /\ Reading(t, rest).late = rest
BY DEF Reading, Talker

\* A reply is what the first unread line says, if any line comes.
LEMMA ReplyIs ==
  ASSUME NEW t, NEW answer, NEW r \in Replies(t, answer)
  PROVE  \/ r.ok = FALSE /\ r.talker = Reading(t, Unread(t, answer))
         \/ /\ 1 \in DOMAIN Unread(t, answer)
            /\ r.ok = (Unread(t, answer)[1] = "ok")
            /\ r.talker = Reading(t, Tail(Unread(t, answer)))
<1> DEFINE lines == Unread(t, answer)
<1>1. \/ r = [ok |-> FALSE, talker |-> Reading(t, lines)]
      \/ /\ 1 \in DOMAIN lines
         /\ r = [ok |-> lines[1] = "ok", talker |-> Reading(t, Tail(lines))]
  BY DEF Replies
<1> QED BY <1>1

LEMMA ReplyType ==
  ASSUME NEW t \in Talker, NEW answer \in Seq(Line), NEW r \in Replies(t, answer)
  PROVE  r.ok \in BOOLEAN /\ r.talker \in Talker /\ r.talker.open = t.open
<1> DEFINE lines == Unread(t, answer)
           rest == Tail(lines)
<1>1. lines \in Seq(Line)
  BY UnreadLines
<1>2. \/ r.ok = FALSE /\ r.talker = Reading(t, lines)
      \/ 1 \in DOMAIN lines /\ r.ok = (lines[1] = "ok") /\ r.talker = Reading(t, rest)
  BY ReplyIs
<1>3. 1 \in DOMAIN lines => rest \in Seq(Line)
  BY <1>1, HeadTailProperties
<1> HIDE DEF lines, rest
<1>4. r.talker \in Talker /\ r.talker.open = t.open
  BY <1>1, <1>2, <1>3, ReadingTalker
<1>5. r.ok \in BOOLEAN
  BY <1>2
<1> QED BY <1>4, <1>5

\* Taking lines off the front of what is unread leaves lines.
LEMMA RestOfLines ==
  ASSUME NEW lines \in Seq(Line), NEW k \in Nat \ {0}
  PROVE  SubSeq(lines, k, Len(lines)) \in Seq(Line)
<1>1. Len(lines) \in Nat /\ \A i \in 1..Len(lines) : lines[i] \in Line
  BY LenProperties, ElementOfSeq
<1>2. \A i \in k..Len(lines) : lines[i] \in Line
  BY <1>1
<1> QED BY <1>1, <1>2, SubSeqProperties

LEMMA ListingType ==
  ASSUME NEW t \in Talker, NEW answer \in Seq(Line), NEW r \in Listings(t, answer)
  PROVE  r.ok \in BOOLEAN /\ r.talker \in Talker /\ r.talker.open = t.open /\ r.names \subseteq Name
<1> DEFINE lines == Unread(t, answer)
           Dots(n) == {k \in 2..n : lines[k] = "."}
           FirstOf(S) == CHOOSE k \in S : \A j \in S : k <= j
           After(n) == IF n = 0 THEN lines
                       ELSE IF lines[1] # "ok" THEN Tail(lines)
                       ELSE IF Dots(n) = {} THEN SubSeq(lines, n + 1, Len(lines))
                       ELSE SubSeq(lines, FirstOf(Dots(n)) + 1, Len(lines))
           Ok(n) == n # 0 /\ lines[1] = "ok" /\ Dots(n) # {}
           Names(n) == IF Ok(n) THEN {NameIn(lines[k]) : k \in 2..(FirstOf(Dots(n)) - 1)} ELSE {}
<1>1. lines \in Seq(Line)
  BY UnreadLines
<1>2. PICK n \in 0..Len(lines) :
         r = [ok |-> Ok(n), talker |-> Reading(t, After(n)), names |-> Names(n)]
  BY DEF Listings
<1>3. Len(lines) \in Nat /\ n \in Nat
  BY <1>1, LenProperties
<1>4. After(n) \in Seq(Line)
  <2>1. CASE n = 0
    BY <1>1, <2>1
  <2>2. CASE n # 0 /\ lines[1] # "ok"
    <3>1. lines # <<>>
      BY <1>1, <1>3, <2>2, EmptySeq
    <3> QED BY <1>1, <2>2, <3>1, HeadTailProperties
  <2>3. CASE n # 0 /\ lines[1] = "ok" /\ Dots(n) = {}
    <3>1. SubSeq(lines, n + 1, Len(lines)) \in Seq(Line)
      BY <1>1, <1>3, RestOfLines
    <3> QED BY <2>3, <3>1
  <2>4. CASE n # 0 /\ lines[1] = "ok" /\ Dots(n) # {}
    <3>1. Dots(n) \in SUBSET Nat
      OBVIOUS
    <3>2. FirstOf(Dots(n)) \in Dots(n)
      BY <2>4, <3>1, Least
    <3>3. FirstOf(Dots(n)) + 1 \in Nat \ {0}
      BY <3>1, <3>2
    <3>4. SubSeq(lines, FirstOf(Dots(n)) + 1, Len(lines)) \in Seq(Line)
      BY <1>1, <3>3, RestOfLines
    <3> QED BY <2>4, <3>4
  <2> QED BY <2>1, <2>2, <2>3, <2>4
<1>5. Names(n) \subseteq Name
  BY DEF NameIn, Name
<1>6. Ok(n) \in BOOLEAN
  OBVIOUS
<1> HIDE DEF After, Names, Ok
<1> QED BY <1>2, <1>4, <1>5, <1>6, ReadingTalker

\* What a backend lists is lines.
LEMMA ListAnswerType ==
  ASSUME TypeOK, NEW b \in Backend
  PROVE  ListAnswer(b) \in Seq(Line)
<1>1. stored[b] \in SUBSET Msg
  BY DEF TypeOK
<1>2. IsFiniteSet(stored[b])
  BY <1>1, PopAssumption, FS_Subset
<1>3. SetToSeq(stored[b]) \in Seq(stored[b])
  BY <1>2, SeqOfSet
<1>4. SetToSeq(stored[b]) \in Seq(Line)
  BY <1>1, <1>3, SeqMonotonic DEF Line
<1>5. <<"ok">> \in Seq(Line) /\ <<".">> \in Seq(Line)
  BY DEF Line
<1> QED BY <1>4, <1>5, ConcatProperties DEF ListAnswer

\* A backend says +OK to a deletion it has done, and to no other.
LEMMA DeleteIs ==
  ASSUME NEW b, NEW m, NEW e \in Deletes(b, m)
  PROVE  \/ e.stored = stored[b] \ {m} /\ e.answer = <<"ok">>
         \/ e.stored = stored[b] /\ e.answer = <<"err">>
BY DEF Deletes

\* A deletion takes from a backend at most the message it names, and leaves its
\* connection one.
LEMMA DeletionType ==
  ASSUME TypeOK, NEW b \in Backend, NEW t \in Talker, NEW m, NEW d \in Deletions(b, t, m)
  PROVE  /\ d.stored \subseteq stored[b] /\ stored[b] \ d.stored \subseteq {m}
         /\ d.reply.ok \in BOOLEAN /\ d.reply.talker \in Talker /\ d.reply.talker.open = t.open
<1>1. <<"ok">> \in Seq(Line) /\ <<"err">> \in Seq(Line) /\ <<>> \in Seq(Line)
  BY DEF Line
<1>2. CASE t.linked
  <2>1. PICK e \in Deletes(b, m) : \E r \in Replies(t, e.answer) : d = [stored |-> e.stored, reply |-> r]
    BY <1>2 DEF Deletions
  <2>2. PICK r \in Replies(t, e.answer) : d = [stored |-> e.stored, reply |-> r]
    BY <2>1
  <2>3. e.stored \subseteq stored[b] /\ stored[b] \ e.stored \subseteq {m}
    BY DeleteIs
  <2>4. e.answer \in Seq(Line)
    BY <1>1, DeleteIs
  <2> QED BY <2>2, <2>3, <2>4, ReplyType
<1>3. CASE ~t.linked
  <2>1. PICK r \in Replies(t, <<>>) : d = [stored |-> stored[b], reply |-> r]
    BY <1>3 DEF Deletions
  <2> QED BY <1>1, <2>1, ReplyType
<1> QED BY <1>2, <1>3

\* On a connection with nothing unread, +OK is the backend's answer: it has deleted.
LEMMA FreshDeletion ==
  ASSUME NEW b \in Backend, NEW t, t.linked, t.late = <<>>,
         NEW m, NEW d \in Deletions(b, t, m), d.reply.ok
  PROVE  m \notin d.stored
<1>1. PICK e \in Deletes(b, m) : \E r \in Replies(t, e.answer) : d = [stored |-> e.stored, reply |-> r]
  BY DEF Deletions
<1>2. PICK r \in Replies(t, e.answer) : d = [stored |-> e.stored, reply |-> r]
  BY <1>1
<1>3. r.ok /\ e.stored = d.stored
  BY <1>2
<1>4. CASE e.stored = stored[b] \ {m}
  BY <1>3, <1>4
<1>5. CASE e.answer = <<"err">>
  <2>1. Unread(t, e.answer) = <<"err">>
    BY <1>5 DEF Unread
  <2>2. Unread(t, e.answer)[1] = "ok"
    BY <1>3, ReplyIs
  <2> QED BY <2>1, <2>2
<1> QED BY <1>4, <1>5, DeleteIs

-----------------------------------------------------------------------------
(* The backends and the process.                                           *)

LEMMA NoTalkerType == NoTalker \in Talker /\ ~NoTalker.open
<1>1. <<>> \in Seq(Line)
  BY EmptySeq
<1> QED BY <1>1 DEF NoTalker, Talker

LEMMA FreshType == Fresh \in Talker /\ Fresh.open /\ Fresh.linked /\ Fresh.late = <<>>
<1>1. <<>> \in Seq(Line)
  BY EmptySeq
<1> QED BY <1>1 DEF Fresh, Talker

LEMMA OkAnswer == <<"ok">> \in Seq(Line)
BY DEF Line

LEMMA KillStep == ASSUME IInv, NEW b \in Backend, Kill(b) PROVE IInv'
<1> USE DEF Kill, IInv, sessions, history
<1>0. talker[b] \in Talker
  BY DEF TypeOK
<1>1. [talker[b] EXCEPT !.linked = FALSE] \in Talker
  BY <1>0 DEF Talker
<1>2. talker' = [talker EXCEPT ![b] = [talker[b] EXCEPT !.linked = FALSE]]
  OBVIOUS
<1>3. TypeOK'
  BY <1>1, <1>2 DEF TypeOK
<1>4. UpIsConnected'
  BY <1>2 DEF TypeOK, UpIsConnected, Talker
<1>5. OnlyAsked'
  BY DEF OnlyAsked
<1> QED BY <1>3, <1>4, <1>5

LEMMA RestartStep == ASSUME IInv, NEW b \in Backend, Restart(b) PROVE IInv'
BY DEF Restart, IInv, TypeOK, UpIsConnected, OnlyAsked, targets, sessions, history

LEMMA RebornStep == ASSUME IInv, Reborn PROVE IInv'
<1> USE DEF Reborn, IInv, SessionOut, Nothing, backends, history
<1>1. TypeOK'
  BY NoTalkerType DEF TypeOK, Phase
<1>2. UpIsConnected' /\ OnlyAsked'
  BY DEF UpIsConnected, OnlyAsked
<1> QED BY <1>1, <1>2

\* A connection of a backend that is replaced by another, or by none if it is down.
LEMMA Reconnected ==
  ASSUME IInv, NEW b \in Backend, NEW t \in Talker, talker' = [talker EXCEPT ![b] = t],
         up' \in [Backend -> BOOLEAN], up'[b] => t.open, \A x \in Backend \ {b} : up'[x] = up[x],
         UNCHANGED <<alive, stored, log, phase, left, view, marked, todo, asked, expunged>>
  PROVE  IInv'
<1>1. TypeOK'
  BY DEF IInv, TypeOK
<1>2. UpIsConnected'
  BY DEF IInv, TypeOK, UpIsConnected
<1>3. OnlyAsked'
  BY DEF IInv, OnlyAsked
<1> QED BY <1>1, <1>2, <1>3 DEF IInv

LEMMA CheckUpStep == ASSUME IInv, NEW b \in Backend, CheckUp(b) PROVE IInv'
<1> USE DEF backends, sessions, history
<1>1. PICK r \in Replies(talker[b], <<"ok">>) :
       \/ /\ r.ok /\ Bounded(r.talker)
          /\ talker' = [talker EXCEPT ![b] = r.talker]
          /\ UNCHANGED <<up, log, backends, sessions, history>>
       \/ /\ ~r.ok
          /\ up' = [up EXCEPT ![b] = FALSE]
          /\ talker' = [talker EXCEPT ![b] = NoTalker]
          /\ UNCHANGED <<log, backends, sessions, history>>
       \/ ~r.ok /\ ~talker[b].linked /\ Reborn
  BY DEF CheckUp
<1>2. up \in [Backend -> BOOLEAN] /\ talker[b] \in Talker /\ talker[b].open
  BY DEF CheckUp, IInv, TypeOK
<1>3. r.talker \in Talker /\ r.talker.open
  BY <1>2, OkAnswer, ReplyType
<1>4. CASE talker' = [talker EXCEPT ![b] = r.talker] /\ UNCHANGED <<up, log, backends, sessions, history>>
  BY <1>2, <1>3, <1>4, Reconnected
<1>5. CASE /\ up' = [up EXCEPT ![b] = FALSE]
           /\ talker' = [talker EXCEPT ![b] = NoTalker]
           /\ UNCHANGED <<log, backends, sessions, history>>
  BY <1>2, <1>5, NoTalkerType, Reconnected
<1> QED BY <1>1, <1>4, <1>5, RebornStep

\* A backend comes up, and the deletion in its log is replayed.
LEMMA PlaybackStep ==
  ASSUME IInv, NEW b \in Backend, NEW t \in Talker, t.open, Playback(b, t),
         up' = [up EXCEPT ![b] = TRUE], UNCHANGED <<alive, sessions, history>>
  PROVE  /\ IInv'
         /\ \A x \in Backend : stored[x] \ stored'[x] \subseteq asked
<1> USE DEF sessions, history
<1>1. CASE log[b] = NoMsg
  <2>1. talker' = [talker EXCEPT ![b] = t] /\ UNCHANGED <<log, stored>>
    BY <1>1 DEF Playback
  <2>2. up' \in [Backend -> BOOLEAN] /\ \A x \in Backend \ {b} : up'[x] = up[x]
    BY DEF IInv, TypeOK
  <2>3. IInv'
    BY <2>1, <2>2, Reconnected
  <2> QED BY <2>1, <2>3
<1>2. CASE log[b] # NoMsg
  <2>1. PICK d \in Deletions(b, t, log[b]) :
           /\ talker' = [talker EXCEPT ![b] = d.reply.talker]
           /\ stored' = [stored EXCEPT ![b] = d.stored]
           /\ log' = IF d.reply.ok THEN [log EXCEPT ![b] = NoMsg] ELSE log
    BY <1>2 DEF Playback
  <2>2. /\ d.stored \subseteq stored[b] /\ stored[b] \ d.stored \subseteq {log[b]}
        /\ d.reply.talker \in Talker /\ d.reply.talker.open
    BY DeletionType DEF IInv
  <2>3. /\ log[b] \in asked \cup {Junk} /\ stored[b] \in SUBSET Msg
        /\ stored \in [Backend -> SUBSET Msg]
    BY <1>2 DEF IInv, OnlyAsked, TypeOK
  <2>4. stored[b] \ d.stored \subseteq asked
    BY <2>2, <2>3, PopAssumption
  <2>5. \A x \in Backend : stored[x] \ stored'[x] \subseteq asked
    BY <2>1, <2>3, <2>4
  <2>6. log' \in [Backend -> Name \cup {NoMsg}] /\ \A x \in Backend : log'[x] \in {log[x], NoMsg}
    BY <2>1 DEF IInv, TypeOK
  <2>7. TypeOK'
    BY <2>1, <2>2, <2>3, <2>6 DEF IInv, TypeOK
  <2>8. UpIsConnected'
    BY <2>1, <2>2 DEF IInv, TypeOK, UpIsConnected
  <2>9. OnlyAsked'
    BY <2>6 DEF IInv, OnlyAsked
  <2> QED BY <2>5, <2>7, <2>8, <2>9 DEF IInv
<1> QED BY <1>1, <1>2

\* What the state thread does with a backend that is down.
Asleep(b) == \/ Reborn
             \/ /\ talker' = [talker EXCEPT ![b] = NoTalker]
                /\ UNCHANGED <<up, log, backends, sessions, history>>
             \/ \E r \in Replies(Fresh, <<"ok">>) :
                  /\ talker' = [talker EXCEPT ![b] = r.talker]
                  /\ UNCHANGED <<up, log, backends, sessions, history>>

\* A ping over a new connection: +OK leaves nothing unread.
LEMMA Pinged ==
  ASSUME NEW r \in Replies(Fresh, <<"ok">>)
  PROVE  /\ r.talker \in Talker /\ r.talker.open
         /\ r.ok => r.talker.linked /\ r.talker.late = <<>>
<1>1. r.talker \in Talker /\ r.talker.open
  BY FreshType, OkAnswer, ReplyType
<1>2. Unread(Fresh, <<"ok">>) = <<"ok">>
  BY FreshType DEF Unread
<1>3. ASSUME r.ok
      PROVE  r.talker.linked /\ r.talker.late = <<>>
  <2>1. r.talker = Reading(Fresh, Tail(<<"ok">>))
    BY <1>2, <1>3, ReplyIs
  <2>2. Tail(<<"ok">>) = <<>>
    OBVIOUS
  <2>3. r.talker = Reading(Fresh, <<>>)
    BY <2>1, <2>2
  <2> QED BY <2>3 DEF Reading, Fresh
<1> QED BY <1>1, <1>3

LEMMA CheckDownCases ==
  ASSUME NEW b \in Backend, CheckDown(b)
  PROVE  \/ Asleep(b)
         \/ \E r \in Replies(Fresh, <<"ok">>) :
              /\ r.ok /\ up' = [up EXCEPT ![b] = TRUE]
              /\ Playback(b, r.talker)
              /\ UNCHANGED <<alive, sessions, history>>
BY DEF CheckDown, Asleep

LEMMA AsleepStep == ASSUME IInv, NEW b \in Backend, ~up[b], Asleep(b) PROVE IInv'
<1> USE DEF backends, sessions, history
<1>1. up \in [Backend -> BOOLEAN]
  BY DEF IInv, TypeOK
<1>2. CASE /\ talker' = [talker EXCEPT ![b] = NoTalker]
           /\ UNCHANGED <<up, log, backends, sessions, history>>
  BY <1>1, <1>2, NoTalkerType, Reconnected
<1>3. ASSUME NEW r \in Replies(Fresh, <<"ok">>),
             talker' = [talker EXCEPT ![b] = r.talker],
             UNCHANGED <<up, log, backends, sessions, history>>
      PROVE  IInv'
  BY <1>1, <1>3, Pinged, Reconnected
<1> QED BY <1>2, <1>3, RebornStep DEF Asleep

LEMMA CheckDownStep ==
  ASSUME IInv, NEW b \in Backend, CheckDown(b)
  PROVE  /\ IInv'
         /\ \A x \in Backend : stored[x] \ stored'[x] \subseteq asked
<1>1. ~up[b]
  BY DEF CheckDown
<1>2. CASE Asleep(b)
  <2>1. stored' = stored
    BY <1>2 DEF Asleep, Reborn, backends
  <2> QED BY <1>1, <1>2, <2>1, AsleepStep
<1>3. ASSUME NEW r \in Replies(Fresh, <<"ok">>), r.ok, up' = [up EXCEPT ![b] = TRUE],
             Playback(b, r.talker), UNCHANGED <<alive, sessions, history>>
      PROVE  /\ IInv'
             /\ \A x \in Backend : stored[x] \ stored'[x] \subseteq asked
  BY <1>3, Pinged, PlaybackStep
<1> QED BY <1>2, <1>3, CheckDownCases

-----------------------------------------------------------------------------
(* The sessions.                                                           *)

LEMMA LoginStep == ASSUME IInv, NEW c \in Client, Login(c) PROVE IInv'
<1> USE DEF Login, IInv, backends, targets, history
<1>1. TypeOK'
  BY DEF TypeOK, Phase
<1>2. UpIsConnected'
  BY DEF UpIsConnected
<1>3. OnlyAsked'
  BY DEF TypeOK, OnlyAsked
<1> QED BY <1>1, <1>2, <1>3

LEMMA DeleStep == ASSUME IInv, NEW c \in Client, NEW m \in Name, Dele(c, m) PROVE IInv'
BY DEF Dele, IInv, TypeOK, UpIsConnected, OnlyAsked, backends, targets, history

LEMMA RsetStep == ASSUME IInv, NEW c \in Client, Rset(c) PROVE IInv'
BY DEF Rset, IInv, TypeOK, UpIsConnected, OnlyAsked, backends, targets, history

LEMMA HangUpStep == ASSUME IInv, NEW c \in Client, HangUp(c) PROVE IInv'
BY DEF HangUp, IInv, TypeOK, Phase, UpIsConnected, OnlyAsked, backends, targets, history

LEMMA QuitStep == ASSUME IInv, NEW c \in Client, Quit(c) PROVE IInv'
<1> USE DEF Quit, Expunge, IInv, backends, targets
<1>1. /\ marked[c] \in SUBSET Name /\ asked \in SUBSET Msg
      /\ phase \in [Client -> Phase] /\ todo \in [Client -> SUBSET Name]
  BY DEF TypeOK
<1>2. TypeOK'
  BY <1>1 DEF TypeOK, Phase
<1>3. UpIsConnected'
  BY DEF UpIsConnected
<1>4. \A x \in Client : todo'[x] \subseteq asked' \cup {Junk}
  BY <1>1 DEF OnlyAsked, Name
<1>5. \A x \in Client : phase'[x] = "expunging" => todo'[x] # {}
  BY <1>1 DEF OnlyAsked
<1>6. \A b \in Backend : log'[b] \in asked' \cup {Junk, NoMsg}
  BY DEF OnlyAsked
<1> QED BY <1>2, <1>3, <1>4, <1>5, <1>6 DEF OnlyAsked

LEMMA ListAtStep == ASSUME IInv, NEW c \in Client, NEW b \in Backend, ListAt(c, b) PROVE IInv'
<1> USE DEF backends, history
<1>1. PICK r \in IF up[b] THEN Listings(talker[b], ListAnswer(b)) ELSE {Skipped(talker[b])} :
       /\ talker' = [talker EXCEPT ![b] = r.talker] /\ Bounded(r.talker)
       /\ left' = [left EXCEPT ![c] = IF r.ok THEN @ \ {b} ELSE {}]
       /\ view' = [view EXCEPT ![c] = IF r.ok THEN @ \cup r.names ELSE {}]
       /\ phase' = [phase EXCEPT ![c] = IF ~r.ok THEN "unscanned"
                                        ELSE IF left'[c] = {} THEN "ready" ELSE @]
  BY DEF ListAt
<1>2. UNCHANGED <<backends, up, log, marked, todo, history>> /\ phase[c] = "listing"
  BY DEF ListAt
<1>3. talker[b] \in Talker
  BY DEF IInv, TypeOK
<1>4. r.ok \in BOOLEAN /\ r.talker \in Talker /\ r.talker.open = talker[b].open /\ r.names \subseteq Name
  <2>1. CASE up[b]
    <3>1. ListAnswer(b) \in Seq(Line)
      BY ListAnswerType DEF IInv
    <3>2. r \in Listings(talker[b], ListAnswer(b))
      BY <1>1, <2>1
    <3> QED BY <1>3, <3>1, <3>2, ListingType
  <2>2. CASE ~up[b]
    <3>1. r = Skipped(talker[b])
      BY <1>1, <2>2
    <3> QED BY <1>3, <3>1 DEF Skipped
  <2> QED BY <2>1, <2>2
<1>5. TypeOK'
  <2>1. talker' \in [Backend -> Talker] /\ left' \in [Client -> SUBSET Backend]
    BY <1>1, <1>4 DEF IInv, TypeOK
  <2>2. view' \in [Client -> SUBSET Name] /\ phase' \in [Client -> Phase]
    BY <1>1, <1>4 DEF IInv, TypeOK, Phase
  <2> QED BY <1>2, <2>1, <2>2 DEF IInv, TypeOK
<1>6. UpIsConnected'
  BY <1>1, <1>2, <1>4 DEF IInv, TypeOK, UpIsConnected
<1>7. \A x \in Client : phase'[x] = "expunging" => phase[x] = "expunging"
  BY <1>1, <1>2 DEF IInv, TypeOK
<1>8. OnlyAsked'
  BY <1>2, <1>7 DEF IInv, OnlyAsked
<1> QED BY <1>5, <1>6, <1>8 DEF IInv

\* What is deleted first is something of what is to be deleted.
LEMMA CurrentToDo ==
  ASSUME IInv, NEW c \in Client, phase[c] = "expunging"
  PROVE  Current(c) \in todo[c] /\ Current(c) \in Name /\ Current(c) \in asked \cup {Junk}
<1>1. todo[c] \in SUBSET Name /\ todo[c] # {} /\ todo[c] \subseteq asked \cup {Junk}
  BY DEF IInv, TypeOK, OnlyAsked
<1>2. IsFiniteSet(Name)
  BY PopAssumption, FS_AddElement DEF Name
<1>3. IsFiniteSet(todo[c])
  BY <1>1, <1>2, FS_Subset
<1> QED BY <1>1, <1>3, FirstOfSet DEF Current

LEMMA DelAtStep ==
  ASSUME IInv, NEW c \in Client, NEW b \in Backend, DelAt(c, b)
  PROVE  /\ IInv'
         /\ \A x \in Backend : stored[x] \ stored'[x] \subseteq asked
<1> DEFINE m == Current(c)
           rest == IF left[c] = {b} THEN todo[c] \ {m} ELSE todo[c]
           over == rest = {}
<1>1. /\ phase[c] = "expunging"
      /\ todo' = [todo EXCEPT ![c] = rest]
      /\ left' = [left EXCEPT ![c] = IF over THEN {}
                                     ELSE IF rest # todo[c] THEN Backend ELSE @ \ {b}]
      /\ phase' = [phase EXCEPT ![c] = IF over THEN "out" ELSE @]
      /\ view' = [view EXCEPT ![c] = IF over THEN {} ELSE @]
      /\ marked' = [marked EXCEPT ![c] = IF over THEN {} ELSE @]
      /\ expunged' = IF over THEN expunged \cup (marked[c] \cap Msg) ELSE expunged
      /\ UNCHANGED <<alive, up, asked>>
  BY DEF DelAt
<1>2. m \in todo[c] /\ m \in Name /\ m \in asked \cup {Junk}
  BY <1>1, CurrentToDo
<1> HIDE DEF m
<1>3. \/ UNCHANGED <<stored, talker>> /\ (StoreFailure(b, m) \/ UNCHANGED log)
      \/ \E d \in Deletions(b, talker[b], m) :
             /\ talker' = [talker EXCEPT ![b] = d.reply.talker]
             /\ stored' = [stored EXCEPT ![b] = d.stored]
             /\ StoreFailure(b, m) \/ UNCHANGED log
  BY DEF DelAt, m
<1>4. /\ stored' \in [Backend -> SUBSET Msg] /\ talker' \in [Backend -> Talker]
      /\ \A x \in Backend : talker'[x].open = talker[x].open
      /\ \A x \in Backend : stored[x] \ stored'[x] \subseteq {m} \cap Msg
  <2>1. stored \in [Backend -> SUBSET Msg] /\ talker \in [Backend -> Talker]
    BY DEF IInv, TypeOK
  <2>2. CASE UNCHANGED <<stored, talker>>
    BY <2>1, <2>2
  <2>3. ASSUME NEW d \in Deletions(b, talker[b], m),
               talker' = [talker EXCEPT ![b] = d.reply.talker],
               stored' = [stored EXCEPT ![b] = d.stored]
        PROVE  /\ stored' \in [Backend -> SUBSET Msg] /\ talker' \in [Backend -> Talker]
               /\ \A x \in Backend : talker'[x].open = talker[x].open
               /\ \A x \in Backend : stored[x] \ stored'[x] \subseteq {m} \cap Msg
    <3>1. /\ d.stored \subseteq stored[b] /\ stored[b] \ d.stored \subseteq {m}
          /\ d.reply.talker \in Talker /\ d.reply.talker.open = talker[b].open
      BY <2>1, DeletionType DEF IInv
    <3> QED BY <2>1, <2>3, <3>1
  <2> QED BY <1>3, <2>2, <2>3
<1>5. \A x \in Backend : stored[x] \ stored'[x] \subseteq asked
  BY <1>2, <1>4, PopAssumption
<1>6. /\ log' \in [Backend -> Name \cup {NoMsg}]
      /\ \A x \in Backend : log'[x] = log[x] \/ log'[x] = m
  BY <1>2, <1>3 DEF StoreFailure, IInv, TypeOK
<1>7. /\ rest \in SUBSET Name /\ rest \subseteq todo[c]
      /\ todo' \in [Client -> SUBSET Name] /\ left' \in [Client -> SUBSET Backend]
  BY <1>1 DEF IInv, TypeOK
<1>8. /\ phase' \in [Client -> Phase] /\ view' \in [Client -> SUBSET Name]
      /\ marked' \in [Client -> SUBSET Name] /\ expunged' \in SUBSET Msg
  BY <1>1 DEF IInv, TypeOK, Phase
<1>9. TypeOK'
  BY <1>1, <1>4, <1>6, <1>7, <1>8 DEF IInv, TypeOK
<1>10. UpIsConnected'
  BY <1>1, <1>4 DEF IInv, UpIsConnected
<1>11. \A x \in Client : todo'[x] \subseteq todo[x]
  BY <1>1, <1>7 DEF IInv, TypeOK
<1>12. \A x \in Client : phase'[x] = "expunging" => todo'[x] # {}
  BY <1>1 DEF IInv, TypeOK, OnlyAsked
<1>13. OnlyAsked'
  BY <1>1, <1>2, <1>6, <1>11, <1>12 DEF IInv, OnlyAsked
<1> QED BY <1>5, <1>9, <1>10, <1>13 DEF IInv

-----------------------------------------------------------------------------
(* The theorems.                                                           *)

LEMMA NextStep ==
  ASSUME IInv, [Next]_vars
  PROVE  /\ IInv'
         /\ \A x \in Backend : stored[x] \ stored'[x] \subseteq asked
<1>1. ASSUME NEW b \in Backend, Kill(b) \/ Restart(b) \/ CheckUp(b)
      PROVE  IInv' /\ stored' = stored
  <2>1. stored' = stored
    BY <1>1 DEF Kill, Restart, CheckUp, Reborn, backends
  <2> QED BY <1>1, <2>1, KillStep, RestartStep, CheckUpStep
<1>2. ASSUME NEW c \in Client,
             \/ Login(c) \/ Rset(c) \/ Quit(c) \/ HangUp(c)
             \/ \E b \in Backend : ListAt(c, b)
             \/ \E m \in Name : Dele(c, m)
      PROVE  IInv' /\ stored' = stored
  <2>1. stored' = stored
    BY <1>2 DEF Login, Rset, Quit, Expunge, HangUp, ListAt, Dele, backends
  <2> QED BY <1>2, <2>1, LoginStep, RsetStep, QuitStep, HangUpStep, ListAtStep, DeleStep
<1>3. ASSUME Stop
      PROVE  IInv' /\ stored' = stored
  BY <1>3, RebornStep DEF Stop, Reborn, backends
<1>4. ASSUME UNCHANGED vars
      PROVE  IInv' /\ stored' = stored
  BY <1>4 DEF vars, IInv, TypeOK, UpIsConnected, OnlyAsked
<1>5. CASE \E b \in Backend : Kill(b) \/ Restart(b) \/ CheckUp(b)
  BY <1>1, <1>5
<1>6. CASE \E b \in Backend : CheckDown(b)
  BY <1>6, CheckDownStep
<1>7. CASE \E c \in Client : \/ Login(c) \/ Rset(c) \/ Quit(c) \/ HangUp(c)
                             \/ \E b \in Backend : ListAt(c, b)
                             \/ \E m \in Name : Dele(c, m)
  BY <1>2, <1>7
<1>8. CASE \E c \in Client, b \in Backend : DelAt(c, b)
  BY <1>8, DelAtStep
<1> QED BY <1>3, <1>4, <1>5, <1>6, <1>7, <1>8 DEF Next, SessionNext

\* The invariant holds in every state of every behaviour of the process.
THEOREM Invariance == Spec => []IInv
<1>1. Init => IInv
  <2> SUFFICES ASSUME Init PROVE IInv
    OBVIOUS
  <2> USE DEF Init, SessionOut, Nothing
  <2>1. TypeOK
    BY NoTalkerType DEF TypeOK, Phase
  <2>2. UpIsConnected /\ OnlyAsked
    BY DEF UpIsConnected, OnlyAsked
  <2> QED BY <2>1, <2>2 DEF IInv
<1>2. IInv /\ [Next]_vars => IInv'
  BY NextStep
<1> QED BY <1>1, <1>2, PTL DEF Spec

\* Backends, connections, logs and sessions keep their types: no request, late answer
\* or listing makes a connection of something that is not one.
THEOREM TypeCorrect == Spec => []TypeOK
<1>1. IInv => TypeOK
  BY DEF IInv
<1> QED BY <1>1, Invariance, PTL

\* getMsgs and delMsg find a connection at every backend that is up.
THEOREM Connected == Spec => []UpIsConnected
<1>1. IInv => UpIsConnected
  BY DEF IInv
<1> QED BY <1>1, Invariance, PTL

\* No message goes from a backend unless a client gave QUIT with it marked.
THEOREM NothingElseGone == Spec => OnlyAskedGone
<1>1. IInv /\ [Next]_vars => [\A b \in Backend : stored[b] \ stored'[b] \subseteq asked]_vars
  BY NextStep
<1> QED BY <1>1, Invariance, PTL DEF Spec, OnlyAskedGone

\* A backend that comes up has the deletion in its log done, or keeps it logged.
THEOREM LogReplayed == Spec => ReplayedOrKept
<1> DEFINE Replayed == \A b \in Backend : ~up[b] /\ up'[b] /\ log[b] # NoMsg
                          => log[b] \notin stored'[b] \/ log'[b] = log[b]
<1>1. IInv /\ [Next]_vars => [Replayed]_vars
  <2> SUFFICES ASSUME IInv, Next, NEW b \in Backend, ~up[b], up'[b], log[b] # NoMsg
               PROVE  log[b] \notin stored'[b] \/ log'[b] = log[b]
    OBVIOUS
  <2>1. up \in [Backend -> BOOLEAN] /\ stored \in [Backend -> SUBSET Msg]
    BY DEF IInv, TypeOK
  <2>2. CASE CheckDown(b)
    <3>1. ~Asleep(b)
      BY DEF Asleep, Reborn
    <3>2. PICK r \in Replies(Fresh, <<"ok">>) : r.ok /\ Playback(b, r.talker)
      BY <2>2, <3>1, CheckDownCases
    <3>3. PICK d \in Deletions(b, r.talker, log[b]) :
             /\ stored' = [stored EXCEPT ![b] = d.stored]
             /\ log' = IF d.reply.ok THEN [log EXCEPT ![b] = NoMsg] ELSE log
      BY <3>2 DEF Playback
    <3>4. d.reply.ok => log[b] \notin d.stored
      BY <3>2, Pinged, FreshDeletion
    <3> QED BY <2>1, <3>3, <3>4
  <2>3. ASSUME NEW x \in Backend, x # b, CheckDown(x)
        PROVE  FALSE
    BY <2>1, <2>3 DEF CheckDown, Reborn
  <2>4. ASSUME NEW x \in Backend, Kill(x) \/ Restart(x) \/ CheckUp(x)
        PROVE  FALSE
    BY <2>1, <2>4 DEF Kill, Restart, CheckUp, Reborn, targets
  <2>5. ASSUME NEW c \in Client, SessionNext(c)
        PROVE  FALSE
    BY <2>5 DEF SessionNext, Login, Rset, Quit, Expunge, HangUp, ListAt, DelAt, Dele, targets
  <2>6. ~Stop
    BY DEF Stop, Reborn
  <2> QED BY <2>2, <2>3, <2>4, <2>5, <2>6 DEF Next
<1> QED BY <1>1, Invariance, PTL DEF Spec, ReplayedOrKept
=============================================================================
