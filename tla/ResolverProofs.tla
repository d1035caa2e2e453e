--------------------------- MODULE ResolverProofs ---------------------------
(***************************************************************************)
(* Proofs about Resolver, for any addresses, any catch-alls, any files the *)
(* administrator may write, any userbase and any number of edits.          *)
(*                                                                         *)
(* That an orphan was missing is not inductive: it follows from what the   *)
(* answer was taken from, which is a table read long before, an answer of  *)
(* ldap that was late, or the first of two queries.                        *)
(***************************************************************************)
EXTENDS Resolver, SequenceTheorems, TLAPS

\* What the objects, the questions and the sessions are.
Thing == [made : BOOLEAN, conn : Link, late : Seq(Found), table : Seq(Entry), parsed : BOOLEAN,
          eaten : BOOLEAN, stamp : Stamp, start : Start, left : BOOLEAN, served : Nat]
Question == [pc : Pc, mbox : Address, got : Answer \cup {"none"}, seen : Nat]
Visit == [busy : BOOLEAN, login : BOOLEAN, to : Address, try : {1, 2}]
Purge == [phase : {"idle", "connect", "list", "lookup"}, left : SUBSET Backend,
          todo : SUBSET Address, orphans : SUBSET Address, purged : SUBSET Address]

Shapes ==
  /\ kind \in Kinds /\ acting \in Acting /\ up \in BOOLEAN /\ stamp \in Stamp
  /\ versions \in Seq(Contents) /\ Len(versions) \in 1..(MaxEdits + 1)
  /\ thing \in [User -> Thing] /\ ask \in [User -> Question]
  /\ session \in Visit /\ tool \in Purge
  /\ starts \in 1..MaxStarts
  /\ since \in [User -> Nat] /\ misled \in [User -> SUBSET Address]

Addresses(s) == {s[i].address : i \in DOMAIN s}

\* What an object of u may hold: it has read no version that is not written, and, of
\* the text userbase, none older than those a command of u may answer by; its table
\* is of the version it was read from, all of it if no comment hid the rest.
Sound(u, t) ==
  /\ t \in Thing /\ t.served <= Len(versions) /\ Len(t.late) <= 1
  /\ kind = "text" /\ t.served # 0 => since[u] <= t.served
  /\ t.parsed =>
       /\ kind = "text" /\ t.served # 0
       /\ Addresses(t.table) \subseteq Listed(t.served)
       /\ ~t.eaten => Listed(t.served) \subseteq Addresses(t.table)

\* A question that is being asked has no answer yet; one that is asked a second time
\* was not a forward when it was asked first, or a failure hid that it was.
Pending(u) ==
  /\ ask[u].pc # "idle" => ask[u].got = "none"
  /\ ask[u].pc = "second" =>
       /\ kind = "mysqlpdns" /\ ask[u].seen \in 1..Len(versions)
       /\ \/ ask[u].mbox \in misled[u]
          \/ FoundIn(versions[ask[u].seen].entries, ask[u].mbox) # "forward"

\* Addresses of which u may think that there is no such mailbox.
Missing(u) == Unlisted(u) \cup misled[u]

\* A session that asks for the catch-all has been told that the address is missing.
SessionKnown ==
  /\ ask["daemon"].pc # "idle" => session.busy
  /\ session.busy => ask["daemon"].mbox = TryOf(session.to, session.try)
  /\ session.busy /\ session.try = 2 => session.to \in Missing("daemon")

ToolKnown == /\ tool.phase = "idle" => ask["tool"].got = "none" /\ ask["tool"].pc = "idle"
             /\ tool.orphans \subseteq Missing("tool")

\* What a command of u relies on.
Informed(u) == since[u] <= Len(versions) /\ Sound(u, thing[u]) /\ Pending(u)

IInv == /\ Shapes
        /\ \A u \in User : Informed(u)
        /\ SessionKnown /\ ToolKnown
        /\ CatchAllLast /\ OnlyUnknownPurged

-----------------------------------------------------------------------------
(* Tables and files.                                                       *)

\* A search of a table finds nothing exactly if no entry is for the address.
LEMMA SearchFinds ==
  ASSUME NEW s, NEW a
  PROVE  /\ FoundIn(s, a) \in Found
         /\ FoundIn(s, a) = "absent" <=> a \notin Addresses(s)
BY DEF FoundIn, Found, Addresses

LEMMA ListedIs ==
  ASSUME NEW n
  PROVE  Listed(n) = Addresses(versions[n].entries)
BY DEF Listed, Addresses

\* A parse gives a table of what the scanner let it see.
LEMMA TableIs ==
  ASSUME NEW start \in Start, NEW file \in File, NEW left \in BOOLEAN, NEW table
  PROVE  /\ NewEntries(start, file, left, table) \in Seq(Entry)
         /\ Addresses(NewEntries(start, file, left, table)) \subseteq Addresses(file.entries)
         /\ Seen(start, file) =>
              Addresses(file.entries) \subseteq Addresses(NewEntries(start, file, left, table))
<1> DEFINE n == IF Seen(start, file) THEN Len(file.entries) ELSE 0
           new == NewEntries(start, file, left, table)
<1>1. file.entries \in Seq(Entry)
  BY DEF File
<1>2. n \in Nat /\ Len(file.entries) \in Nat /\ DOMAIN file.entries = 1..Len(file.entries)
  BY <1>1, LenProperties
<1>3. \A i \in 1..n : file.entries[i] \in Entry
  BY <1>1, <1>2, ElementOfSeq
<1>4. DOMAIN new = 1..n
  BY DEF NewEntries
<1>5. \A i \in 1..n : new[i] \in Entry /\ new[i].address = file.entries[i].address
  BY <1>3 DEF NewEntries, Entry
<1>6. new \in Seq(Entry)
  <2>1. new \in [1..n -> Entry]
    BY <1>5 DEF NewEntries
  <2> QED BY <1>2, <2>1, SeqDef
<1>7. Addresses(new) \subseteq Addresses(file.entries)
  BY <1>2, <1>4, <1>5 DEF Addresses
<1>8. Seen(start, file) => Addresses(file.entries) \subseteq Addresses(new)
  BY <1>2, <1>4, <1>5 DEF Addresses
<1> QED BY <1>6, <1>7, <1>8

\* An error throws wherever the scanner was left, but in a comment.
LEMMA BrokenThrows ==
  ASSUME NEW start \in Start, NEW file, start # "comment", file.end \in {"keyword", "quoted"}
  PROVE  Throws(start, file)
BY DEF Throws, Seen, Eaten, Start

\* What a parse leaves of the scanner.
LEMMA ScannerLeft ==
  ASSUME NEW start \in Start, NEW file \in File, NEW left \in BOOLEAN
  PROVE  NextStart(start, file) \in Start /\ NextLeft(start, file, left) \in BOOLEAN
         /\ Eaten(start, file) \in BOOLEAN
BY DEF NextStart, NextLeft, Start, File, Eaten

LEMMA PresentFile ==
  ASSUME Shapes
  PROVE  /\ Present \in File /\ Len(versions) \in Nat \ {0}
         /\ \A n \in 1..Len(versions) : versions[n] \in File
<1>1. \A n \in 1..Len(versions) : versions[n] \in Contents
  BY ElementOfSeq DEF Shapes
<1> QED BY <1>1, ResolverAssumption DEF Shapes, Present

-----------------------------------------------------------------------------
(* Lookups at a server.                                                    *)

\* What a lookup may answer: a mailbox only of a row the server has, if it is not
\* ldap, and "absent" only of a row it has not, or by a hidden failure, or by the
\* second of two queries, which does not look at forwards.
Plausible(k, row, second, o) ==
  /\ o.conn \in Link /\ o.late \in Seq(Found) /\ Len(o.late) <= 1
  /\ o.got \in Answer /\ o.more \in BOOLEAN /\ o.hid \in BOOLEAN
  /\ k # "ldap" /\ o.got \in {"mailbox", "forward"} => row # "absent"
  /\ o.got = "absent" /\ ~o.hid =>
       \/ row = "absent"
       \/ k = "mysqlpdns" /\ ~second /\ o.more
       \/ k = "mysqlpdns" /\ second /\ row # "mailbox"
  /\ o.more => k = "mysqlpdns" /\ ~second /\ o.got = "absent" /\ (o.hid \/ row # "forward")

LEMMA NoneLate ==
  ASSUME NEW late, late = <<>>
  PROVE  late \in Seq(Found) /\ Len(late) <= 1
BY EmptySeq

\* What SMySQL::doQuery may answer of a query that has the answer got.
Replied(q, got) ==
  /\ q.conn \in Link /\ q.late = <<>> /\ q.got \in Answer /\ q.more = FALSE
  /\ q.hid \in BOOLEAN
  /\ q.got = got \/ q.got = "error" \/ (q.got = "absent" /\ q.hid)

LEMMA QueryAnswers ==
  ASSUME NEW conn \in Link, NEW up1 \in BOOLEAN, NEW got \in Found,
         NEW q \in Query(conn, up1, got)
  PROVE  Replied(q, got)
<1>1. \/ q = Outcome("open", <<>>, got)
      \/ q = [Outcome("broken", <<>>, "absent") EXCEPT !.hid = TRUE]
      \/ \E c \in Link : q = Outcome(c, <<>>, "error")
  BY DEF Query, Link, Error
<1>2. CASE q = Outcome("open", <<>>, got)
  BY <1>2 DEF Outcome, Link, Answer, Replied
<1>3. CASE q = [Outcome("broken", <<>>, "absent") EXCEPT !.hid = TRUE]
  BY <1>3 DEF Outcome, Link, Answer, Found, Replied
<1>4. CASE \E c \in Link : q = Outcome(c, <<>>, "error")
  BY <1>4 DEF Outcome, Answer, Replied
<1> QED BY <1>1, <1>2, <1>3, <1>4

LEMMA QueryFields ==
  ASSUME NEW conn, NEW up1, NEW got, NEW q \in Query(conn, up1, got)
  PROVE  DOMAIN q = {"conn", "late", "got", "more", "hid"}
BY DEF Query, Error, Outcome

LEMMA TriedLink ==
  ASSUME NEW conn \in Link, NEW up1 \in BOOLEAN
  PROVE  Tried(conn, up1) \in Link
BY DEF Tried, Link

LEMMA MysqlAnswers ==
  ASSUME NEW conn \in Link, NEW up1 \in BOOLEAN, NEW row \in Found, NEW second \in BOOLEAN
  PROVE  /\ \A o \in MysqlPlain(conn, up1, row) : Plausible("mysqlplain", row, second, o)
         /\ \A o \in MysqlSimplePdns(conn, up1, row) :
              Plausible("mysqlsimplepdns", row, second, o)
         /\ \A o \in MysqlPdns(conn, up1, row, second) : Plausible("mysqlpdns", row, second, o)
<1>1. ASSUME NEW o \in MysqlPlain(conn, up1, row)
      PROVE  Plausible("mysqlplain", row, second, o)
  <2>1. PICK c \in Link : o \in Query(c, up1, row)
    BY <1>1, TriedLink DEF MysqlPlain
  <2>2. Replied(o, row)
    BY <2>1, QueryAnswers
  <2> QED BY <2>2, NoneLate DEF Plausible, Replied
<1>2. ASSUME NEW o \in MysqlSimplePdns(conn, up1, row)
      PROVE  Plausible("mysqlsimplepdns", row, second, o)
  <2> DEFINE got == If(row, {"mailbox", "forward"}, "forward")
  <2>1. got \in Found /\ (got = "absent" <=> row = "absent")
    BY DEF If, Found
  <2>2. PICK c \in Link : o \in Query(c, up1, got)
    BY <1>2, TriedLink DEF MysqlSimplePdns
  <2>4. got \in Found
    BY <2>1
  <2> HIDE DEF got
  <2>3. Replied(o, got)
    BY <2>2, <2>4, QueryAnswers
  <2> QED BY <2>1, <2>3, NoneLate DEF Plausible, Replied
<1>3. ASSUME NEW o \in MysqlPdns(conn, up1, row, second)
      PROVE  Plausible("mysqlpdns", row, second, o)
  <2>1. CASE conn = "none"
    <3>1. o.conn = "none" /\ o.late = <<>> /\ o.got = "error" /\ o.more = FALSE /\ o.hid = FALSE
      BY <1>3, <2>1 DEF MysqlPdns, Error, Outcome
    <3> QED BY <3>1, NoneLate DEF Plausible, Link, Answer
  <2>2. CASE conn # "none" /\ second
    <3> DEFINE got == If(row, {"mailbox"}, "mailbox")
    <3>1. got \in Found /\ got \in {"mailbox", "absent"} /\ (got = "mailbox" <=> row = "mailbox")
      BY DEF If, Found
    <3>2. Replied(o, got)
      BY <1>3, <2>2, <3>1, QueryAnswers DEF MysqlPdns
    <3> HIDE DEF got
    <3> QED BY <2>2, <3>1, <3>2, NoneLate DEF Plausible, Replied
  <2>3. CASE conn # "none" /\ ~second
    <3> DEFINE got == If(row, {"forward"}, "forward")
    <3>1. got \in Found /\ got \in {"forward", "absent"} /\ (got = "forward" <=> row = "forward")
      BY DEF If, Found
    <3>2. PICK q \in Query(conn, up1, got) : o = [q EXCEPT !.more = (q.got = "absent")]
      BY <1>3, <2>3 DEF MysqlPdns
    <3>5. got \in Found
      BY <3>1
    <3> HIDE DEF got
    <3>3. Replied(q, got)
      BY <3>2, <3>5, QueryAnswers
    <3>4. o.conn = q.conn /\ o.late = q.late /\ o.got = q.got /\ o.hid = q.hid
          /\ o.more = (q.got = "absent")
      BY <3>2, QueryFields
    <3> QED BY <2>3, <3>1, <3>3, <3>4, NoneLate DEF Plausible, Replied
  <2> QED BY <2>1, <2>2, <2>3
<1> QED BY <1>1, <1>2, <1>3

LEMMA SqlAnswers ==
  ASSUME NEW conn \in Link, NEW up1 \in BOOLEAN, NEW row \in Found, NEW second \in BOOLEAN
  PROVE  /\ \A o \in PostgreSQL(conn, up1, row) : Plausible("postgresql", row, second, o)
         /\ \A o \in Oracle(conn, row) : Plausible("oracle", row, second, o)
<1>1. ASSUME NEW got \in {"mailbox", "forward"}, NEW c \in Link, NEW k \in {"postgresql", "oracle"},
             NEW o, o = IF c = "open" THEN Outcome(c, <<>>, If(row, {"mailbox", "forward"}, got))
                        ELSE Error(c, <<>>)
      PROVE  Plausible(k, row, second, o)
  <2> DEFINE found == If(row, {"mailbox", "forward"}, got)
  <2>1. found \in Found /\ (found = "absent" <=> row = "absent")
    BY DEF If, Found
  <2> HIDE DEF found
  <2>2. o = Outcome(c, <<>>, found) \/ o = Outcome(c, <<>>, "error")
    BY <1>1 DEF Error, found
  <2>3. o.conn = c /\ o.late = <<>> /\ (o.got = found \/ o.got = "error")
        /\ o.more = FALSE /\ o.hid = FALSE
    BY <2>2 DEF Outcome
  <2> QED BY <2>1, <2>3, NoneLate DEF Plausible, Answer
<1>2. ASSUME NEW o \in PostgreSQL(conn, up1, row)
      PROVE  Plausible("postgresql", row, second, o)
  BY <1>1, <1>2, TriedLink DEF PostgreSQL
<1>3. ASSUME NEW o \in Oracle(conn, row)
      PROVE  Plausible("oracle", row, second, o)
  BY <1>1, <1>3 DEF Oracle
<1> QED BY <1>2, <1>3

\* An answer of ldap is the row, if none was late; no more than one is ever late.
LEMMA LdapAnswers ==
  ASSUME NEW conn \in Link, NEW late \in Seq(Found), Len(late) <= 1,
         NEW row \in Found, NEW login \in BOOLEAN, NEW second \in BOOLEAN,
         NEW o \in Ldap(conn, late, row, login)
  PROVE  Plausible("ldap", row, second, o)
<1>1. ASSUME NEW r \in Found
      PROVE  LET s == Searched(late, r) IN
             /\ s.conn = "open" /\ s.late \in Seq(Found) /\ Len(s.late) <= 1
             /\ s.got \in Found /\ s.more = FALSE /\ s.hid = (late # <<>>)
             /\ late = <<>> => s.got = r
             /\ DOMAIN s = {"conn", "late", "got", "more", "hid"}
  <2> DEFINE answers == Append(late, r)
  <2>1. answers \in Seq(Found) /\ Len(answers) = Len(late) + 1 /\ answers # <<>>
        /\ Len(late) \in Nat
    BY AppendProperties, LenProperties
  <2>2. Head(answers) \in Found /\ Tail(answers) \in Seq(Found)
        /\ Len(Tail(answers)) = Len(answers) - 1
    BY <2>1, HeadTailProperties
  <2>3. late = <<>> => Head(answers) = r
    BY AppendProperties
  <2>4. Len(Tail(answers)) <= 1
    BY <2>1, <2>2
  <2> HIDE DEF answers
  <2>5. Searched(late, r) = [Outcome("open", Tail(answers), Head(answers))
                               EXCEPT !.hid = (late # <<>>)]
    BY DEF Searched, answers
  <2> QED BY <2>2, <2>3, <2>4, <2>5 DEF Outcome
<1>2. CASE login
  <2>1. o.conn = conn /\ o.late = late /\ o.got = "mailbox" /\ o.more = FALSE /\ o.hid = FALSE
    BY <1>2 DEF Ldap, Bind, Outcome
  <2> QED BY <2>1 DEF Plausible, Answer, Found
<1>3. CASE ~login /\ conn # "open"
  <2>1. o.conn = conn /\ o.late = late /\ o.got = "error" /\ o.more = FALSE /\ o.hid = FALSE
    BY <1>3 DEF Ldap, Error, Outcome
  <2> QED BY <2>1 DEF Plausible, Answer
<1>4. CASE o = Searched(late, row)
  BY <1>1, <1>4 DEF Plausible, Link, Answer
<1>5. CASE o = [Searched(late, "absent") EXCEPT !.hid = TRUE]
  <2>1. "absent" \in Found
    BY DEF Found
  <2> QED BY <1>1, <1>5, <2>1 DEF Plausible, Link, Answer
<1>6. CASE o \in TimedOut(late, row)
  <2>1. PICK unread \in Found : o = Error("open", <<unread>>)
    BY <1>6 DEF TimedOut
  <2>2. <<unread>> \in Seq(Found) /\ Len(<<unread>>) = 1
    OBVIOUS
  <2> QED BY <2>1, <2>2 DEF Error, Outcome, Plausible, Link, Answer
<1> QED BY <1>2, <1>3, <1>4, <1>5, <1>6 DEF Ldap

LEMMA LookupAnswers ==
  ASSUME NEW k \in Kind \ {"text"}, NEW conn \in Link, NEW late \in Seq(Found), Len(late) <= 1,
         NEW up1 \in BOOLEAN, NEW row \in Found, NEW login \in BOOLEAN, NEW second \in BOOLEAN,
         NEW o \in Lookups(k, conn, late, up1, row, login, second)
  PROVE  Plausible(k, row, second, o)
BY MysqlAnswers, SqlAnswers, LdapAnswers DEF Lookups, Kind

-----------------------------------------------------------------------------
(* What is missing stays missing: versions are only added to.              *)

LEMMA MissingStays ==
  ASSUME Shapes, NEW u \in User, Len(versions') \in Nat, Len(versions) <= Len(versions'),
         \A n \in 1..Len(versions) : versions'[n] = versions[n],
         since'[u] = since[u], misled[u] \subseteq misled'[u]
  PROVE  Missing(u) \subseteq Missing(u)'
<1>1. Len(versions) \in Nat /\ since[u] \in Nat
  BY DEF Shapes
<1>2. ASSUME NEW a \in Unlisted(u)
      PROVE  a \in Unlisted(u)'
  <2>1. PICK n \in since[u]..Len(versions) : n # 0 /\ a \notin Listed(n)
    BY DEF Unlisted
  <2>2. n \in 1..Len(versions) /\ n \in since'[u]..Len(versions')
    BY <1>1, <2>1
  <2>3. a \notin Addresses(versions'[n].entries)
    BY <2>1, <2>2, ListedIs
  <2>4. a \notin Listed(n)'
    BY <2>3 DEF Listed, Addresses
  <2>5. a \in Address
    BY DEF Unlisted
  <2> QED BY <2>1, <2>2, <2>4, <2>5 DEF Unlisted
<1> QED BY <1>2 DEF Missing

\* What a version that a command of u may answer by does not list, u may think missing.
LEMMA NotListed ==
  ASSUME Shapes, NEW u \in User, NEW n \in 1..Len(versions), since[u] <= n,
         NEW a \in Address, a \notin Listed(n)
  PROVE  a \in Unlisted(u)
<1>1. Len(versions) \in Nat /\ since[u] \in Nat
  BY DEF Shapes
<1>2. n \in since[u]..Len(versions) /\ n # 0
  BY <1>1
<1> QED BY <1>2 DEF Unlisted

LEMMA Beginnings ==
  /\ NoThing \in Thing /\ Quiet \in Question /\ NoSession \in Visit /\ NoTool \in Purge
  /\ Len(NoThing.late) <= 1
<1>1. (CHOOSE a \in Address : TRUE) \in Address
  BY ResolverAssumption
<1>2. <<>> \in Seq(Found) /\ <<>> \in Seq(Entry) /\ Len(<<>>) = 0
  BY EmptySeq
<1>3. 0 \in Stamp
  BY ResolverAssumption DEF Stamp
<1>4. NoThing \in Thing /\ Len(NoThing.late) <= 1
  BY <1>2, <1>3 DEF NoThing, Thing, Link, Start
<1>5. Quiet \in Question /\ NoSession \in Visit
  BY <1>1 DEF Quiet, Question, NoSession, Visit, Pc
<1>6. NoTool \in Purge
  BY DEF NoTool, Purge
<1> QED BY <1>4, <1>5, <1>6

LEMMA NewThingSound ==
  ASSUME Shapes, NEW u
  PROVE  Sound(u, NoThing)
<1>1. Len(versions) \in Nat
  BY DEF Shapes
<1>2. NoThing.served = 0 /\ NoThing.parsed = FALSE
  BY DEF NoThing
<1> QED BY <1>1, <1>2, Beginnings DEF Sound

\* The address a try asks for.
LEMMA TriedAddress ==
  ASSUME NEW to \in Address, NEW n
  PROVE  TryOf(to, n) \in Address
BY ResolverAssumption DEF TryOf

-----------------------------------------------------------------------------
(* Steps of the invariant.                                                 *)

USE DEF User

\* A step of u that leaves its question pending, or has it answered by a file.
LEMMA ObjectStep ==
  ASSUME IInv, NEW u \in User, NEW t, Sound(u, t), thing' = [thing EXCEPT ![u] = t],
         NEW pc \in Pc \ {"idle", "second"}, ask[u].pc # "idle",
         ask' = [ask EXCEPT ![u].pc = pc],
         UNCHANGED <<environment, session, tool, history>>
  PROVE  IInv'
<1> USE DEF environment, history
<1>1. thing' \in [User -> Thing] /\ ask' \in [User -> Question]
  BY DEF IInv, Shapes, Sound, Question
<1>2. Shapes'
  BY <1>1 DEF IInv, Shapes
<1>3. ASSUME NEW v \in User
      PROVE  Informed(v)'
  <2>1. since[v] <= Len(versions) /\ Sound(v, thing[v]) /\ Pending(v)
    BY DEF IInv, Informed
  <2>2. Sound(v, thing'[v])
    BY <2>1 DEF IInv, Shapes
  <2>3. Sound(v, thing[v])'
    BY <2>2 DEF Sound, Listed
  <2>4. ask'[v].mbox = ask[v].mbox /\ ask'[v].got = ask[v].got /\ ask'[v].seen = ask[v].seen
        /\ (v = u => ask'[v].pc = pc) /\ (v # u => ask'[v].pc = ask[v].pc)
    BY DEF IInv, Shapes, Question
  <2>5. Pending(v)'
    BY <2>1, <2>4 DEF Pending
  <2> QED BY <2>1, <2>3, <2>5 DEF Informed
<1>4. /\ \A v \in User : ask'[v].mbox = ask[v].mbox /\ ask'[v].got = ask[v].got
      /\ \A v \in User : ask'[v].pc # "idle" => ask[v].pc # "idle"
  BY DEF IInv, Shapes, Question
<1>5. Missing("daemon")' = Missing("daemon") /\ Missing("tool")' = Missing("tool")
  BY DEF Missing, Unlisted, Listed
<1>6. SessionKnown' /\ ToolKnown'
  BY <1>4, <1>5 DEF IInv, SessionKnown, ToolKnown
<1>7. CatchAllLast' /\ OnlyUnknownPurged'
  BY <1>4, <1>5 DEF IInv, CatchAllLast, OnlyUnknownPurged, Missing
<1> QED BY <1>2, <1>3, <1>6, <1>7 DEF IInv

LEMMA ParseFailsStep ==
  ASSUME IInv, NEW u \in User, ParseFails(u)
  PROVE  IInv'
<1> DEFINE t == thing[u]
<1>1. t \in Thing /\ Sound(u, t) /\ kind = "text" /\ ask[u].pc \in {"launch", "start"} /\ ask[u].pc # "idle"
  BY DEF IInv, Informed, Shapes, ParseFails, Parses
<1>2. Present \in File
  BY PresentFile DEF IInv
<1>3. PICK garbage \in Stamp :
        thing' = [thing EXCEPT
          ![u] = IF up THEN [t EXCEPT !.start = NextStart(@, Present), !.stamp = garbage,
                                      !.left = NextLeft(t.start, Present, @)]
                 ELSE [t EXCEPT !.stamp = garbage]]
  BY <1>1 DEF ParseFails, Thing
<1> DEFINE n == IF up THEN [t EXCEPT !.start = NextStart(@, Present), !.stamp = garbage,
                                     !.left = NextLeft(t.start, Present, @)]
                ELSE [t EXCEPT !.stamp = garbage]
<1>4. t.start \in Start /\ t.left \in BOOLEAN
  BY <1>1 DEF Thing
<1>5. NextStart(t.start, Present) \in Start /\ NextLeft(t.start, Present, t.left) \in BOOLEAN
  BY <1>2, <1>4, ScannerLeft
<1>6. n \in Thing
  BY <1>1, <1>3, <1>5 DEF Thing
<1>7. /\ n.served = t.served /\ n.late = t.late /\ n.parsed = t.parsed /\ n.table = t.table
      /\ n.eaten = t.eaten
  BY <1>1 DEF Thing
<1>8. thing' = [thing EXCEPT ![u] = n]
  BY <1>3
<1> HIDE DEF n, t
<1>9. Sound(u, n)
  BY <1>1, <1>6, <1>7 DEF Sound
<1>10. PICK pc \in Pc \ {"idle", "second"} : ask' = [ask EXCEPT ![u].pc = pc]
  <2>1. ask' = [ask EXCEPT ![u].pc = "start"] \/ ask' = [ask EXCEPT ![u].pc = "search"]
    BY DEF ParseFails, Goes
  <2> QED BY <2>1 DEF Pc
<1> QED BY <1>1, <1>8, <1>9, <1>10, ObjectStep DEF ParseFails

LEMMA ParseDoneStep ==
  ASSUME IInv, NEW u \in User, ParseDone(u)
  PROVE  IInv'
<1> DEFINE t == thing[u]
           n == [t EXCEPT !.table = NewEntries(t.start, Present, t.left, @), !.parsed = TRUE,
                          !.eaten = Eaten(t.start, Present), !.served = Len(versions),
                          !.start = NextStart(@, Present), !.left = NextLeft(t.start, Present, @)]
           table == NewEntries(t.start, Present, t.left, t.table)
<1>1. t \in Thing /\ Sound(u, t) /\ kind = "text" /\ ask[u].pc # "idle"
      /\ since[u] <= Len(versions) /\ thing' = [thing EXCEPT ![u] = n]
  BY DEF IInv, Informed, Shapes, ParseDone, Parses
<1>2. Present \in File /\ Len(versions) \in Nat \ {0}
  BY PresentFile DEF IInv
<1>3. t.start \in Start /\ t.left \in BOOLEAN
  BY <1>1 DEF Thing
<1>4. NextStart(t.start, Present) \in Start /\ NextLeft(t.start, Present, t.left) \in BOOLEAN
      /\ Eaten(t.start, Present) \in BOOLEAN
  BY <1>2, <1>3, ScannerLeft
<1>5. /\ table \in Seq(Entry)
      /\ Addresses(table) \subseteq Addresses(Present.entries)
      /\ Seen(t.start, Present) => Addresses(Present.entries) \subseteq Addresses(table)
  BY <1>2, <1>3, TableIs
<1>6. n \in Thing
  BY <1>1, <1>2, <1>4, <1>5 DEF Thing
<1>7. /\ n.served = Len(versions) /\ n.late = t.late /\ n.parsed = TRUE /\ n.table = table
      /\ n.eaten = Eaten(t.start, Present)
  BY <1>1 DEF Thing
<1>8. ~n.eaten => Seen(t.start, Present)
  BY <1>7 DEF ParseDone, Throws, Seen
<1>9. Listed(Len(versions)) = Addresses(Present.entries)
  BY ListedIs DEF Present
<1> HIDE DEF n, t, table
<1>10. Sound(u, n)
  BY <1>1, <1>2, <1>5, <1>6, <1>7, <1>8, <1>9 DEF Sound
<1>11. PICK pc \in Pc \ {"idle", "second"} : ask' = [ask EXCEPT ![u].pc = pc]
  <2>1. ask' = [ask EXCEPT ![u].pc = "launched"] \/ ask' = [ask EXCEPT ![u].pc = "parsed"]
    BY DEF ParseDone, Goes
  <2> QED BY <2>1 DEF Pc
<1> QED BY <1>1, <1>10, <1>11, ObjectStep DEF ParseDone

LEMMA StatStep ==
  ASSUME IInv, NEW u \in User, Stat(u)
  PROVE  IInv'
<1>1. Sound(u, thing[u]) /\ thing[u] \in Thing /\ ask[u].pc # "idle"
  BY DEF IInv, Informed, Shapes, Stat
<1>2. PICK mtime \in Stamp : thing' = [thing EXCEPT ![u].stamp = mtime]
  BY DEF IInv, Shapes, Stat
<1> DEFINE n == [thing[u] EXCEPT !.stamp = mtime]
<1>3. thing' = [thing EXCEPT ![u] = n]
  BY <1>2
<1>4. n \in Thing
  BY <1>1, <1>2 DEF Thing
<1>5. /\ n.served = thing[u].served /\ n.late = thing[u].late /\ n.parsed = thing[u].parsed
      /\ n.table = thing[u].table /\ n.eaten = thing[u].eaten
  BY <1>1 DEF Thing
<1> HIDE DEF n
<1>6. Sound(u, n)
  BY <1>1, <1>4, <1>5 DEF Sound
<1>7. PICK pc \in Pc \ {"idle", "second"} : ask' = [ask EXCEPT ![u].pc = pc]
  <2>1. ask' = [ask EXCEPT ![u].pc = "start"] \/ ask' = [ask EXCEPT ![u].pc = "search"]
    BY DEF Stat, Goes
  <2> QED BY <2>1 DEF Pc
<1> QED BY <1>1, <1>3, <1>6, <1>7, ObjectStep DEF Stat

\* An answer that tells of no mailbox is true of a version, or of a failure not seen.
LEMMA AnswerStep ==
  ASSUME IInv, NEW u \in User, NEW got \in Answer, NEW hid \in BOOLEAN, Answers(u, got, hid),
         NEW t, Sound(u, t), thing' = [thing EXCEPT ![u] = t], ask[u].pc # "idle",
         got = "absent" /\ ~hid => ask[u].mbox \in Missing(u)
  PROVE  IInv'
<1> DEFINE mbox == ask[u].mbox
<1>1. Shapes /\ mbox \in Address
  BY DEF IInv, Shapes, Question
<1>2. /\ UNCHANGED <<kind, acting, versions, stamp, up, starts, since>>
      /\ misled' = [misled EXCEPT ![u] = IF hid THEN @ \cup {mbox} ELSE @]
  BY DEF Answers, environment
<1>3. thing' \in [User -> Thing] /\ misled' \in [User -> SUBSET Address]
  BY <1>1, <1>2 DEF Shapes, Sound
<1>4. \A v \in User : misled[v] \subseteq misled'[v]
  BY <1>1, <1>2 DEF Shapes
<1>5. \A v \in User : Missing(v) \subseteq Missing(v)'
  BY <1>2, <1>4 DEF Missing, Unlisted, Listed
<1>6. got = "absent" => mbox \in Missing(u)'
  <2>1. CASE hid
    BY <1>1, <1>2, <2>1 DEF Shapes, Missing
  <2>2. CASE got = "absent" /\ ~hid
    BY <1>5, <2>2
  <2> QED BY <2>1, <2>2
<1>7. \A v \in User : Sound(v, thing[v])'
  <2> SUFFICES ASSUME NEW v \in User PROVE Sound(v, thing[v])'
    OBVIOUS
  <2>1. Sound(v, thing'[v])
    BY <1>1 DEF IInv, Informed, Shapes
  <2> QED BY <1>2, <2>1 DEF Sound, Listed
<1>8. ASSUME ask' \in [User -> Question], \A v \in User \ {u} : ask'[v] = ask[v],
             ask'[u].pc = "idle" \/ (ask'[u].pc = "start" /\ ask'[u].got = "none")
      PROVE  \A v \in User : Informed(v)'
  <2> SUFFICES ASSUME NEW v \in User PROVE Informed(v)'
    OBVIOUS
  <2>1. since[v] <= Len(versions) /\ Pending(v)
    BY DEF IInv, Informed
  <2>2. Pending(v)'
    BY <1>2, <1>4, <1>8, <2>1 DEF Pending
  <2> QED BY <1>2, <1>7, <2>1, <2>2 DEF Informed
<1>9. CASE u = "daemon"
  <2>1. SessionGoesOn(got) /\ tool' = tool
    BY <1>9 DEF Answers, SessionGoesOn
  <2>2. session.busy /\ mbox = TryOf(session.to, session.try) /\ session \in Visit
        /\ (session.try = 2 => session.to \in Missing(u))
    BY <1>9 DEF IInv, SessionKnown, Shapes
  <2>3. ask["tool"] \in Question /\ (tool.phase = "idle" => ask["tool"].got = "none" /\ ask["tool"].pc = "idle")
        /\ tool.orphans \subseteq Missing("tool") /\ tool.purged \subseteq Missing("tool")
        /\ ask \in [User -> Question]
    BY DEF IInv, ToolKnown, Shapes, OnlyUnknownPurged, Missing
  <2>4. CASE got = "absent" /\ session.try = 1
    <3>1. /\ session' = [session EXCEPT !.try = 2]
          /\ ask' = [ask EXCEPT !["daemon"] = [pc |-> "start", mbox |-> TryOf(session.to, 2),
                                               got |-> "none", seen |-> 0]]
      BY <2>1, <2>4 DEF SessionGoesOn, Asking
    <3>2. session' \in Visit /\ session'.busy /\ session'.try = 2 /\ session'.to = session.to
      BY <2>2, <3>1 DEF Visit
    <3>3. TryOf(session.to, 2) \in Address
      BY <2>2, TriedAddress DEF Visit
    <3>4. [pc |-> "start", mbox |-> TryOf(session.to, 2), got |-> "none", seen |-> 0] \in Question
      BY <3>3 DEF Question, Pc
    <3>5. /\ ask' \in [User -> Question] /\ ask'["tool"] = ask["tool"]
          /\ ask'["daemon"].pc = "start" /\ ask'["daemon"].got = "none"
          /\ ask'["daemon"].mbox = TryOf(session.to, 2)
      BY <2>3, <3>1, <3>4
    <3>6. Shapes'
      BY <1>1, <1>2, <1>3, <2>1, <3>2, <3>5 DEF Shapes, Stamp
    <3>7. session.to = mbox
      BY <2>2, <2>4 DEF TryOf
    <3>8. SessionKnown'
      BY <1>6, <1>9, <2>4, <3>2, <3>5, <3>7 DEF SessionKnown, TryOf
    <3>9. CatchAllLast'
      BY <3>2 DEF CatchAllLast
    <3>10. ToolKnown' /\ OnlyUnknownPurged'
      BY <1>5, <2>1, <2>3, <3>5 DEF ToolKnown, OnlyUnknownPurged, Missing
    <3>11. \A v \in User : Informed(v)'
      BY <1>8, <1>9, <3>5
    <3> QED BY <3>6, <3>8, <3>9, <3>10, <3>11 DEF IInv
  <2>5. CASE ~(got = "absent" /\ session.try = 1)
    <3>1. /\ session' = [NoSession EXCEPT !.to = session.to]
          /\ ask' = [ask EXCEPT !["daemon"].pc = "idle", !["daemon"].got = got]
      BY <2>1, <2>5 DEF SessionGoesOn, Answered
    <3>2. session' \in Visit /\ ~session'.busy /\ session'.to = session.to
      BY <2>2, <3>1, Beginnings DEF Visit, NoSession
    <3>3. /\ ask' \in [User -> Question] /\ ask'["tool"] = ask["tool"]
          /\ ask'["daemon"].pc = "idle" /\ ask'["daemon"].got = got /\ ask'["daemon"].mbox = mbox
      BY <1>9, <2>3, <3>1 DEF Question, Pc
    <3>4. Shapes'
      BY <1>1, <1>2, <1>3, <2>1, <3>2, <3>3 DEF Shapes, Stamp
    <3>5. SessionKnown'
      BY <3>2, <3>3 DEF SessionKnown
    <3>6. mbox # session.to => mbox = CatchAll[session.to] /\ session.to \in Missing(u)'
      BY <1>5, <2>2 DEF TryOf, Visit
    <3>7. CatchAllLast'
      BY <1>9, <3>2, <3>3, <3>6 DEF CatchAllLast, Missing
    <3>8. ToolKnown' /\ OnlyUnknownPurged'
      BY <1>5, <2>1, <2>3, <3>3 DEF ToolKnown, OnlyUnknownPurged, Missing
    <3>9. \A v \in User : Informed(v)'
      BY <1>8, <1>9, <3>3
    <3> QED BY <3>4, <3>5, <3>7, <3>8, <3>9 DEF IInv
  <2> QED BY <2>4, <2>5
<1>10. CASE u = "tool"
  <2>1. /\ tool' = IF tool.phase = "connect" THEN [tool EXCEPT !.phase = "list"]
                   ELSE [tool EXCEPT !.orphans = IF IsOrphan(got) THEN @ \cup {mbox} ELSE @]
        /\ ask' = [ask EXCEPT !["tool"].pc = "idle", !["tool"].got = got]
        /\ session' = session
    BY <1>10 DEF Answers, ToolGoesOn, Answered
  <2>2. tool \in Purge /\ tool.phase # "idle" /\ ask \in [User -> Question]
        /\ tool.orphans \subseteq Missing(u) /\ tool.purged \subseteq Missing(u)
    BY <1>10 DEF IInv, Shapes, ToolKnown, OnlyUnknownPurged, Missing
  <2>3. /\ ask' \in [User -> Question] /\ ask'["daemon"] = ask["daemon"]
        /\ ask'[u].pc = "idle"
    BY <1>10, <2>1, <2>2 DEF Question, Pc
  <2>4. /\ tool' \in Purge /\ tool'.phase # "idle" /\ tool'.purged = tool.purged
        /\ tool'.orphans \subseteq tool.orphans \cup (IF got = "absent" THEN {mbox} ELSE {})
    BY <1>1, <2>1, <2>2 DEF Purge, IsOrphan
  <2>5. Shapes'
    BY <1>1, <1>2, <1>3, <2>1, <2>3, <2>4 DEF Shapes, Stamp
  <2>6. tool'.orphans \subseteq Missing(u)' /\ tool'.purged \subseteq Missing(u)'
    BY <1>5, <1>6, <2>2, <2>4
  <2>7. ToolKnown' /\ OnlyUnknownPurged'
    BY <1>10, <2>4, <2>6 DEF ToolKnown, OnlyUnknownPurged, Missing
  <2>8. SessionKnown' /\ CatchAllLast'
    BY <1>5, <2>1, <2>3 DEF IInv, SessionKnown, CatchAllLast, Missing
  <2>9. \A v \in User : Informed(v)'
    BY <1>8, <1>10, <2>3
  <2> QED BY <2>5, <2>7, <2>8, <2>9 DEF IInv
<1> QED BY <1>9, <1>10

LEMMA TextSearchedStep ==
  ASSUME IInv, NEW u \in User, TextSearched(u)
  PROVE  IInv'
<1> DEFINE t == thing[u]
           mbox == ask[u].mbox
           got == IF t.parsed THEN FoundIn(t.table, mbox) ELSE "error"
           hid == got = "absent" /\ t.eaten
<1>1. /\ Shapes /\ Sound(u, t) /\ t \in Thing /\ since[u] <= Len(versions)
      /\ mbox \in Address /\ kind = "text" /\ ask[u].pc # "idle"
  BY DEF IInv, Informed, Shapes, Question, TextSearched
<1>2. Answers(u, got, hid) /\ thing' = thing
  BY DEF TextSearched
<1>3. got \in Answer /\ hid \in BOOLEAN
  BY <1>1, SearchFinds DEF Answer, Thing
<1>4. thing' = [thing EXCEPT ![u] = t]
  BY <1>1, <1>2 DEF Shapes
<1>5. ASSUME got = "absent", ~hid
      PROVE  mbox \in Unlisted(u)
  <2>1. t.parsed /\ mbox \notin Addresses(t.table) /\ ~t.eaten
    BY <1>5, SearchFinds
  <2>2. /\ t.served \in Nat \ {0} /\ t.served <= Len(versions) /\ since[u] <= t.served
        /\ mbox \notin Listed(t.served)
    BY <1>1, <2>1 DEF Sound, Thing
  <2>3. t.served \in 1..Len(versions)
    BY <1>1, <2>2 DEF Shapes
  <2> QED BY <1>1, <2>2, <2>3, NotListed
<1>6. got = "absent" /\ ~hid => mbox \in Missing(u)
  BY <1>5 DEF Missing
<1> HIDE DEF got, hid, mbox, t
<1> QED BY <1>1, <1>2, <1>3, <1>4, <1>6, AnswerStep DEF mbox

LEMMA TextGoneStep ==
  ASSUME IInv, NEW u \in User, TextGone(u)
  PROVE  IInv'
<1>1. Shapes /\ Sound(u, thing[u]) /\ ask[u].pc # "idle"
  BY DEF IInv, Informed, TextGone
<1>2. Answers(u, "error", FALSE) /\ thing' = [thing EXCEPT ![u] = thing[u]]
  BY <1>1 DEF TextGone, Shapes
<1>3. "error" \in Answer
  BY DEF Answer
<1> QED BY <1>1, <1>2, <1>3, AnswerStep

\* What a lookup at a server answers, and the object it leaves.
LEMMA OutcomeIs ==
  ASSUME IInv, NEW u \in User, kind # "text", ask[u].pc \in {"start", "second"},
         NEW o \in Outcomes(u), Linked(u, o)
  PROVE  /\ Plausible(kind, Row(u), ask[u].pc = "second", o)
         /\ \E t : /\ Sound(u, t) /\ thing' = [thing EXCEPT ![u] = t]
                   /\ t.served = IF o.got = "error" THEN thing[u].served ELSE Len(versions)
<1>1. Shapes /\ Sound(u, thing[u]) /\ thing[u] \in Thing
  BY DEF IInv, Informed, Shapes
<1>2. /\ kind \in Kind \ {"text"} /\ thing[u].conn \in Link /\ thing[u].late \in Seq(Found)
      /\ Len(thing[u].late) <= 1 /\ up \in BOOLEAN
  BY <1>1, ResolverAssumption DEF Shapes, Sound, Thing
<1>3. Row(u) \in Found
  BY SearchFinds DEF Row
<1>4. (u = "daemon" /\ session.login) \in BOOLEAN /\ (ask[u].pc = "second") \in BOOLEAN
  BY <1>1 DEF Shapes, Visit
<1>5. Plausible(kind, Row(u), ask[u].pc = "second", o)
  BY <1>2, <1>3, <1>4, LookupAnswers DEF Outcomes
<1> DEFINE served == IF o.got = "error" THEN thing[u].served ELSE Len(versions)
           t == [thing[u] EXCEPT !.conn = o.conn, !.late = o.late, !.served = served]
<1>6. o.conn \in Link /\ o.late \in Seq(Found) /\ Len(o.late) <= 1
  BY <1>5 DEF Plausible
<1>7. thing' = [thing EXCEPT ![u] = t]
  BY <1>1 DEF Linked, Shapes, Thing
<1>8. served \in Nat /\ served <= Len(versions)
  BY <1>1 DEF Shapes, Sound, Thing
<1>9. t \in Thing /\ t.served = served /\ t.late = o.late /\ t.parsed = thing[u].parsed
  BY <1>1, <1>6, <1>8 DEF Thing
<1>10. ~thing[u].parsed
  BY <1>1 DEF Sound
<1> HIDE DEF t
<1>11. Sound(u, t)
  BY <1>6, <1>8, <1>9, <1>10 DEF Sound
<1> QED BY <1>5, <1>7, <1>9, <1>11

LEMMA ServerAnswersStep ==
  ASSUME IInv, NEW u \in User, ServerAnswers(u)
  PROVE  IInv'
<1> DEFINE mbox == ask[u].mbox
<1>1. /\ Shapes /\ since[u] <= Len(versions) /\ mbox \in Address /\ Pending(u)
      /\ kind # "text" /\ ask[u].pc \in {"start", "second"}
  BY DEF IInv, Informed, Shapes, Question, ServerAnswers
<1>2. PICK o \in Outcomes(u) :
        /\ ~o.more /\ Linked(u, o)
        /\ Answers(u, o.got, o.hid \/ (/\ o.got = "absent" /\ ask[u].pc = "second"
                                       /\ ask[u].seen # Len(versions)))
  BY DEF ServerAnswers
<1>3. /\ Plausible(kind, Row(u), ask[u].pc = "second", o)
      /\ \E t : Sound(u, t) /\ thing' = [thing EXCEPT ![u] = t]
  BY <1>1, <1>2, OutcomeIs
<1> DEFINE hid == o.hid \/ (o.got = "absent" /\ ask[u].pc = "second" /\ ask[u].seen # Len(versions))
<1>4. o.got \in Answer /\ o.hid \in BOOLEAN /\ hid \in BOOLEAN
  BY <1>3 DEF Plausible
<1>5. Len(versions) \in 1..Len(versions) /\ since[u] <= Len(versions)
  BY <1>1 DEF Shapes
<1>6. ASSUME Row(u) = "absent"
      PROVE  mbox \in Unlisted(u)
  <2>1. mbox \notin Listed(Len(versions))
    BY <1>6, SearchFinds, ListedIs DEF Row, Present
  <2> QED BY <1>1, <1>5, <2>1, NotListed
<1>7. ASSUME o.got = "absent", ~hid
      PROVE  mbox \in Missing(u)
  <2>1. CASE ask[u].pc = "second"
    <3>1. mbox \in misled[u] \/ FoundIn(Present.entries, mbox) # "forward"
      BY <1>1, <1>7, <2>1 DEF Pending, Present
    <3>2. Row(u) = "absent" \/ Row(u) # "mailbox"
      BY <1>2, <1>3, <1>7, <2>1 DEF Plausible
    <3>3. mbox \in misled[u] \/ Row(u) = "absent"
      BY <3>1, <3>2, SearchFinds DEF Row, Found
    <3> QED BY <1>6, <3>3 DEF Missing
  <2>2. CASE ask[u].pc # "second"
    <3>1. Row(u) = "absent"
      BY <1>2, <1>3, <1>7, <2>2 DEF Plausible
    <3> QED BY <1>6, <3>1 DEF Missing
  <2> QED BY <2>1, <2>2
<1>8. o.got = "absent" /\ ~hid => mbox \in Missing(u)
  BY <1>7
<1> HIDE DEF hid, mbox
<1> QED BY <1>1, <1>2, <1>3, <1>4, <1>8, AnswerStep DEF hid, mbox

LEMMA SecondQueryStep ==
  ASSUME IInv, NEW u \in User, SecondQuery(u)
  PROVE  IInv'
<1> DEFINE mbox == ask[u].mbox
<1>1. /\ Shapes /\ since[u] <= Len(versions) /\ mbox \in Address /\ Pending(u)
      /\ kind # "text" /\ ask[u].pc = "start"
  BY DEF IInv, Informed, Shapes, Question, SecondQuery
<1>2. PICK o \in Outcomes(u) :
        /\ o.more /\ Linked(u, o)
        /\ misled' = [misled EXCEPT ![u] = IF o.hid THEN @ \cup {mbox} ELSE @]
  BY DEF SecondQuery
<1>3. /\ Plausible(kind, Row(u), FALSE, o)
      /\ \E t : Sound(u, t) /\ thing' = [thing EXCEPT ![u] = t]
  BY <1>1, <1>2, OutcomeIs
<1>4. PICK t : Sound(u, t) /\ thing' = [thing EXCEPT ![u] = t]
  BY <1>3
<1>5. /\ ask' = [ask EXCEPT ![u].pc = "second", ![u].seen = Len(versions)]
      /\ UNCHANGED <<kind, acting, versions, stamp, up, session, tool, starts, since>>
  BY DEF SecondQuery, environment
<1>6. /\ thing' \in [User -> Thing] /\ misled' \in [User -> SUBSET Address]
      /\ ask' \in [User -> Question] /\ Len(versions) \in 1..Len(versions)
  <2>1. Len(versions) \in Nat /\ Len(versions) \in 1..Len(versions)
    BY <1>1 DEF Shapes
  <2>2. ask' \in [User -> Question]
    BY <1>1, <1>5, <2>1 DEF Shapes, Question, Pc
  <2>3. thing' \in [User -> Thing]
    BY <1>1, <1>4 DEF Shapes, Sound
  <2>4. misled' \in [User -> SUBSET Address]
    BY <1>1, <1>2 DEF Shapes
  <2> QED BY <2>1, <2>2, <2>3, <2>4
<1>7. Shapes'
  BY <1>1, <1>5, <1>6 DEF Shapes, Stamp
<1>8. \A v \in User : /\ misled[v] \subseteq misled'[v]
                      /\ ask'[v].mbox = ask[v].mbox /\ ask'[v].got = ask[v].got
                      /\ ask'[v].pc # "idle" => ask[v].pc # "idle"
                      /\ v # u => ask'[v] = ask[v] /\ misled'[v] = misled[v]
  BY <1>1, <1>2, <1>5 DEF Shapes, Question
<1>9. \A v \in User : Missing(v) \subseteq Missing(v)'
  BY <1>5, <1>8 DEF Missing, Unlisted, Listed
<1>10. ASSUME NEW v \in User
       PROVE  Informed(v)'
  <2>1. since[v] <= Len(versions) /\ Sound(v, thing'[v]) /\ Pending(v)
    BY <1>1, <1>4 DEF IInv, Informed, Shapes
  <2>2. Sound(v, thing[v])'
    BY <1>5, <2>1 DEF Sound, Listed
  <2>3. CASE v # u
    BY <1>5, <1>8, <2>1, <2>2, <2>3 DEF Informed, Pending
  <2>4. CASE v = u
    <3>1. ask'[u].seen = Len(versions) /\ ask'[u].mbox = mbox /\ ask'[u].got = "none"
      BY <1>1, <1>5, <1>8 DEF Shapes, Question, Pending
    <3>2. kind = "mysqlpdns" /\ (o.hid \/ Row(u) # "forward")
      BY <1>2, <1>3 DEF Plausible
    <3>3. mbox \in misled'[u] \/ FoundIn(versions[Len(versions)].entries, mbox) # "forward"
      BY <1>1, <1>2, <3>2 DEF Row, Present, Shapes
    <3>4. Pending(u)'
      BY <1>5, <1>6, <3>1, <3>2, <3>3 DEF Pending
    <3> QED BY <1>5, <2>1, <2>2, <2>4, <3>4 DEF Informed
  <2> QED BY <2>3, <2>4
<1>11. SessionKnown' /\ ToolKnown'
  BY <1>5, <1>8, <1>9 DEF IInv, SessionKnown, ToolKnown
<1>12. CatchAllLast' /\ OnlyUnknownPurged'
  <2>1. CatchAllLast /\ OnlyUnknownPurged
    BY DEF IInv
  <2> QED BY <1>5, <1>8, <1>9, <2>1 DEF CatchAllLast, OnlyUnknownPurged, Missing
<1> QED BY <1>7, <1>10, <1>11, <1>12 DEF IInv

-----------------------------------------------------------------------------
(* The administrator, the server and the connections to it.                *)

LEMMA EditStep ==
  ASSUME IInv, Edit
  PROVE  IInv'
<1>1. PICK f \in Contents : versions' = Append(versions, f)
  BY DEF Edit
<1>2. /\ Shapes /\ Len(versions) <= MaxEdits
      /\ UNCHANGED <<kind, acting, up, thing, ask, session, tool, starts, since, misled>>
  BY DEF IInv, Edit, history
<1>3. Len(versions) \in Nat /\ versions \in Seq(Contents)
  BY <1>2 DEF Shapes
<1>4. /\ versions' \in Seq(Contents) /\ Len(versions') = Len(versions) + 1
      /\ \A n \in 1..Len(versions) : versions'[n] = versions[n]
  BY <1>1, <1>3, AppendProperties
<1>5. Shapes'
  <2>1. Len(versions') \in 1..(MaxEdits + 1)
    BY <1>2, <1>3, <1>4, ResolverAssumption
  <2>2. stamp' \in Stamp
    BY DEF Edit
  <2> QED BY <1>2, <1>4, <2>1, <2>2 DEF Shapes, Stamp
<1>6. \A v \in User : Missing(v) \subseteq Missing(v)'
  <2>1. \A v \in User : since'[v] = since[v] /\ misled[v] \subseteq misled'[v]
    BY <1>2
  <2>2. Len(versions) <= Len(versions') /\ Len(versions') \in Nat
    BY <1>3, <1>4
  <2> QED BY <1>2, <1>4, <2>1, <2>2, MissingStays
<1>7. ASSUME NEW v \in User
      PROVE  Informed(v)'
  <2>1. since[v] <= Len(versions) /\ Sound(v, thing[v]) /\ Pending(v) /\ thing[v] \in Thing
        /\ since[v] \in Nat
    BY <1>2 DEF IInv, Informed, Shapes
  <2> DEFINE served == thing[v].served
  <2>2. served \in Nat /\ served <= Len(versions)
    BY <2>1 DEF Sound, Thing
  <2>3. served # 0 => versions'[served] = versions[served]
    BY <1>3, <1>4, <2>2
  <2>4. served # 0 => Listed(served)' = Listed(served)
    BY <1>2, <2>3 DEF Listed
  <2>5. Sound(v, thing[v])'
    <3>1. /\ thing'[v] \in Thing' /\ served <= Len(versions') /\ Len(thing[v].late) <= 1
          /\ kind = "text" /\ served # 0 => since[v] <= served
      BY <1>2, <1>3, <1>4, <2>1, <2>2 DEF Sound, Thing, Stamp
    <3>2. thing[v].parsed =>
            /\ kind = "text" /\ served # 0
            /\ Addresses(thing[v].table) \subseteq Listed(served)'
            /\ ~thing[v].eaten => Listed(served)' \subseteq Addresses(thing[v].table)
      BY <2>1, <2>4 DEF Sound
    <3> QED BY <1>2, <3>1, <3>2 DEF Sound, Addresses
  <2>6. Pending(v)'
    <3>1. ask[v].pc = "second" => versions'[ask[v].seen] = versions[ask[v].seen]
      BY <1>4, <2>1 DEF Pending
    <3>2. ask[v].pc = "second" => ask[v].seen \in 1..Len(versions')
      BY <1>3, <1>4, <2>1 DEF Pending
    <3> QED BY <1>2, <2>1, <3>1, <3>2 DEF Pending
  <2> QED BY <1>2, <1>3, <1>4, <2>1, <2>5, <2>6 DEF Informed
<1>8. SessionKnown' /\ ToolKnown'
  BY <1>2, <1>6 DEF IInv, SessionKnown, ToolKnown
<1>9. CatchAllLast' /\ OnlyUnknownPurged'
  <2>1. CatchAllLast /\ OnlyUnknownPurged
    BY DEF IInv
  <2> QED BY <1>2, <1>6, <2>1 DEF CatchAllLast, OnlyUnknownPurged, Missing
<1> QED BY <1>5, <1>7, <1>8, <1>9 DEF IInv

\* t is what s is, but for the connection.
SameButLink(s, t) == /\ t.served = s.served /\ t.late = s.late /\ t.parsed = s.parsed
                     /\ t.table = s.table /\ t.eaten = s.eaten

\* A step of the server: connections break, or nothing of a user changes.
LEMMA ServerStep ==
  ASSUME IInv, thing' \in [User -> Thing], \A u \in User : SameButLink(thing[u], thing'[u]),
         up' \in BOOLEAN,
         UNCHANGED <<kind, acting, versions, stamp, ask, session, tool, starts, since, misled>>
  PROVE  IInv'
<1>1. Shapes'
  BY DEF IInv, Shapes, Stamp
<1>2. \A v \in User : Missing(v)' = Missing(v)
  BY DEF Missing, Unlisted, Listed
<1>3. ASSUME NEW v \in User
      PROVE  Informed(v)'
  <2>1. since[v] <= Len(versions) /\ Sound(v, thing[v]) /\ Pending(v)
    BY DEF IInv, Informed
  <2>2. Sound(v, thing'[v])
    BY <2>1 DEF Sound, SameButLink
  <2>3. Sound(v, thing[v])'
    BY <2>2 DEF Sound, Listed
  <2> QED BY <2>1, <2>3 DEF Informed, Pending
<1>4. SessionKnown' /\ ToolKnown'
  BY <1>2 DEF IInv, SessionKnown, ToolKnown
<1>5. CatchAllLast' /\ OnlyUnknownPurged'
  <2>1. CatchAllLast /\ OnlyUnknownPurged
    BY DEF IInv
  <2> QED BY <1>2, <2>1 DEF CatchAllLast, OnlyUnknownPurged, Missing
<1> QED BY <1>1, <1>3, <1>4, <1>5 DEF IInv

LEMMA VanishStep ==
  ASSUME IInv, Vanish
  PROVE  IInv'
<1>1. \A u \in User : thing[u] \in Thing
  BY DEF IInv, Shapes
<1>2. ASSUME NEW u \in User, NEW t, t = [thing[u] EXCEPT !.conn = IF @ = "open" THEN "broken" ELSE @]
      PROVE  t \in Thing /\ SameButLink(thing[u], t)
  BY <1>1, <1>2 DEF Thing, Link, SameButLink
<1>3. /\ thing' = [u \in User |-> [thing[u] EXCEPT !.conn = IF @ = "open" THEN "broken" ELSE @]]
      /\ up' = FALSE
  BY DEF Vanish
<1>4. thing' \in [User -> Thing] /\ \A u \in User : SameButLink(thing[u], thing'[u])
  BY <1>2, <1>3
<1>5. UNCHANGED <<kind, acting, versions, stamp, ask, session, tool, starts, since, misled>>
  BY DEF Vanish, history
<1>6. up' \in BOOLEAN
  BY <1>3
<1> QED BY <1>4, <1>5, <1>6, ServerStep

LEMMA ReturnStep ==
  ASSUME IInv, Return
  PROVE  IInv'
<1>1. thing' \in [User -> Thing] /\ \A u \in User : SameButLink(thing[u], thing'[u])
  BY DEF IInv, Shapes, Return, SameButLink
<1>2. UNCHANGED <<kind, acting, versions, stamp, ask, session, tool, starts, since, misled>>
  BY DEF Return, history
<1> QED BY <1>1, <1>2, ServerStep DEF Return

-----------------------------------------------------------------------------
(* Sessions of the daemon.                                                 *)

\* A user that begins a command gets an object that is sound for what the command may
\* answer by from now on.
LEMMA GetsIs ==
  ASSUME IInv, NEW u \in User, Gets(u), UNCHANGED environment
  PROVE  /\ thing' \in [User -> Thing] /\ since' \in [User -> Nat]
         /\ misled' \in [User -> SUBSET Address]
         /\ \A v \in User : since'[v] <= Len(versions') /\ Sound(v, thing[v])'
         /\ \A v \in User \ {u} : since'[v] = since[v] /\ misled'[v] = misled[v]
         /\ \A v \in User : SameButLink(thing[v], thing'[v])
<1> DEFINE t == [thing[u] EXCEPT !.made = TRUE,
                                 !.conn = IF thing[u].made \/ kind = "text" THEN @
                                          ELSE Constructed(kind, up)]
           s == IF kind = "text" /\ thing[u].served > 0 THEN thing[u].served ELSE Len(versions)
<1>1. /\ Shapes /\ thing[u] \in Thing /\ Len(versions) \in Nat
      /\ \A v \in User : since[v] <= Len(versions) /\ Sound(v, thing[v])
  BY DEF IInv, Shapes, Informed
<1>2. Constructed(kind, up) \in Link
  BY <1>1, TriedLink DEF Constructed, OracleConnects, Shapes, Link
<1>3. t \in Thing /\ SameButLink(thing[u], t)
  BY <1>1, <1>2 DEF Thing, SameButLink
<1>4. thing' = [thing EXCEPT ![u] = t]
  BY <1>1 DEF Gets, Shapes, Thing
<1>5. since' = [since EXCEPT ![u] = s] /\ misled' = [misled EXCEPT ![u] = {}]
  BY DEF Gets
<1>6. /\ s \in Nat /\ s <= Len(versions)
      /\ kind = "text" /\ thing[u].served # 0 => s <= thing[u].served
  BY <1>1 DEF Sound, Thing
<1> HIDE DEF t, s
<1>7. thing' \in [User -> Thing] /\ since' \in [User -> Nat]
      /\ misled' \in [User -> SUBSET Address]
  BY <1>1, <1>3, <1>4, <1>5, <1>6 DEF Shapes
<1>8. ASSUME NEW v \in User
      PROVE  /\ since'[v] <= Len(versions') /\ Sound(v, thing[v])'
             /\ SameButLink(thing[v], thing'[v])
  <2>1. SameButLink(thing[v], thing'[v]) /\ thing'[v] \in Thing
    BY <1>1, <1>3, <1>4, <1>7 DEF Shapes, SameButLink
  <2>2. since'[v] <= Len(versions)
        /\ (kind = "text" /\ thing[v].served # 0 => since'[v] <= thing[v].served)
    BY <1>1, <1>5, <1>6 DEF Shapes, Sound
  <2>3. /\ thing'[v] \in Thing /\ thing'[v].served <= Len(versions) /\ Len(thing'[v].late) <= 1
        /\ kind = "text" /\ thing'[v].served # 0 => since'[v] <= thing'[v].served
        /\ thing'[v].parsed =>
             /\ kind = "text" /\ thing'[v].served # 0
             /\ Addresses(thing'[v].table) \subseteq Listed(thing'[v].served)
             /\ ~thing'[v].eaten => Listed(thing'[v].served) \subseteq Addresses(thing'[v].table)
    BY <1>1, <2>1, <2>2 DEF Sound, SameButLink
  <2> QED BY <2>1, <2>2, <2>3 DEF Sound, Listed, environment
<1>9. \A v \in User \ {u} : since'[v] = since[v] /\ misled'[v] = misled[v]
  BY <1>1, <1>5 DEF Shapes
<1> QED BY <1>7, <1>8, <1>9

LEMMA AskStep ==
  ASSUME IInv, Ask
  PROVE  IInv'
<1>1. PICK to \in Address, login \in BOOLEAN :
        /\ session' = [busy |-> TRUE, login |-> login, to |-> to, try |-> 1]
        /\ ask' = [Asking("daemon", TryOf(to, 1)) EXCEPT
                     !["daemon"].pc = IF kind = "text" /\ ~thing["daemon"].made THEN "launch" ELSE "start"]
  BY DEF Ask
<1>2. /\ Gets("daemon") /\ UNCHANGED environment /\ Shapes /\ ask \in [User -> Question]
      /\ UNCHANGED <<kind, acting, versions, stamp, up, tool, starts>>
  BY DEF Ask, environment, IInv, Shapes
<1>3. /\ thing' \in [User -> Thing] /\ since' \in [User -> Nat]
      /\ misled' \in [User -> SUBSET Address]
      /\ \A v \in User : since'[v] <= Len(versions') /\ Sound(v, thing[v])'
      /\ since'["tool"] = since["tool"] /\ misled'["tool"] = misled["tool"]
  BY <1>2, GetsIs
<1>4. TryOf(to, 1) \in Address
  BY TriedAddress
<1> DEFINE asking == Asking("daemon", TryOf(to, 1))
<1>5. /\ asking \in [User -> Question] /\ asking["tool"] = ask["tool"]
      /\ asking["daemon"].mbox = TryOf(to, 1) /\ asking["daemon"].got = "none"
  <2>1. [pc |-> "start", mbox |-> TryOf(to, 1), got |-> "none", seen |-> 0] \in Question
    BY <1>4 DEF Question, Pc
  <2> QED BY <1>2, <2>1 DEF Asking
<1>6. PICK pc \in {"launch", "start"} : ask' = [asking EXCEPT !["daemon"].pc = pc]
  BY <1>1
<1> HIDE DEF asking
<1>7. /\ ask' \in [User -> Question] /\ ask'["tool"] = ask["tool"]
      /\ ask'["daemon"].pc = pc /\ ask'["daemon"].got = "none"
      /\ ask'["daemon"].mbox = TryOf(to, 1)
  BY <1>5, <1>6 DEF Question, Pc
<1>8. session' \in Visit /\ session'.busy /\ session'.to = to /\ session'.try = 1
  BY <1>1 DEF Visit
<1>9. Shapes'
  BY <1>2, <1>3, <1>7, <1>8 DEF Shapes, Stamp
<1>10. SessionKnown' /\ CatchAllLast'
  BY <1>7, <1>8 DEF SessionKnown, CatchAllLast
<1>11. ToolKnown' /\ OnlyUnknownPurged'
  <2>1. ToolKnown /\ OnlyUnknownPurged
    BY DEF IInv
  <2>2. Missing("tool")' = Missing("tool")
    BY <1>2, <1>3 DEF Missing, Unlisted, Listed
  <2> QED BY <1>2, <1>7, <2>1, <2>2 DEF ToolKnown, OnlyUnknownPurged, Missing
<1>12. \A v \in User : Pending(v)'
  <2>1. Pending("tool")
    BY DEF IInv, Informed
  <2>2. Pending("tool")'
    BY <1>2, <1>3, <1>7, <2>1 DEF Pending
  <2>3. Pending("daemon")'
    BY <1>6, <1>7 DEF Pending
  <2> QED BY <2>2, <2>3
<1> QED BY <1>3, <1>9, <1>10, <1>11, <1>12 DEF IInv, Informed

LEMMA DaemonRestartStep ==
  ASSUME IInv, DaemonRestart
  PROVE  IInv'
<1>1. /\ thing' = [thing EXCEPT !["daemon"] = NoThing] /\ ask' = [ask EXCEPT !["daemon"] = Quiet]
      /\ session' = NoSession /\ starts' = starts + 1 /\ starts < MaxStarts
      /\ UNCHANGED <<kind, acting, versions, stamp, up, tool, since, misled>>
  BY DEF DaemonRestart, environment
<1>2. Shapes /\ thing \in [User -> Thing] /\ ask \in [User -> Question]
  BY DEF IInv, Shapes
<1>3. /\ thing' \in [User -> Thing] /\ ask' \in [User -> Question] /\ session' \in Visit
      /\ thing'["daemon"] = NoThing /\ thing'["tool"] = thing["tool"]
      /\ ask'["daemon"] = Quiet /\ ask'["tool"] = ask["tool"]
  BY <1>1, <1>2, Beginnings
<1>4. starts' \in 1..MaxStarts
  BY <1>1, <1>2, ResolverAssumption DEF Shapes
<1>5. Shapes'
  BY <1>1, <1>2, <1>3, <1>4 DEF Shapes, Stamp
<1>6. Quiet.pc = "idle" /\ Quiet.got = "none" /\ NoSession.busy = FALSE
  BY DEF Quiet, NoSession
<1>7. SessionKnown' /\ CatchAllLast'
  BY <1>1, <1>3, <1>6 DEF SessionKnown, CatchAllLast
<1>8. ToolKnown' /\ OnlyUnknownPurged'
  <2>1. ToolKnown /\ OnlyUnknownPurged
    BY DEF IInv
  <2>2. Missing("tool")' = Missing("tool")
    BY <1>1 DEF Missing, Unlisted, Listed
  <2> QED BY <1>1, <1>3, <2>1, <2>2 DEF ToolKnown, OnlyUnknownPurged, Missing
<1>9. ASSUME NEW v \in User
      PROVE  Informed(v)'
  <2>1. since[v] <= Len(versions) /\ Sound(v, thing[v]) /\ Pending(v)
    BY DEF IInv, Informed
  <2>2. Sound(v, thing'[v])
    BY <1>2, <1>3, <2>1, NewThingSound
  <2>3. Sound(v, thing[v])'
    BY <1>1, <2>2 DEF Sound, Listed
  <2>4. Pending(v)'
    BY <1>1, <1>3, <1>6, <2>1 DEF Pending
  <2> QED BY <1>1, <2>1, <2>3, <2>4 DEF Informed
<1> QED BY <1>5, <1>7, <1>8, <1>9 DEF IInv

-----------------------------------------------------------------------------
(* pptool purge-orphans.                                                   *)

LEMMA ToolStartStep ==
  ASSUME IInv, ToolStart
  PROVE  IInv'
<1>1. /\ tool.phase = "idle" /\ Gets("tool") /\ UNCHANGED environment
      /\ tool' = [NoTool EXCEPT !.phase = IF kind = "text" THEN "connect" ELSE "list", !.left = Backend]
      /\ ask' = IF kind = "text" THEN [ask EXCEPT !["tool"].pc = "launch"] ELSE ask
      /\ UNCHANGED <<kind, acting, versions, stamp, up, session, starts>>
  BY DEF ToolStart, environment
<1>2. Shapes /\ ask \in [User -> Question] /\ ask["tool"].got = "none" /\ ask["tool"].pc = "idle"
  BY <1>1 DEF IInv, Shapes, ToolKnown
<1>3. /\ thing' \in [User -> Thing] /\ since' \in [User -> Nat]
      /\ misled' \in [User -> SUBSET Address]
      /\ \A v \in User : since'[v] <= Len(versions') /\ Sound(v, thing[v])'
      /\ since'["daemon"] = since["daemon"] /\ misled'["daemon"] = misled["daemon"]
  BY <1>1, GetsIs
<1>4. /\ tool' \in Purge /\ tool'.phase # "idle" /\ tool'.orphans = {} /\ tool'.purged = {}
  BY <1>1 DEF NoTool, Purge
<1>5. /\ ask' \in [User -> Question] /\ ask'["daemon"] = ask["daemon"]
      /\ ask'["tool"].got = "none" /\ ask'["tool"].pc \in {"idle", "launch"}
  BY <1>1, <1>2 DEF Question, Pc
<1>6. Shapes'
  BY <1>1, <1>2, <1>3, <1>4, <1>5 DEF Shapes, Stamp
<1>7. ToolKnown' /\ OnlyUnknownPurged'
  BY <1>4 DEF ToolKnown, OnlyUnknownPurged
<1>8. SessionKnown' /\ CatchAllLast'
  <2>1. SessionKnown /\ CatchAllLast
    BY DEF IInv
  <2>2. Missing("daemon")' = Missing("daemon")
    BY <1>1, <1>3 DEF Missing, Unlisted, Listed
  <2> QED BY <1>1, <1>5, <2>1, <2>2 DEF SessionKnown, CatchAllLast, Missing
<1>9. \A v \in User : Pending(v)'
  <2>1. Pending("daemon")
    BY DEF IInv, Informed
  <2>2. Pending("daemon")'
    BY <1>1, <1>3, <1>5, <2>1 DEF Pending
  <2>3. Pending("tool")'
    BY <1>5 DEF Pending
  <2> QED BY <2>2, <2>3
<1> QED BY <1>3, <1>6, <1>7, <1>8, <1>9 DEF IInv, Informed

\* A step of the tool that neither asks nor decides anything new.
LEMMA ToolWorkStep ==
  ASSUME IInv, tool' \in Purge, tool'.phase = "idle" => tool.phase = "idle",
         tool'.orphans = tool.orphans, tool'.purged \subseteq tool.purged \cup tool.orphans,
         UNCHANGED <<environment, thing, session, history>>,
         ask' \in [User -> Question], ask'["daemon"] = ask["daemon"],
         \/ ask' = ask
         \/ ask'["tool"].pc = "start" /\ ask'["tool"].got = "none" /\ tool'.phase # "idle"
  PROVE  IInv'
<1> USE DEF environment, history
<1>1. Shapes'
  BY DEF IInv, Shapes, Stamp
<1>2. \A v \in User : Missing(v)' = Missing(v)
  BY DEF Missing, Unlisted, Listed
<1>3. SessionKnown' /\ CatchAllLast'
  <2>1. SessionKnown /\ CatchAllLast
    BY DEF IInv
  <2> QED BY <1>2, <2>1 DEF SessionKnown, CatchAllLast, Missing
<1>4. ToolKnown' /\ OnlyUnknownPurged'
  <2>1. ToolKnown /\ OnlyUnknownPurged
    BY DEF IInv
  <2> QED BY <1>2, <2>1 DEF ToolKnown, OnlyUnknownPurged, Missing
<1>5. ASSUME NEW v \in User
      PROVE  Informed(v)'
  <2>1. since[v] <= Len(versions) /\ Sound(v, thing[v]) /\ Pending(v)
    BY DEF IInv, Informed
  <2>2. Sound(v, thing[v])'
    BY <2>1 DEF Sound, Listed
  <2>3. Pending(v)'
    BY <2>1 DEF Pending
  <2> QED BY <2>1, <2>2, <2>3 DEF Informed
<1> QED BY <1>1, <1>3, <1>4, <1>5 DEF IInv

LEMMA ToolListStep ==
  ASSUME IInv, NEW b \in Backend, ToolList(b)
  PROVE  IInv'
<1>1. PICK found \in SUBSET Address :
        tool' = [tool EXCEPT !.todo = @ \cup found, !.left = IF @ = {b} THEN Backend ELSE @ \ {b},
                             !.phase = IF tool.left = {b} THEN "lookup" ELSE @]
  BY DEF ToolList
<1>2. tool \in Purge /\ tool.phase = "list" /\ ask \in [User -> Question]
      /\ UNCHANGED <<environment, thing, ask, session, history>>
  BY DEF ToolList, IInv, Shapes
<1>3. /\ tool' \in Purge /\ tool'.phase \in {"list", "lookup"} /\ tool'.orphans = tool.orphans
      /\ tool'.purged = tool.purged
  BY <1>1, <1>2 DEF Purge
<1> QED BY <1>2, <1>3, ToolWorkStep

LEMMA ToolPurgeStep ==
  ASSUME IInv, NEW b \in Backend, ToolPurge(b)
  PROVE  IInv'
<1>1. PICK some \in SUBSET tool.orphans :
        tool' = [tool EXCEPT !.left = @ \ {b}, !.purged = @ \cup some]
  BY DEF ToolPurge
<1>2. tool \in Purge /\ ask \in [User -> Question]
      /\ UNCHANGED <<environment, thing, ask, session, history>>
  BY DEF ToolPurge, IInv, Shapes
<1>3. /\ tool' \in Purge /\ tool'.phase = tool.phase /\ tool'.orphans = tool.orphans
      /\ tool'.purged \subseteq tool.purged \cup tool.orphans
  BY <1>1, <1>2 DEF Purge
<1> QED BY <1>2, <1>3, ToolWorkStep

LEMMA ToolLooksUpStep ==
  ASSUME IInv, ToolLooksUp
  PROVE  IInv'
<1>1. PICK mbox \in tool.todo :
        /\ tool' = [tool EXCEPT !.todo = @ \ {mbox}]
        /\ ask' = [ask EXCEPT !["tool"] = [pc |-> "start", mbox |-> mbox, got |-> "none", seen |-> 0]]
  BY DEF ToolLooksUp, Asking
<1>2. tool \in Purge /\ tool.phase = "lookup" /\ ask \in [User -> Question]
      /\ UNCHANGED <<environment, thing, session, history>>
  BY DEF ToolLooksUp, IInv, Shapes
<1>3. mbox \in Address
  BY <1>2 DEF Purge
<1>4. /\ tool' \in Purge /\ tool'.phase = "lookup" /\ tool'.orphans = tool.orphans
      /\ tool'.purged = tool.purged
  BY <1>1, <1>2 DEF Purge
<1>5. [pc |-> "start", mbox |-> mbox, got |-> "none", seen |-> 0] \in Question
  BY <1>3 DEF Question, Pc
<1>6. /\ ask' \in [User -> Question] /\ ask'["daemon"] = ask["daemon"]
      /\ ask'["tool"].pc = "start" /\ ask'["tool"].got = "none"
  BY <1>1, <1>2, <1>5
<1> QED BY <1>2, <1>4, <1>6, ToolWorkStep

LEMMA ToolEndsStep ==
  ASSUME IInv, ToolEnds
  PROVE  IInv'
<1>1. /\ thing' = [thing EXCEPT !["tool"] = NoThing] /\ ask' = [ask EXCEPT !["tool"] = Quiet]
      /\ tool' = NoTool /\ since' = [since EXCEPT !["tool"] = 0]
      /\ misled' = [misled EXCEPT !["tool"] = {}]
      /\ UNCHANGED <<kind, acting, versions, stamp, up, session, starts>>
  BY DEF ToolEnds, environment
<1>2. Shapes /\ thing \in [User -> Thing] /\ ask \in [User -> Question]
      /\ since \in [User -> Nat] /\ misled \in [User -> SUBSET Address] /\ Len(versions) \in Nat
  BY DEF IInv, Shapes
<1>3. /\ thing' \in [User -> Thing] /\ ask' \in [User -> Question]
      /\ since' \in [User -> Nat] /\ misled' \in [User -> SUBSET Address]
      /\ thing'["tool"] = NoThing /\ thing'["daemon"] = thing["daemon"]
      /\ ask'["tool"] = Quiet /\ ask'["daemon"] = ask["daemon"]
      /\ since'["tool"] = 0 /\ since'["daemon"] = since["daemon"]
      /\ misled'["tool"] = {} /\ misled'["daemon"] = misled["daemon"]
  BY <1>1, <1>2, Beginnings
<1>4. Shapes'
  BY <1>1, <1>2, <1>3, Beginnings DEF Shapes, Stamp
<1>5. Quiet.pc = "idle" /\ Quiet.got = "none" /\ NoTool.orphans = {} /\ NoTool.purged = {}
  BY DEF Quiet, NoTool
<1>6. ToolKnown' /\ OnlyUnknownPurged'
  BY <1>1, <1>3, <1>5 DEF ToolKnown, OnlyUnknownPurged
<1>7. SessionKnown' /\ CatchAllLast'
  <2>1. SessionKnown /\ CatchAllLast
    BY DEF IInv
  <2>2. Missing("daemon")' = Missing("daemon")
    BY <1>1, <1>3 DEF Missing, Unlisted, Listed
  <2> QED BY <1>1, <1>3, <2>1, <2>2 DEF SessionKnown, CatchAllLast, Missing
<1>8. ASSUME NEW v \in User
      PROVE  Informed(v)'
  <2>1. since[v] <= Len(versions) /\ Sound(v, thing[v]) /\ Pending(v)
    BY DEF IInv, Informed
  <2>2. CASE v = "daemon"
    <3>1. Sound(v, thing[v])'
      BY <1>1, <1>3, <2>1, <2>2 DEF Sound, Listed
    <3>2. Pending(v)'
      BY <1>1, <1>3, <2>1, <2>2 DEF Pending
    <3> QED BY <1>1, <1>3, <2>1, <2>2, <3>1, <3>2 DEF Informed
  <2>3. CASE v = "tool"
    <3>1. NoThing.served = 0 /\ NoThing.parsed = FALSE
      BY DEF NoThing
    <3>2. Sound(v, thing[v])'
      BY <1>1, <1>2, <1>3, <2>3, <3>1, Beginnings DEF Sound
    <3>3. Pending(v)'
      BY <1>3, <1>5, <2>3 DEF Pending
    <3> QED BY <1>1, <1>2, <1>3, <2>3, <3>2, <3>3 DEF Informed
  <2> QED BY <2>2, <2>3
<1> QED BY <1>4, <1>6, <1>7, <1>8 DEF IInv

-----------------------------------------------------------------------------
(* The invariant, and what follows from it.                                *)

LEMMA NextStep ==
  ASSUME IInv, [Next]_vars
  PROVE  IInv'
<1>1. CASE Edit
  BY <1>1, EditStep
<1>2. CASE Vanish \/ Return
  BY <1>2, VanishStep, ReturnStep
<1>3. CASE Ask \/ DaemonRestart
  BY <1>3, AskStep, DaemonRestartStep
<1>4. ASSUME NEW u \in User, Lookup(u)
      PROVE  IInv'
  BY <1>4, ParseFailsStep, ParseDoneStep, StatStep, TextSearchedStep, TextGoneStep,
     ServerAnswersStep, SecondQueryStep DEF Lookup
<1>5. CASE Tool
  BY <1>5, ToolStartStep, ToolLooksUpStep, ToolEndsStep, ToolListStep, ToolPurgeStep DEF Tool
<1>6. CASE UNCHANGED vars
  <2> USE <1>6 DEF vars
  <2>1. Shapes'
    BY DEF IInv, Shapes, Stamp
  <2>2. \A v \in User : Informed(v)'
    <3> SUFFICES ASSUME NEW v \in User PROVE Informed(v)'
      OBVIOUS
    <3>1. Informed(v)
      BY DEF IInv
    <3> QED BY <3>1 DEF Informed, Sound, Pending, Listed
  <2>3. \A v \in User : Missing(v)' = Missing(v)
    BY DEF Missing, Unlisted, Listed
  <2>4. SessionKnown' /\ ToolKnown'
    BY <2>3 DEF IInv, SessionKnown, ToolKnown
  <2>5. CatchAllLast' /\ OnlyUnknownPurged'
    <3>1. CatchAllLast /\ OnlyUnknownPurged
      BY DEF IInv
    <3> QED BY <2>3, <3>1 DEF CatchAllLast, OnlyUnknownPurged, Missing
  <2> QED BY <2>1, <2>2, <2>4, <2>5 DEF IInv
<1> QED BY <1>1, <1>2, <1>3, <1>4, <1>5, <1>6 DEF Next

LEMMA InitHolds ==
  ASSUME Init
  PROVE  IInv
<1>1. PICK f \in Contents : versions = <<f>>
  BY DEF Init
<1>2. versions \in Seq(Contents) /\ Len(versions) = 1
  BY <1>1
<1>3. Shapes
  <2>1. Len(versions) \in 1..(MaxEdits + 1) /\ starts \in 1..MaxStarts /\ stamp \in Stamp
    BY <1>2, ResolverAssumption DEF Init, Stamp
  <2> QED BY <1>2, <2>1, Beginnings DEF Init, Shapes
<1>4. Quiet.pc = "idle" /\ Quiet.got = "none" /\ NoTool.orphans = {} /\ NoTool.purged = {}
      /\ NoSession.busy = FALSE
  BY DEF Quiet, NoTool, NoSession
<1>5. ASSUME NEW v \in User
      PROVE  Informed(v)
  <2>1. thing[v] = NoThing /\ ask[v] = Quiet /\ since[v] = 0
    BY DEF Init
  <2> QED BY <1>2, <1>3, <1>4, <2>1, NewThingSound DEF Informed, Pending
<1>6. SessionKnown /\ CatchAllLast /\ ToolKnown /\ OnlyUnknownPurged
  <2>1. session = NoSession /\ ask["daemon"] = Quiet /\ ask["tool"] = Quiet /\ tool = NoTool
    BY DEF Init
  <2> QED BY <1>4, <2>1 DEF SessionKnown, CatchAllLast, ToolKnown, OnlyUnknownPurged
<1> QED BY <1>3, <1>5, <1>6 DEF IInv

\* The invariant holds in every state of every behaviour of a userbase and its users.
THEOREM Invariance == Spec => []IInv
<1>1. Init => IInv
  BY InitHolds
<1>2. IInv /\ [Next]_vars => IInv'
  BY NextStep
<1> QED BY <1>1, <1>2, PTL DEF Spec

\* The objects, the questions and the sessions keep their types: ldap never has two
\* answers that are late, and who has parsed a file has read a version.
THEOREM TypeCorrect == Spec => []TypeOK
<1>1. IInv => TypeOK
  <2> SUFFICES ASSUME IInv PROVE TypeOK
    OBVIOUS
  <2>1. ASSUME NEW u \in User
        PROVE  /\ thing[u].conn \in Link /\ thing[u].start \in Start /\ thing[u].stamp \in Stamp
               /\ thing[u].late \in Seq(Found) /\ Len(thing[u].late) <= 1
               /\ thing[u].table \in Seq(Entry) /\ thing[u].served \in 0..Len(versions)
               /\ thing[u].parsed => thing[u].served # 0
               /\ ask[u].pc \in Pc /\ ask[u].mbox \in Address /\ ask[u].got \in Answer \cup {"none"}
               /\ since[u] \in 0..Len(versions)
    BY DEF IInv, Informed, Sound, Shapes, Thing, Question
  <2>2. since \in [User -> 0..Len(versions)]
    BY <2>1 DEF IInv, Shapes
  <2>3. session.to \in Address /\ session.try \in {1, 2}
        /\ tool.left \subseteq Backend /\ tool.todo \subseteq Address
        /\ tool.orphans \cup tool.purged \subseteq Address
    BY DEF IInv, Shapes, Visit, Purge
  <2> QED BY <2>1, <2>2, <2>3 DEF TypeOK, IInv, Shapes
<1> QED BY <1>1, Invariance, PTL

\* RCPT and the logins end at a catch-all only where the address itself was missing, or
\* a failure made it seem to be.
THEOREM CatchAllIsLast == Spec => []CatchAllLast
<1>1. IInv => CatchAllLast
  BY DEF IInv
<1> QED BY <1>1, Invariance, PTL

\* purge-orphans purges only mailboxes that were missing from the userbase while it ran,
\* or that a failure made seem to be.
THEOREM KnownKept == Spec => []OnlyUnknownPurged
<1>1. IInv => OnlyUnknownPurged
  BY DEF IInv
<1> QED BY <1>1, Invariance, PTL

-----------------------------------------------------------------------------
(* A file with an error in it.                                             *)

\* Whatever files came before, a file with an error in it leaves the table that was read
\* last: it throws before the parser has taken the new entries over.
THEOREM BrokenFileLeavesTable == Spec => BrokenKeepsOld
<1> DEFINE Kept == \A u \in User :
                     /\ thing[u].parsed /\ thing'[u].made
                     /\ Present.end \in {"keyword", "quoted"} /\ thing[u].start # "comment"
                     => thing'[u].parsed /\ thing'[u].table = thing[u].table
<1>1. IInv /\ [Next]_vars => [Kept]_vars
  <2> SUFFICES ASSUME IInv, Next, NEW u \in User, thing[u].parsed, thing'[u].made,
                      Present.end \in {"keyword", "quoted"}, thing[u].start # "comment"
               PROVE  thing'[u].parsed /\ thing'[u].table = thing[u].table
    OBVIOUS
  <2>1. thing \in [User -> Thing] /\ thing[u].start \in Start /\ kind = "text"
    BY DEF IInv, Shapes, Informed, Sound, Thing
  <2>2. Throws(thing[u].start, Present)
    BY <2>1, BrokenThrows
  <2>3. CASE Edit \/ Return
    BY <2>3 DEF Edit, Return
  <2>4. CASE Vanish
    BY <2>1, <2>4 DEF Vanish, Thing
  <2>5. ASSUME NEW v \in User, Lookup(v)
        PROVE  thing'[u].parsed /\ thing'[u].table = thing[u].table
    <3>1. CASE ParseFails(v)
      <4>1. CASE up
        BY <2>1, <3>1, <4>1 DEF ParseFails, Thing
      <4>2. CASE ~up
        BY <2>1, <3>1, <4>2 DEF ParseFails, Thing
      <4> QED BY <4>1, <4>2
    <3>2. CASE ParseDone(v)
      <4>1. v # u
        BY <2>2, <3>2 DEF ParseDone
      <4> QED BY <2>1, <3>2, <4>1 DEF ParseDone
    <3>3. CASE Stat(v)
      BY <2>1, <3>3 DEF Stat, Thing
    <3>4. CASE TextSearched(v) \/ TextGone(v)
      BY <3>4 DEF TextSearched, TextGone
    <3>5. CASE ServerAnswers(v) \/ SecondQuery(v)
      BY <2>1, <3>5 DEF ServerAnswers, SecondQuery
    <3> QED BY <2>5, <3>1, <3>2, <3>3, <3>4, <3>5 DEF Lookup
  <2>6. CASE Ask \/ ToolStart
    <3>1. \E v \in User : Gets(v) /\ UNCHANGED environment
      BY <2>6 DEF Ask, ToolStart
    <3>2. SameButLink(thing[u], thing'[u])
      BY <3>1, GetsIs
    <3> QED BY <3>2 DEF SameButLink
  <2>7. CASE DaemonRestart \/ ToolEnds
    BY <2>1, <2>7 DEF DaemonRestart, ToolEnds, NoThing
  <2>8. CASE ToolLooksUp \/ \E b \in Backend : ToolList(b) \/ ToolPurge(b)
    BY <2>8 DEF ToolLooksUp, ToolList, ToolPurge
  <2> QED BY <2>3, <2>4, <2>5, <2>6, <2>7, <2>8 DEF Next, Tool
<1> QED BY <1>1, Invariance, PTL DEF Spec, BrokenKeepsOld

-----------------------------------------------------------------------------
(* Every userbase is a directory: what is said to exist is in a version    *)
(* that is not older than what was answered by before.                     *)

\* What an answer says exists, and the variables of Directory.
Exists(u) == IF kind # "ldap" /\ ask[u].got \in {"mailbox", "forward"} THEN {ask[u].mbox} ELSE {}

AllListed == [n \in DOMAIN versions |-> Listed(n)]
AllServed == [u \in User |-> thing[u].served]
AllExist == [u \in User |-> Exists(u)]

LEMMA DirectoryIs ==
  /\ ADirectory!vars = <<AllListed, AllServed, AllExist>>
  /\ ADirectory!Init <=> /\ AllListed \in {<<listed>> : listed \in SUBSET Address}
                         /\ AllServed = [u \in User |-> 0]
                         /\ AllExist = [u \in User |-> {}]
  /\ ADirectory!Change <=>
       /\ \E listed \in SUBSET Address : AllListed' = Append(AllListed, listed)
       /\ AllServed' = AllServed /\ AllExist' = AllExist
  /\ \A u \in User : ADirectory!Restart(u) <=>
       /\ AllServed' = [AllServed EXCEPT ![u] = 0]
       /\ AllExist' = [AllExist EXCEPT ![u] = {}]
       /\ AllListed' = AllListed
  /\ \A u \in User : ADirectory!Read(u) <=>
       \E n \in AllServed[u]..Len(AllListed) :
         /\ AllServed' = [AllServed EXCEPT ![u] = n]
         /\ \/ AllExist' = [AllExist EXCEPT ![u] = {}]
            \/ n # 0 /\ \E a \in AllListed[n] : AllExist' = [AllExist EXCEPT ![u] = {a}]
         /\ AllListed' = AllListed
BY DEF ADirectory!vars, ADirectory!Init, ADirectory!Change, ADirectory!Restart, ADirectory!Read,
       AllListed, AllServed, AllExist, Exists

\* The versions of Directory are as many as the administrator's, and list addresses.
LEMMA ListedVersions ==
  ASSUME Shapes
  PROVE  /\ Len(AllListed) = Len(versions) /\ AllListed \in Seq(SUBSET Address)
         /\ \A n \in 1..Len(versions) : AllListed[n] = Listed(n)
<1>1. Len(versions) \in Nat /\ DOMAIN versions = 1..Len(versions)
  BY LenProperties DEF Shapes
<1>2. ASSUME NEW n \in 1..Len(versions)
      PROVE  Listed(n) \in SUBSET Address
  <2>1. versions[n].entries \in Seq(Entry)
    BY PresentFile DEF File
  <2>2. \A i \in DOMAIN versions[n].entries : versions[n].entries[i] \in Entry
    BY <2>1, ElementOfSeq, LenProperties
  <2> QED BY <2>2, ListedIs DEF Addresses, Entry
<1>3. AllListed \in [1..Len(versions) -> SUBSET Address]
  BY <1>1, <1>2 DEF AllListed
<1>4. AllListed \in Seq(SUBSET Address)
  BY <1>1, <1>3, SeqDef
<1>5. Len(AllListed) = Len(versions)
  BY <1>1, <1>3, <1>4, LenProperties
<1> QED BY <1>1, <1>4, <1>5 DEF AllListed

\* A step that changes neither what was read nor what was said is none of Directory's.
LEMMA DirectoryStutters ==
  ASSUME UNCHANGED <<kind, versions>>,
         \A u \in User : /\ thing'[u].served = thing[u].served
                         /\ ask'[u].got = ask[u].got /\ ask'[u].mbox = ask[u].mbox
  PROVE  UNCHANGED ADirectory!vars
<1>1. AllListed' = AllListed
  BY DEF AllListed, Listed
<1>2. AllServed' = AllServed
  BY DEF AllServed
<1>3. AllExist' = AllExist
  BY DEF AllExist, Exists
<1> QED BY <1>1, <1>2, <1>3 DEF ADirectory!vars, AllListed, AllServed, AllExist, Exists

\* A step that answers u by a version it may read.
LEMMA DirectoryReads ==
  ASSUME Shapes, NEW u \in User, UNCHANGED <<kind, versions>>,
         \A v \in User \ {u} : thing'[v].served = thing[v].served /\ ask'[v] = ask[v],
         thing'[u].served \in Nat, thing[u].served <= thing'[u].served,
         thing'[u].served <= Len(versions),
         Exists(u)' # {} => thing'[u].served # 0 /\ ask'[u].mbox \in Listed(thing'[u].served)
  PROVE  ADirectory!Read(u)
<1> DEFINE n == thing'[u].served
<1>1. Len(versions) \in Nat /\ thing[u].served \in Nat
  BY DEF Shapes, Thing
<1>2. n \in AllServed[u]..Len(AllListed)
  BY <1>1, ListedVersions DEF AllServed
<1>3. AllListed' = AllListed
  BY DEF AllListed, Listed
<1>4. AllServed' = [AllServed EXCEPT ![u] = n]
  BY DEF AllServed
<1>5. AllExist' = [AllExist EXCEPT ![u] = Exists(u)']
  BY DEF AllExist, Exists
<1>6. CASE Exists(u)' = {}
  BY <1>2, <1>3, <1>4, <1>5, <1>6, DirectoryIs
<1>7. CASE Exists(u)' # {}
  <2>1. Exists(u)' = {ask'[u].mbox}
    BY <1>7 DEF Exists
  <2>2. n # 0 /\ ask'[u].mbox \in AllListed[n]
    BY <1>1, <1>7, ListedVersions
  <2> QED BY <1>2, <1>3, <1>4, <1>5, <2>1, <2>2, DirectoryIs
<1> QED BY <1>6, <1>7

\* A process that begins anew.
LEMMA DirectoryRestarts ==
  ASSUME NEW u \in User, UNCHANGED <<kind, versions>>,
         \A v \in User \ {u} : thing'[v] = thing[v] /\ ask'[v] = ask[v],
         thing'[u] = NoThing, ask'[u] = Quiet
  PROVE  ADirectory!Restart(u)
<1>1. AllListed' = AllListed
  BY DEF AllListed, Listed
<1>2. AllServed' = [AllServed EXCEPT ![u] = 0]
  <2>1. NoThing.served = 0
    BY DEF NoThing
  <2> QED BY <2>1 DEF AllServed
<1>3. Exists(u)' = {}
  BY DEF Exists, Quiet
<1>4. AllExist' = [AllExist EXCEPT ![u] = {}]
  BY <1>3 DEF AllExist, Exists
<1> QED BY <1>1, <1>2, <1>4, DirectoryIs

\* What an answer leaves of a question: the answer, or the next try.
LEMMA AnswerLeaves ==
  ASSUME Shapes, NEW u \in User, NEW got, NEW hid, Answers(u, got, hid)
  PROVE  /\ UNCHANGED <<kind, versions>>
         /\ \A v \in User \ {u} : ask'[v] = ask[v]
         /\ \/ ask'[u].got = "none"
            \/ ask'[u].got = got /\ ask'[u].mbox = ask[u].mbox
<1>1. ask \in [User -> Question] /\ UNCHANGED <<kind, versions>>
  BY DEF Shapes, Answers, environment
<1>2. \/ ask' = [ask EXCEPT ![u].pc = "idle", ![u].got = got]
      \/ /\ u = "daemon"
         /\ ask' = [ask EXCEPT !["daemon"] = [pc |-> "start", mbox |-> TryOf(session.to, 2),
                                              got |-> "none", seen |-> 0]]
  BY DEF Answers, SessionGoesOn, ToolGoesOn, Asking, Answered
<1> QED BY <1>1, <1>2 DEF Question

LEMMA LookupImplements ==
  ASSUME IInv, NEW u \in User, Lookup(u)
  PROVE  ADirectory!Read(u) \/ UNCHANGED ADirectory!vars
<1>1. /\ Shapes /\ Sound(u, thing[u]) /\ Pending(u) /\ thing \in [User -> Thing]
      /\ ask \in [User -> Question] /\ Len(versions) \in Nat \ {0}
      /\ thing[u].served \in Nat /\ thing[u].served <= Len(versions)
  BY PresentFile DEF IInv, Informed, Shapes, Sound, Thing
<1>2. CASE ParseFails(u) \/ Stat(u)
  <2>1. \A v \in User : thing'[v].served = thing[v].served
    <3>1. CASE Stat(u)
      BY <1>1, <3>1 DEF Stat, Thing
    <3>2. CASE ParseFails(u)
      <4>1. CASE up
        BY <1>1, <3>2, <4>1 DEF ParseFails, Thing
      <4>2. CASE ~up
        BY <1>1, <3>2, <4>2 DEF ParseFails, Thing
      <4> QED BY <4>1, <4>2
    <3> QED BY <1>2, <3>1, <3>2
  <2>2. \A v \in User : ask'[v].got = ask[v].got /\ ask'[v].mbox = ask[v].mbox
    <3>1. \E pc : ask' = [ask EXCEPT ![u].pc = pc]
      BY <1>2 DEF ParseFails, Stat, Goes
    <3> QED BY <1>1, <3>1 DEF Question
  <2>3. UNCHANGED <<kind, versions>>
    BY <1>2 DEF ParseFails, Stat, environment
  <2> QED BY <2>1, <2>2, <2>3, DirectoryStutters
<1>3. CASE ParseDone(u)
  <2>1. /\ \A v \in User \ {u} : thing'[v].served = thing[v].served /\ ask'[v] = ask[v]
        /\ thing'[u].served = Len(versions)
    BY <1>1, <1>3 DEF ParseDone, Goes, Thing
  <2>2. ask'[u].got = "none"
    BY <1>1, <1>3 DEF ParseDone, Parses, Goes, Question, Pending
  <2>3. Exists(u)' = {}
    BY <2>2 DEF Exists
  <2>4. UNCHANGED <<kind, versions>>
    BY <1>3 DEF ParseDone, environment
  <2> QED BY <1>1, <2>1, <2>3, <2>4, DirectoryReads
<1>4. CASE TextSearched(u) \/ TextGone(u)
  <2> DEFINE t == thing[u]
             mbox == ask[u].mbox
  <2>1. thing' = thing
    BY <1>4 DEF TextSearched, TextGone
  <2>2. PICK got, hid : /\ Answers(u, got, hid)
                        /\ got \in {"mailbox", "forward"} =>
                             t.parsed /\ FoundIn(t.table, mbox) # "absent"
    <3>1. CASE TextGone(u)
      <4>1. \E hid : Answers(u, "error", hid)
        BY <3>1 DEF TextGone
      <4>2. "error" \notin {"mailbox", "forward"}
        OBVIOUS
      <4> QED BY <4>1, <4>2
    <3>2. CASE TextSearched(u)
      <4> DEFINE got == IF t.parsed THEN FoundIn(t.table, mbox) ELSE "error"
      <4>1. \E hid : Answers(u, got, hid)
        BY <3>2 DEF TextSearched
      <4>2. got \in {"mailbox", "forward"} => t.parsed /\ FoundIn(t.table, mbox) # "absent"
        OBVIOUS
      <4> HIDE DEF got
      <4> QED BY <4>1, <4>2
    <3> QED BY <1>4, <3>1, <3>2
  <2>3. /\ UNCHANGED <<kind, versions>>
        /\ \A v \in User \ {u} : ask'[v] = ask[v]
        /\ ask'[u].got = "none" \/ (ask'[u].got = got /\ ask'[u].mbox = mbox)
    BY <1>1, <2>2, AnswerLeaves
  <2>4. got \in {"mailbox", "forward"} => t.served # 0 /\ mbox \in Listed(t.served)
    BY <1>1, <2>2, SearchFinds DEF Sound
  <2>5. Exists(u)' # {} => t.served # 0 /\ ask'[u].mbox \in Listed(t.served)
    BY <2>3, <2>4 DEF Exists
  <2> QED BY <1>1, <2>1, <2>3, <2>5, DirectoryReads
<1>5. CASE ServerAnswers(u)
  <2> DEFINE mbox == ask[u].mbox
  <2>1. PICK o \in Outcomes(u) : \E hid : Linked(u, o) /\ Answers(u, o.got, hid)
    BY <1>5 DEF ServerAnswers
  <2>2. /\ UNCHANGED <<kind, versions>>
        /\ \A v \in User \ {u} : ask'[v] = ask[v]
        /\ ask'[u].got = "none" \/ (ask'[u].got = o.got /\ ask'[u].mbox = mbox)
    BY <1>1, <2>1, AnswerLeaves
  <2>3. /\ Plausible(kind, Row(u), ask[u].pc = "second", o)
        /\ \E t : /\ Sound(u, t) /\ thing' = [thing EXCEPT ![u] = t]
                  /\ t.served = IF o.got = "error" THEN thing[u].served ELSE Len(versions)
    BY <1>5, <2>1, OutcomeIs DEF ServerAnswers
  <2>4. /\ \A v \in User \ {u} : thing'[v].served = thing[v].served
        /\ thing'[u].served = IF o.got = "error" THEN thing[u].served ELSE Len(versions)
    BY <1>1, <2>3
  <2>5. ASSUME kind # "ldap", o.got \in {"mailbox", "forward"}
        PROVE  mbox \in Listed(Len(versions))
    <3>1. Row(u) # "absent"
      BY <2>3, <2>5 DEF Plausible
    <3> QED BY <3>1, SearchFinds, ListedIs DEF Row, Present
  <2>6. Exists(u)' # {} => thing'[u].served # 0 /\ ask'[u].mbox \in Listed(thing'[u].served)
    BY <1>1, <2>2, <2>4, <2>5 DEF Exists
  <2> QED BY <1>1, <2>2, <2>4, <2>6, DirectoryReads
<1>6. CASE SecondQuery(u)
  <2>1. PICK o \in Outcomes(u) : Linked(u, o)
    BY <1>6 DEF SecondQuery
  <2>2. \E t : /\ Sound(u, t) /\ thing' = [thing EXCEPT ![u] = t]
               /\ t.served = IF o.got = "error" THEN thing[u].served ELSE Len(versions)
    BY <1>6, <2>1, OutcomeIs DEF SecondQuery
  <2>3. /\ \A v \in User \ {u} : thing'[v].served = thing[v].served /\ ask'[v] = ask[v]
        /\ thing'[u].served = IF o.got = "error" THEN thing[u].served ELSE Len(versions)
    BY <1>1, <1>6, <2>2 DEF SecondQuery
  <2>4. ask'[u].got = "none"
    BY <1>1, <1>6 DEF SecondQuery, Question, Pending
  <2>5. Exists(u)' = {}
    BY <2>4 DEF Exists
  <2>6. UNCHANGED <<kind, versions>>
    BY <1>6 DEF SecondQuery, environment
  <2> QED BY <1>1, <2>3, <2>5, <2>6, DirectoryReads
<1> QED BY <1>2, <1>3, <1>4, <1>5, <1>6 DEF Lookup

LEMMA StepImplements ==
  ASSUME IInv, Next
  PROVE  ADirectory!Next \/ UNCHANGED ADirectory!vars
<1>1. /\ Shapes /\ thing \in [User -> Thing] /\ ask \in [User -> Question]
      /\ \A u \in User : thing[u].served \in Nat /\ thing[u].served <= Len(versions)
  BY DEF IInv, Informed, Shapes, Sound, Thing
<1>2. CASE Edit
  <2>1. PICK f \in Contents : versions' = Append(versions, f)
    BY <1>2 DEF Edit
  <2>2. UNCHANGED <<kind, thing, ask>>
    BY <1>2 DEF Edit
  <2>3. /\ Len(versions) \in Nat /\ versions \in Seq(Contents) /\ Len(versions') = Len(versions) + 1
        /\ \A n \in 1..Len(versions) : versions'[n] = versions[n]
        /\ DOMAIN versions' = 1..(Len(versions) + 1)
    BY <1>1, <2>1, AppendProperties, LenProperties DEF Shapes
  <2>4. \A n \in 1..Len(versions) : Listed(n)' = Listed(n)
    BY <2>3 DEF Listed
  <2>5. Shapes'
    BY <1>2, EditStep DEF IInv
  <2>11. PICK last \in Nat : last = Len(versions) + 1
    BY <2>3
  <2> DEFINE new == Listed(last)'
  <2>6. new \in SUBSET Address
    <3>1. versions'[last].entries \in Seq(Entry)
      <4>1. versions'[last] = f
        BY <2>1, <2>3, <2>11, AppendProperties
      <4> QED BY <2>1, <4>1, ResolverAssumption DEF File
    <3>2. \A i \in DOMAIN versions'[last].entries :
            versions'[last].entries[i].address \in Address
      <4>1. \A i \in DOMAIN versions'[last].entries :
              versions'[last].entries[i] \in Entry
        BY <3>1, ElementOfSeq, LenProperties
      <4> QED BY <4>1 DEF Entry
    <3>3. new = Addresses(versions'[last].entries)
      BY DEF Listed, Addresses
    <3> QED BY <3>2, <3>3 DEF Addresses
  <2> HIDE DEF new
  <2>7. AllListed' = [n \in 1..last |-> Listed(n)']
    BY <2>3, <2>11 DEF AllListed
  <2>8. AllListed \in Seq(SUBSET Address) /\ Len(AllListed) = Len(versions)
        /\ \A n \in 1..Len(versions) : AllListed[n] = Listed(n)
    BY <1>1, ListedVersions
  <2>9. AllListed' = Append(AllListed, new)
    <3> DEFINE longer == Append(AllListed, new)
    <3>1. /\ longer \in Seq(SUBSET Address) /\ Len(longer) = last /\ longer[last] = new
          /\ \A i \in 1..Len(versions) : longer[i] = AllListed[i]
      BY <2>6, <2>8, <2>11, AppendProperties
    <3>2. DOMAIN longer = 1..last /\ longer = [i \in 1..last |-> longer[i]]
      BY <3>1, LenProperties
    <3>3. ASSUME NEW i \in 1..last
          PROVE  longer[i] = Listed(i)'
      <4>1. CASE i = last
        BY <3>1, <4>1 DEF new
      <4>2. CASE i # last
        <5>1. i \in 1..Len(versions)
          BY <2>3, <2>11, <4>2
        <5> QED BY <2>4, <2>8, <3>1, <5>1
      <4> QED BY <4>1, <4>2
    <3> HIDE DEF longer
    <3>4. longer = [i \in 1..last |-> Listed(i)']
      BY <3>2, <3>3
    <3> QED BY <2>7, <3>4 DEF longer
  <2>10. AllServed' = AllServed /\ AllExist' = AllExist
    BY <2>2 DEF AllServed, AllExist, Exists
  <2> QED BY <2>6, <2>9, <2>10, DirectoryIs DEF ADirectory!Next
<1>3. CASE Vanish \/ Return \/ ToolStart \/ \E b \in Backend : ToolList(b) \/ ToolPurge(b)
  <2>1. UNCHANGED <<kind, versions>>
    BY <1>3 DEF Vanish, Return, ToolStart, ToolList, ToolPurge, environment
  <2>2. \A u \in User : thing'[u].served = thing[u].served
    <3>1. CASE Vanish
      BY <1>1, <3>1 DEF Vanish, Thing
    <3>2. CASE ToolStart
      <4>1. \A u \in User : SameButLink(thing[u], thing'[u])
        BY <3>2, GetsIs DEF ToolStart
      <4> QED BY <4>1 DEF SameButLink
    <3>3. CASE Return \/ \E b \in Backend : ToolList(b) \/ ToolPurge(b)
      BY <3>3 DEF Return, ToolList, ToolPurge
    <3> QED BY <1>3, <3>1, <3>2, <3>3
  <2>3. \A u \in User : ask'[u].got = ask[u].got /\ ask'[u].mbox = ask[u].mbox
    <3>1. ask' = ask \/ ask' = [ask EXCEPT !["tool"].pc = "launch"]
      BY <1>3 DEF Vanish, Return, ToolStart, ToolList, ToolPurge
    <3> QED BY <1>1, <3>1 DEF Question
  <2> QED BY <2>1, <2>2, <2>3, DirectoryStutters
<1>4. CASE Ask
  <2>1. \A u \in User : SameButLink(thing[u], thing'[u])
    BY <1>4, GetsIs DEF Ask
  <2>2. /\ UNCHANGED <<kind, versions>> /\ ask'["daemon"].got = "none" /\ ask'["tool"] = ask["tool"]
    BY <1>1, <1>4 DEF Ask, Asking, environment
  <2>3. Exists("daemon")' = {}
    BY <2>2 DEF Exists
  <2>4. ADirectory!Read("daemon")
    BY <1>1, <2>1, <2>2, <2>3, DirectoryReads DEF SameButLink
  <2> QED BY <2>4 DEF ADirectory!Next
<1>5. CASE ToolLooksUp
  <2>1. /\ UNCHANGED <<kind, versions, thing>> /\ ask'["tool"].got = "none"
        /\ ask'["daemon"] = ask["daemon"]
    BY <1>1, <1>5 DEF ToolLooksUp, Asking, environment
  <2>2. Exists("tool")' = {}
    BY <2>1 DEF Exists
  <2>3. ADirectory!Read("tool")
    BY <1>1, <2>1, <2>2, DirectoryReads
  <2> QED BY <2>3 DEF ADirectory!Next
<1>6. CASE DaemonRestart
  <2>1. ADirectory!Restart("daemon")
    BY <1>1, <1>6, DirectoryRestarts DEF DaemonRestart, environment
  <2> QED BY <2>1 DEF ADirectory!Next
<1>7. CASE ToolEnds
  <2>1. ADirectory!Restart("tool")
    BY <1>1, <1>7, DirectoryRestarts DEF ToolEnds, environment
  <2> QED BY <2>1 DEF ADirectory!Next
<1>8. ASSUME NEW u \in User, Lookup(u)
      PROVE  ADirectory!Next \/ UNCHANGED ADirectory!vars
  BY <1>8, LookupImplements DEF ADirectory!Next
<1> QED BY <1>2, <1>3, <1>4, <1>5, <1>6, <1>7, <1>8 DEF Next, Tool

\* Whichever userbase is used, and whatever becomes of its file or server, its users
\* see a directory: no address exists that no version has, and nothing older than what
\* was read before is ever read again.
THEOREM IsDirectory == Spec => ImplementsDirectory
<1>1. Init => ADirectory!Init
  <2> SUFFICES ASSUME Init PROVE ADirectory!Init
    OBVIOUS
  <2>1. Shapes /\ Len(versions) = 1
    BY InitHolds DEF Init, IInv
  <2>2. AllListed \in Seq(SUBSET Address) /\ Len(AllListed) = 1
    BY <2>1, ListedVersions
  <2>3. AllListed = <<AllListed[1]>> /\ AllListed[1] \in SUBSET Address
    BY <2>2
  <2>4. NoThing.served = 0 /\ Quiet.got = "none"
    BY DEF NoThing, Quiet
  <2>5. AllServed = [u \in User |-> 0] /\ AllExist = [u \in User |-> {}]
    BY <2>4 DEF Init, AllServed, AllExist, Exists
  <2> QED BY <2>3, <2>5, DirectoryIs
<1>2. IInv /\ [Next]_vars => [ADirectory!Next]_(ADirectory!vars)
  <2>1. ASSUME UNCHANGED vars
        PROVE  UNCHANGED ADirectory!vars
    BY <2>1, DirectoryStutters DEF vars
  <2> QED BY <2>1, StepImplements
<1> QED BY <1>1, <1>2, Invariance, PTL DEF Spec, ImplementsDirectory, ADirectory!Spec
=============================================================================
