------------------------------ MODULE Resolver ------------------------------
(***************************************************************************)
(* Who an address is: the sessions of a daemon that resolve a recipient or *)
(* a login by the userbase (an exact match, then the catch-all of the      *)
(* domain), the administrator who edits the userbase meanwhile, and        *)
(* `pptool purge-orphans`, which purges from the backends the mailboxes    *)
(* the userbase does not know.                                             *)
(*                                                                         *)
(* Two users of the userbase, each with an object of its own: "daemon",    *)
(* one session at a time on one pooled object, and "tool".  The text       *)
(* userbase is a file that is parsed when its time of modification         *)
(* changes; the others are servers.  Whether a password is right is left   *)
(* to the environment.                                                     *)
(***************************************************************************)
EXTENDS Naturals, Sequences, FiniteSets, TextBase, Userbases

CONSTANTS CatchAll,  \* "*@domain" for the domain of an address
          Backend,   \* where mailboxes are
          Kinds,     \* userbases to consider
          Acting,    \* users of the userbase to consider together
          Contents,  \* what the administrator may make of the userbase
          MaxEdits,  \* bound: edits of the userbase
          MaxStarts  \* bound: starts of the daemon

User == {"daemon", "tool"}

ASSUME ResolverAssumption == /\ CatchAll \in [Address -> Address]
                             /\ Kinds \subseteq Kind
                             /\ Address # {} /\ Contents \subseteq File
                             /\ Acting \subseteq SUBSET User
                             /\ MaxEdits \in Nat /\ MaxStarts \in Nat \ {0}

VARIABLES
  kind,      \* the setting `userbase`
  versions,  \* all contents of the userbase, the present one last
  stamp,     \* st_mtime of the file
  acting,    \* the users of the userbase that are run
  up,        \* whether the file is there, or the server answers
  thing,     \* the UserBase object of each user
  ask,       \* mboxData: where it is, for which mailbox, and what it answered
  session,   \* the daemon's session
  tool,      \* purge-orphans
  starts,    \* how often the daemon was started
  since,     \* history: the oldest version a user's command may answer by
  misled     \* history: addresses a user was told are absent, by a hidden failure

environment == <<kind, versions, stamp, up, acting>>
history == <<starts, since, misled>>
vars == <<kind, acting, versions, stamp, up, thing, ask, session, tool, starts, since, misled>>

Stamp == 0..MaxEdits

NoThing == [made |-> FALSE, conn |-> "none", late |-> <<>>, table |-> <<>>, parsed |-> FALSE,
            eaten |-> FALSE, stamp |-> 0, start |-> "INITIAL", left |-> FALSE, served |-> 0]

Present == versions[Len(versions)]
Listed(n) == {e.address : e \in {versions[n].entries[i] : i \in DOMAIN versions[n].entries}}

Quiet == [pc |-> "idle", mbox |-> CHOOSE a \in Address : TRUE, got |-> "none", seen |-> 0]
NoSession == [busy |-> FALSE, login |-> FALSE, to |-> CHOOSE a \in Address : TRUE, try |-> 1]
NoTool == [phase |-> "idle", left |-> {}, todo |-> {}, orphans |-> {}, purged |-> {}]

Pc == {"idle", "launch", "launched", "start", "parsed", "search", "second"}

TypeOK ==
  /\ kind \in Kinds /\ acting \in Acting /\ up \in BOOLEAN /\ stamp \in Stamp
  /\ versions \in Seq(Contents) /\ Len(versions) \in 1..(MaxEdits + 1)
  /\ \A u \in User :
       /\ thing[u].conn \in Link /\ thing[u].start \in Start /\ thing[u].stamp \in Stamp
       /\ thing[u].late \in Seq(Found) /\ Len(thing[u].late) <= 1
       /\ thing[u].table \in Seq(Entry) /\ thing[u].served \in 0..Len(versions)
       /\ thing[u].parsed => thing[u].served # 0
       /\ ask[u].pc \in Pc /\ ask[u].mbox \in Address /\ ask[u].got \in Answer \cup {"none"}
  /\ session.to \in Address /\ session.try \in {1, 2}
  /\ tool.left \subseteq Backend /\ tool.todo \subseteq Address /\ tool.orphans \cup tool.purged \subseteq Address
  /\ starts \in 1..MaxStarts
  /\ since \in [User -> 0..Len(versions)] /\ misled \in [User -> SUBSET Address]

Init == /\ kind \in Kinds
        /\ versions \in {<<f>> : f \in {g \in Contents : g.end = "whole"}}
        /\ stamp = 0 /\ up = TRUE
        /\ thing = [u \in User |-> NoThing] /\ ask = [u \in User |-> Quiet]
        /\ session = NoSession /\ tool = NoTool
        /\ acting \in Acting
        /\ starts = 1 /\ since = [u \in User |-> 0] /\ misled = [u \in User |-> {}]

-----------------------------------------------------------------------------
(* The administrator and the server.                                       *)

\* The file is written anew, or the tables are changed.  Two edits in one second
\* leave the same time of modification.
Edit == /\ Len(versions) <= MaxEdits
        /\ \E f \in Contents : /\ kind # "text" => f.end = "whole"
                               /\ f # Present
                               /\ versions' = Append(versions, f)
        /\ stamp' \in {stamp, stamp + 1} \cap Stamp
        /\ UNCHANGED <<kind, acting, up, thing, ask, session, tool, history>>

\* A server that goes away breaks the connections to it.
Vanish == /\ up /\ up' = FALSE
          /\ thing' = [u \in User |-> [thing[u] EXCEPT !.conn = IF @ = "open" THEN "broken" ELSE @]]
          /\ UNCHANGED <<kind, acting, versions, stamp, ask, session, tool, history>>

Return == /\ ~up /\ up' = TRUE
          /\ UNCHANGED <<kind, acting, versions, stamp, thing, ask, session, tool, history>>

-----------------------------------------------------------------------------
(* What follows an answer of mboxData: in a session, in purge-orphans.     *)

Asking(u, mbox) == [ask EXCEPT ![u] = [pc |-> "start", mbox |-> mbox, got |-> "none", seen |-> 0]]
Answered(u, got) == [ask EXCEPT ![u].pc = "idle", ![u].got = got]

\* Mutant of TryOf: the catch-all first.
TryOfReversed(to, n) == IF n = 2 THEN to ELSE CatchAll[to]

TryOf(to, n) == IF n = 1 THEN to ELSE CatchAll[to]

SessionGoesOn(got) ==
  /\ IF got = "absent" /\ session.try = 1
     THEN /\ session' = [session EXCEPT !.try = 2]
          /\ ask' = Asking("daemon", TryOf(session.to, 2))
     ELSE /\ session' = [NoSession EXCEPT !.to = session.to]
          /\ ask' = Answered("daemon", got)
  /\ UNCHANGED tool

\* Mutant of IsOrphan: a lookup that failed counts as one that found nothing.
IsOrphanUnlessFound(got) == got \in {"absent", "error"}

\* `mboxData(...)==0 && !exists`: ldap and postgresql return 1 for an unknown mailbox.
IsOrphan(got) == got = "absent" /\ kind \notin {"ldap", "postgresql"}

ToolGoesOn(got) ==
  /\ tool' = IF tool.phase = "connect" THEN [tool EXCEPT !.phase = "list"]
             ELSE [tool EXCEPT !.orphans = IF IsOrphan(got) THEN @ \cup {ask["tool"].mbox} ELSE @]
  /\ ask' = Answered("tool", got)
  /\ UNCHANGED session

\* mboxData returns got; hid tells a failure it does not see.
Answers(u, got, hid) ==
  /\ IF u = "daemon" THEN SessionGoesOn(got) ELSE ToolGoesOn(got)
  /\ misled' = [misled EXCEPT ![u] = IF hid THEN @ \cup {ask[u].mbox} ELSE @]
  /\ UNCHANGED <<environment, starts, since>>

-----------------------------------------------------------------------------
(* mboxData and connected() of the text userbase.                          *)

Goes(u, pc) == ask' = [ask EXCEPT ![u].pc = pc]

\* Mutant of MustParse: a file is parsed once.
MustParseOnce(u) == ~thing[u].parsed

MustParse(u) == stamp # thing[u].stamp

\* tryParse, from the constructor or from connected(), which has stat'ed the file.
Parses(u) == \/ kind = "text" /\ ask[u].pc = "launch"
             \/ kind = "text" /\ ask[u].pc = "start" /\ up /\ MustParse(u)

\* No file, or an error in it.  d_last_mtime is what it was, which is what the
\* memory held if there was no parse before.
ParseFails(u) ==
  LET t == thing[u] IN
  /\ Parses(u)
  /\ ~up \/ Throws(t.start, Present)
  /\ \E garbage \in IF ask[u].pc = "launch" THEN Stamp ELSE {t.stamp} :
       thing' = [thing EXCEPT
         ![u] = IF up THEN [t EXCEPT !.start = NextStart(@, Present), !.stamp = garbage,
                                     !.left = NextLeft(t.start, Present, @)]
                ELSE [t EXCEPT !.stamp = garbage]]
  /\ Goes(u, IF ask[u].pc = "launch" THEN "start" ELSE "search")
  /\ UNCHANGED <<environment, session, tool, history>>

ParseDone(u) ==
  LET t == thing[u] IN
  /\ Parses(u)
  /\ up /\ ~Throws(t.start, Present)
  /\ thing' = [thing EXCEPT
       ![u] = [t EXCEPT !.table = NewEntries(t.start, Present, t.left, @), !.parsed = TRUE,
                        !.eaten = Eaten(t.start, Present), !.served = Len(versions),
                        !.start = NextStart(@, Present), !.left = NextLeft(t.start, Present, @)]]
  /\ Goes(u, IF ask[u].pc = "launch" THEN "launched" ELSE "parsed")
  /\ UNCHANGED <<environment, session, tool, history>>

\* The time of modification is asked for after the parse; of a file that is gone
\* by then it is what the memory held.
Stat(u) ==
  /\ ask[u].pc \in {"launched", "parsed"}
  /\ \E mtime \in IF up THEN {stamp} ELSE Stamp : thing' = [thing EXCEPT ![u].stamp = mtime]
  /\ Goes(u, IF ask[u].pc = "launched" THEN "start" ELSE "search")
  /\ UNCHANGED <<environment, session, tool, history>>

TextSearched(u) ==
  LET t == thing[u]
      got == IF t.parsed THEN FoundIn(t.table, ask[u].mbox) ELSE "error"
  IN /\ kind = "text"
     /\ ask[u].pc = "search" \/ (ask[u].pc = "start" /\ up /\ ~MustParse(u))
     /\ Answers(u, got, got = "absent" /\ t.eaten)
     /\ UNCHANGED thing

TextGone(u) == /\ kind = "text" /\ ask[u].pc = "start" /\ ~up
               /\ Answers(u, "error", FALSE)
               /\ UNCHANGED thing

-----------------------------------------------------------------------------
(* mboxData of the other userbases.                                        *)

Row(u) == FoundIn(Present.entries, ask[u].mbox)

Outcomes(u) == Lookups(kind, thing[u].conn, thing[u].late, up, Row(u),
                       u = "daemon" /\ session.login, ask[u].pc = "second")

Linked(u, o) ==
  thing' = [thing EXCEPT ![u].conn = o.conn, ![u].late = o.late,
                         ![u].served = IF o.got = "error" THEN @ ELSE Len(versions)]

ServerAnswers(u) ==
  /\ kind # "text" /\ ask[u].pc \in {"start", "second"}
  /\ \E o \in Outcomes(u) :
       /\ ~o.more
       /\ Linked(u, o)
       /\ Answers(u, o.got, o.hid \/ (/\ o.got = "absent" /\ ask[u].pc = "second"
                                      /\ ask[u].seen # Len(versions)))

SecondQuery(u) ==
  /\ kind # "text" /\ ask[u].pc = "start"
  /\ \E o \in Outcomes(u) :
       /\ o.more
       /\ Linked(u, o)
       /\ misled' = [misled EXCEPT ![u] = IF o.hid THEN @ \cup {ask[u].mbox} ELSE @]
  /\ ask' = [ask EXCEPT ![u].pc = "second", ![u].seen = Len(versions)]
  /\ UNCHANGED <<environment, session, tool, starts, since>>

-----------------------------------------------------------------------------
(* The daemon and its sessions.                                            *)

\* UBP->get(), or UserBaseRepository()[userbase] of pptool: the object there is, or
\* a new one, whose constructor throws if ldap cannot be bound to.
Gets(u) ==
  /\ kind = "ldap" /\ ~thing[u].made => up
  /\ thing' = [thing EXCEPT ![u].made = TRUE,
                            ![u].conn = IF thing[u].made \/ kind = "text" THEN @ ELSE Constructed(kind, up)]
  /\ since' = [since EXCEPT ![u] = IF kind = "text" /\ thing[u].served > 0
                                   THEN thing[u].served ELSE Len(versions)]
  /\ misled' = [misled EXCEPT ![u] = {}]

\* RCPT, or LOGIN, PASS and APOP.
Ask == /\ "daemon" \in acting /\ ~session.busy
       /\ Gets("daemon")
       /\ \E to \in Address, login \in BOOLEAN :
            /\ session' = [busy |-> TRUE, login |-> login, to |-> to, try |-> 1]
            /\ ask' = [Asking("daemon", TryOf(to, 1)) EXCEPT
                         !["daemon"].pc = IF kind = "text" /\ ~thing["daemon"].made THEN "launch" ELSE "start"]
       /\ UNCHANGED <<environment, tool, starts>>

\* The daemon stops, by a command or by a crash, and is started again.
DaemonRestart ==
  /\ "daemon" \in acting /\ starts < MaxStarts
  /\ starts' = starts + 1
  /\ thing' = [thing EXCEPT !["daemon"] = NoThing]
  /\ ask' = [ask EXCEPT !["daemon"] = Quiet]
  /\ session' = NoSession
  /\ UNCHANGED <<environment, tool, since, misled>>

-----------------------------------------------------------------------------
(* pptool purge-orphans.                                                   *)

ToolStart ==
  /\ "tool" \in acting /\ tool.phase = "idle"
  /\ Gets("tool")
  /\ tool' = [NoTool EXCEPT !.phase = IF kind = "text" THEN "connect" ELSE "list", !.left = Backend]
  /\ ask' = IF kind = "text" THEN [ask EXCEPT !["tool"].pc = "launch"] ELSE ask
  /\ UNCHANGED <<environment, session, starts>>

\* listMboxes.  Messages come in and make mailboxes at any time: what a backend has
\* is chosen when it is looked at.
ToolList(b) ==
  /\ tool.phase = "list" /\ b \in tool.left
  /\ \E found \in SUBSET Address :
       tool' = [tool EXCEPT !.todo = @ \cup found, !.left = IF @ = {b} THEN Backend ELSE @ \ {b},
                            !.phase = IF tool.left = {b} THEN "lookup" ELSE @]
  /\ UNCHANGED <<environment, thing, ask, session, history>>

ToolLooksUp ==
  /\ tool.phase = "lookup" /\ ask["tool"].pc = "idle"
  /\ \E mbox \in tool.todo : /\ tool' = [tool EXCEPT !.todo = @ \ {mbox}]
                             /\ ask' = Asking("tool", mbox)
  /\ UNCHANGED <<environment, thing, session, history>>

Decided == tool.phase = "lookup" /\ ask["tool"].pc = "idle" /\ tool.todo = {}

\* nukeCommand: the orphans that the backend has; an exception leaves the rest.
ToolPurge(b) ==
  /\ Decided /\ b \in tool.left
  /\ \E some \in SUBSET tool.orphans :
       tool' = [tool EXCEPT !.left = @ \ {b}, !.purged = @ \cup some]
  /\ UNCHANGED <<environment, thing, ask, session, history>>

\* At the end, or at a backend that cannot be listed: die.
ToolEnds ==
  /\ tool.phase = "list" \/ (Decided /\ (tool.left = {} \/ tool.orphans = {}))
  /\ tool' = NoTool
  /\ thing' = [thing EXCEPT !["tool"] = NoThing]
  /\ ask' = [ask EXCEPT !["tool"] = Quiet]
  /\ since' = [since EXCEPT !["tool"] = 0]
  /\ misled' = [misled EXCEPT !["tool"] = {}]
  /\ UNCHANGED <<environment, session, starts>>

-----------------------------------------------------------------------------
Lookup(u) == \/ ParseFails(u) \/ ParseDone(u) \/ Stat(u) \/ TextSearched(u) \/ TextGone(u)
             \/ ServerAnswers(u) \/ SecondQuery(u)

Tool == ToolStart \/ ToolLooksUp \/ ToolEnds \/ \E b \in Backend : ToolList(b) \/ ToolPurge(b)

Next == \/ Edit \/ Vanish \/ Return
        \/ Ask \/ DaemonRestart
        \/ \E u \in User : Lookup(u)
        \/ Tool

\* Mail and logins keep coming, and a lookup that has begun is gone through.
Fairness == WF_vars(Ask) /\ WF_vars(Lookup("daemon"))

Spec == Init /\ [][Next]_vars
FairSpec == Spec /\ Fairness

-----------------------------------------------------------------------------
\* Addresses that one of the versions a command of u may answer by does not have.
Unlisted(u) == {a \in Address : \E n \in since[u]..Len(versions) : n # 0 /\ a \notin Listed(n)}

\* The catch-all of a domain gets only what has no mailbox of its own: when RCPT or
\* a login ends at "*@domain", the address itself was missing from the userbase at
\* some moment since the file in use was read, or a failure made it seem to be
\* (a connection lost while rows are fetched, a scanner left in a comment, an
\* address that changes from mailbox to forward between two queries).
CatchAllLast ==
  LET mbox == ask["daemon"].mbox IN
  ~session.busy /\ ask["daemon"].got \in {"mailbox", "forward"} /\ mbox # session.to =>
    /\ mbox = CatchAll[session.to]
    /\ session.to \in Unlisted("daemon") \cup misled["daemon"]

\* purge-orphans purges only mailboxes that were missing from the userbase while it
\* ran: never one it got an error for, though the userbase is edited, restarted and
\* delivered to meanwhile.  The exceptions are those of CatchAllLast.
OnlyUnknownPurged == tool.purged \subseteq Unlisted("tool") \cup misled["tool"]

\* A file with an error in it leaves the old configuration: whatever state earlier
\* files left the scanner in, unless one of them ended in a comment.
BrokenKeepsOld ==
  [][\A u \in User :
       /\ thing[u].parsed /\ thing'[u].made
       /\ Present.end \in {"keyword", "quoted"} /\ thing[u].start # "comment"
       => thing'[u].parsed /\ thing'[u].table = thing[u].table]_vars

\* What mboxData says exists is in a version of the userbase, and no user goes back
\* to an earlier one: the abstract specification of a userbase.  A late answer of
\* ldap may be about another address, and its login says "exists" of any.
ADirectory == INSTANCE Directory WITH
  versions <- [n \in DOMAIN versions |-> Listed(n)],
  served <- [u \in User |-> thing[u].served],
  exists <- [u \in User |-> IF kind # "ldap" /\ ask[u].got \in {"mailbox", "forward"}
                            THEN {ask[u].mbox} ELSE {}]

ImplementsDirectory == ADirectory!Spec

\* A userbase that could not be connected to when the daemon began is connected to
\* once its server is there, if lookups go on.
Reconnects ==
  /\ kind \in {"mysqlplain", "mysqlsimplepdns", "postgresql"} /\ "daemon" \in acting
  /\ <>[]up
  =>
    []<>(thing["daemon"].conn # "none")

\* How the daemon may take an edit for read that it has not read: the file was edited,
\* or gone, between the parse and the stat that follows; it was edited twice in a second;
\* or the first parse failed, and the memory happened to hold its time of modification.
MayMissEdit ==
  LET t == thing["daemon"]
      pc == ask["daemon"].pc
  IN \/ pc \in {"launched", "parsed"} /\ (~up \/ t.served # Len(versions))
     \/ stamp # Len(versions) - 1
     \/ t.made /\ ~t.parsed /\ pc # "launch" /\ ~MustParse("daemon")

\* The file is whole, there to stay, and nothing keeps the scanner from its beginning.
Readable == /\ kind = "text" /\ "daemon" \in acting /\ up /\ Present.end = "whole"
            /\ thing["daemon"].start = "INITIAL"

\* powermail.sgml:1776: "If this file is changed, it is reread instantly", and 1781, "until
\* it is read succesfully": after the edits that leave a readable file the daemon comes
\* to serve the last version and stays with it, whatever broken or missing files came
\* before.  The exceptions are edits it may miss.
RereadUnlessStuck ==
  []~MayMissEdit /\ <>[]Readable => <>[](thing["daemon"].served = Len(versions))

\* A file that is whole and there to stay is read by a daemon that has read one
\* before, whatever came between: its time of modification is taken over, if only
\* by a parse that succeeds.
Reread ==
  <>[](kind = "text" /\ up /\ Present.end = "whole" /\ thing["daemon"].parsed) =>
    []<>(thing["daemon"].stamp = stamp)
=============================================================================
