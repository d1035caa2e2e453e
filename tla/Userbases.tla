----------------------------- MODULE Userbases ------------------------------
(***************************************************************************)
(* UserBase::mboxData of the userbases that ask a server: what one lookup  *)
(* may answer, and the connection it leaves.  A connection is "none" where *)
(* the object has none (d_db = 0), "open", or "broken" after the server    *)
(* went away.  row is what the server has for the address.                 *)
(*                                                                         *)
(* An outcome has got: what mboxData tells its caller, "error" for -1;     *)
(* more: a second query is still to be made; hid: "absent" stands for a    *)
(* failure the code does not see.                                          *)
(***************************************************************************)
EXTENDS Naturals, Sequences

Found == {"mailbox", "forward", "absent"}
Answer == Found \cup {"error"}
Link == {"none", "open", "broken"}

Outcome(conn, late, got) ==
  [conn |-> conn, late |-> late, got |-> got, more |-> FALSE, hid |-> FALSE]

Error(conn, late) == Outcome(conn, late, "error")

\* tryConnect.
Tried(conn, up) == IF conn = "none" /\ up THEN "open" ELSE conn

\* SMySQL::doQuery: mysql_fetch_row answers 0 at the end of the rows and for a
\* connection that is lost, and then there are no rows; the library may make a
\* broken connection again.
Query(conn, up, got) ==
  CASE conn = "open" -> {Outcome("open", <<>>, got),
                         [Outcome("broken", <<>>, "absent") EXCEPT !.hid = TRUE]}
    [] conn = "broken" -> {Error("broken", <<>>)} \cup
                          (IF up THEN {Outcome("open", <<>>, got)} ELSE {})
    [] OTHER -> {Error("none", <<>>)}

If(row, rows, got) == IF row \in rows THEN got ELSE "absent"

\* Mutant of MysqlPlain: the condition that mysqlpdns has.
MysqlPlainNoRetry(conn, up, row) ==
  IF conn = "none" THEN {Error("none", <<>>)} ELSE Query(conn, up, row)

\* mysqlplain: one table, with a column that tells a forward.
MysqlPlain(conn, up, row) == Query(Tried(conn, up), up, row)

\* mysqlsimplepdns: every row is a forward.
MysqlSimplePdns(conn, up, row) ==
  Query(Tried(conn, up), up, If(row, {"mailbox", "forward"}, "forward"))

\* mysqlpdns: forwards first, mailboxes with a second query; `!d_db || !tryConnect()`
\* gives up where there is no connection.
MysqlPdns(conn, up, row, second) ==
  IF conn = "none" THEN {Error("none", <<>>)}
  ELSE IF second THEN Query(conn, up, If(row, {"mailbox"}, "mailbox"))
  ELSE {[q EXCEPT !.more = q.got = "absent"] : q \in Query(conn, up, If(row, {"forward"}, "forward"))}

\* postgresql: isForward compares two pointers, and no row is a forward.  A broken
\* connection is kept.
PostgreSQL(conn, up, row) ==
  LET c == Tried(conn, up) IN
  {IF c = "open" THEN Outcome(c, <<>>, If(row, {"mailbox", "forward"}, "mailbox")) ELSE Error(c, <<>>)}

\* oracle: connected by the constructor or never; every row is a forward.
Oracle(conn, row) ==
  {IF conn = "open" THEN Outcome(conn, <<>>, If(row, {"mailbox", "forward"}, "forward"))
                    ELSE Error(conn, <<>>)}

\* Mutant of Searched: an answer that was read is not taken off.
SearchedKept(late, row) ==
  [Outcome("open", Append(late, row), Head(Append(late, row))) EXCEPT !.hid = late # <<>>]

\* A search of ldap: the answer that is read is the first not yet read, of whatever
\* search.  A server that answers with an error counts as one that found nothing.  The
\* second search, of the setting ldap-alternate-attribute (by default empty), is left out.
Searched(late, row) ==
  LET answers == Append(late, row) IN
  [Outcome("open", Tail(answers), Head(answers)) EXCEPT !.hid = late # <<>>]

\* waitResult gives up: the answer, or the end of it, is left to the next search.
TimedOut(late, row) ==
  {Error("open", <<unread>>) : unread \in {row, "absent"} \cap IF late = <<>> THEN Found ELSE {}}

\* bind as the user: whether it succeeds or not, the mailbox is said to exist.
Bind(conn, late) == Outcome(conn, late, "mailbox")

\* ldap: a login binds, other lookups search.
Ldap(conn, late, row, login) ==
  IF login THEN {Bind(conn, late)}
  ELSE IF conn # "open" THEN {Error(conn, late)}
  ELSE {Searched(late, row), [Searched(late, "absent") EXCEPT !.hid = TRUE]} \cup TimedOut(late, row)

Kind == {"text", "mysqlplain", "mysqlsimplepdns", "mysqlpdns", "postgresql", "oracle", "ldap"}

\* What mboxData of a kind may answer.
Lookups(kind, conn, late, up, row, login, second) ==
  CASE kind = "mysqlplain" -> MysqlPlain(conn, up, row)
    [] kind = "mysqlsimplepdns" -> MysqlSimplePdns(conn, up, row)
    [] kind = "mysqlpdns" -> MysqlPdns(conn, up, row, second)
    [] kind = "postgresql" -> PostgreSQL(conn, up, row)
    [] kind = "oracle" -> Oracle(conn, row)
    [] kind = "ldap" -> Ldap(conn, late, row, login)

\* OracleUserBase::connect, called by the constructor alone, though a comment there
\* says that every query will try again: all of it succeeds, or it is cleaned up.
OracleConnects(up) == IF up THEN "open" ELSE "none"

\* The connection a constructor makes; that of ldap throws where there is none.
Constructed(kind, up) == IF kind = "oracle" THEN OracleConnects(up) ELSE Tried("none", up)
=============================================================================
