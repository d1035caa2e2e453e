------------------------------ MODULE TextBase ------------------------------
(***************************************************************************)
(* The file of the text userbase, as its scanner and parser read it.  A    *)
(* file is the entries that precede its end, and how it ends:              *)
(*   "whole"    at the end of an entry, or at a character the scanner does *)
(*              not know between two entries, which it takes for the end   *)
(*              of the file (the report of the error is never reached);    *)
(*   "keyword"  a syntax error at a token that is not a quoted word;       *)
(*   "quoted"   a syntax error at a quoted word, or the end of the file    *)
(*              inside one: the scanner stays in the condition <quoted>;   *)
(*   "comment"  a comment that is not closed: the scanner stays in         *)
(*              <comment>, and the parser sees the end of the file.        *)
(* The start condition and d_addr, the entry that is being read, are       *)
(* variables of the process: they survive from one parse to the next.      *)
(* Left out: a file that is empty or begins with a quote, read from        *)
(* <quoted> (the scanner leaves that condition before the grammar sees a   *)
(* word), and a comment left open within an entry, which is an error of    *)
(* the grammar that leaves the scanner in <comment>.                       *)
(***************************************************************************)
EXTENDS Naturals, Sequences

CONSTANT Address   \* what an entry may be for

Start == {"INITIAL", "quoted", "comment"}
Entry == [address : Address, forward : BOOLEAN]

\* unfinished: a forward statement was read in an entry the error cut off.
\* headed: the file begins with a comment, closed.
File == [entries : Seq(Entry), end : {"whole", "keyword", "quoted", "comment"},
         unfinished : BOOLEAN, headed : BOOLEAN]

\* What the scanner lets the parser see of a file read from a start condition:
\* from <quoted>, all up to the first quote is a word, where the grammar wants
\* "address"; from <comment>, nothing up to the end of a comment.
Eaten(start, file) == start = "comment" /\ ~file.headed
Seen(start, file) == start # "quoted" /\ ~Eaten(start, file)

\* Mutant of Throws: an error in the file is only logged.
ThrowsNever(start, file) == FALSE

\* yyerror throws, out of yyparse and into tryParse.
Throws(start, file) ==
  \/ start = "quoted"
  \/ Seen(start, file) /\ file.end \in {"keyword", "quoted"}

NextStart(start, file) ==
  IF ~Seen(start, file) THEN start
  ELSE IF file.end \in {"quoted", "comment"} THEN file.end ELSE "INITIAL"

\* Mutant of NewEntries: textCallback appends to what earlier parses gave.
NewEntriesKept(start, file, left, table) ==
  table \o [i \in 1..(IF Seen(start, file) THEN Len(file.entries) ELSE 0) |->
              [file.entries[i] EXCEPT !.forward = @ \/ (i = 1 /\ left)]]

\* s_newentries: an entry ends d_addr, so only the first can inherit from a parse
\* that an error cut off.
NewEntries(start, file, left, table) ==
  [i \in 1..(IF Seen(start, file) THEN Len(file.entries) ELSE 0) |->
     [file.entries[i] EXCEPT !.forward = @ \/ (i = 1 /\ left)]]

\* d_addr.forward, not empty, after the parse.
NextLeft(start, file, left) ==
  IF ~Seen(start, file) THEN left
  ELSE file.unfinished \/ (left /\ file.entries = <<>>)

\* mboxData: the first entry for the address.
FoundIn(table, a) ==
  LET at == {i \in DOMAIN table : table[i].address = a}
      first == CHOOSE i \in at : \A j \in at : i <= j
  IN IF at = {} THEN "absent"
     ELSE IF table[first].forward THEN "forward" ELSE "mailbox"
=============================================================================
