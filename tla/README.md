# A verification project for PowerMail

PowerMail receives mail over SMTP, stores each message on several storage
backends, and serves mailboxes over POP3 from all of them. This directory
models the parts of it whose correctness depends on order, failure and
concurrency, checks the models with TLC, and proves the safety properties and the
refinements of all of them with TLAPS. Sources are named relative to `src/`.

## 1. The system

```
 sender --SMTP--> powersmtp ----+----> pplistener (backend 1, group A) --> maildirs
                   SmtpSession  |        PPListenSession, Delivery
                   MegaTalker --+----> pplistener (backend 2, group B) --> maildirs
 reader --POP3--> powerpop -----+
                   PopSession, MegaTalker, state thread, failure logs
                   powersmtp ----------> another SMTP server (forwards)
 powersmtp, powerpop --PoolClass--> userbase (text file, LDAP, SQL)
```

Every daemon runs a thread per connection. Daemons share nothing but the
connections between them; the threads of one daemon share the backend table
(`MegaTalker::s_targets`), the pool of userbase connections (`UBP`), the message
counter, and, in pplistener, the file system under the mail root.

| Component | State | Operations | Interacts with |
|---|---|---|---|
| pplistener: `PPListenSession` (ppsession.cc), `Delivery` (delivery.cc), `serveConnection` (pplistener.cc) | mode of the session, `d_failed`; open file, list of file names; the maildirs, shared by all sessions; readonly and full flags | pass, rcpt, put, data lines, commit, rollback, del, nuke, get, ls, dir, ping, stat, readonly, readwrite, quit, control | is called by `PPTalker`; sessions meet in the file system, without a lock |
| powersmtp: `SmtpSession` (smtpsession.cc) | sender, recipients, index, quota figures, a `MegaTalker` | MAIL, RCPT, DATA, data lines, RSET, QUIT, control | userbase pool, `MegaTalker` |
| `MegaTalker` (megatalker.cc) | per session: talkers, `d_degraded`; per process: backend table, failure logs in the state directory | openStorage, addRemote, addRecipient, startData, msgAddLine, msgDone, msgRollback; getMsgs, delMsg, blastMessageFD; doStateThread, storeFailure, playbackLog | `PPTalker`, `SmtpTalker`, `ServerSelect` |
| `PPTalker`, `SmtpTalker` | a `Session` | one request and its answer each | pplistener; an SMTP server |
| `ServerSelect` (serversel.cc) | a copy of the backend table, used marks | getServer | openStorage, with what the state thread saw last |
| daemons (powersmtp.cc, powerpop.cc, pplistener.cc) | the listening socket; `s_statelock` at start-up | start, stop, control commands, a thread per connection | the administrator; start and stop are processes of their own |
| powerpop: `PopSession` (popsession.cc) | user, listing with deletion marks, a `MegaTalker` | USER, PASS, APOP, DELE, RSET, QUIT, STAT, LIST, UIDL, RETR, TOP, control | userbase pool, `MegaTalker` |
| powerimap: `IMAPSession` | like `PopSession` | LOGIN, SELECT, FETCH, STORE, EXPUNGE | the same |
| `Session` (session.cc) | socket, read buffer with two offsets, timeout | getLine, putLine, sendFile | all |
| `PoolClass` (pool.hh) | deque of free things, semaphore, counts | stock, get, giveBack | every lookup of SMTP, POP and IMAP |
| `RCMutex`, `Lock` (lock.hh) | a mutex with a count of its holders | copy, assign, lock | backend table |
| userbases (text, mysqlplain, mysqlsimplepdns, mysqlpdns, postgresql, oracle, ldap) | the parsed file with its time of modification, or a connection; for the text one also the scanner's start condition and the entry being read, which are variables of the process | mboxData, connected, tryConnect, tryParse | the pool; the administrator edits what they read |
| pptool, mboxdir | none | one-shot administration: list, purge, purge-orphans, block, unblock | pplistener, a userbase |
| settings, logger, md5, helpers | settings read at start | | all |

What makes it hard:

* **pplistener**: sessions commit, purge and delete in the same directories
  without locks, one system call at a time; a commit is a sequence of renames
  any of which can fail; a process that ends runs no destructor.
* **MegaTalker storing**: a message goes to several backends and forwards, each
  of which may refuse, die, or do what was asked and lose the answer, at every
  request; the client may retry DATA on what the last attempt left.
* **MegaTalker reading**: one connection per backend serves all sessions and the
  state thread, which also deletes and replaces it; answers may come late;
  backends go and come back; deletions they missed are replayed from a file.
* **The state thread and powersmtp**: sessions select by a view of the backends that
  is up to a round old, read over connections that are shared and can be a
  request behind; the first round holds a lock that sessions wait for; a quota is
  enforced by two comparisons, over retries of DATA that keep part of the state.
* **The userbases**: the file or the tables change under the daemon; a file can be
  broken, gone, or written twice in a second; the scanner is global; a
  server goes away between and within queries, and some failures look like
  "no such mailbox", which sends mail to the catch-all and lets purge-orphans purge.
* **The pool**: threads wait on a semaphore and take under a lock; counts, the
  deque and the semaphore must agree between the two.

The hazards this code is exposed to are listed one by one, each with its line and the
properties about it, in `PROJECT.json`.

What makes each component correct:

* a backend keeps every message it acknowledged until a user deletes it, shows
  nothing of a message that was refused or damaged, and gives all recipients the
  same message;
* 250 to the data means a copy in `redundancy` groups for each mailbox and a
  delivery to each forward; 552 means nothing was stored or sent;
* POP deletes what a client gave QUIT with, everywhere in the end, and nothing
  else; a listing names messages;
* powersmtp stores on the best backend of each group it can write to, refuses a
  message for want of backends only if there was a reason, drops no line of a message
  it accepts, accepts none that no recipient has room for, and serves again when its
  backends are back;
* a lookup answers by a version of the directory the administrator wrote, never
  by one older than before; a broken file leaves the old one; the catch-all gets only
  what has no mailbox, and purge-orphans purges only such;
* the pool gives a thing to one thread at a time, never makes more than the
  maximum, and serves who waits.

## 2. The modules

| Module | Models | Used by |
|---|---|---|
| `MailStore` | what a backend promises: names appear, are withdrawn until they are promised, and are deleted by users only | refined by `PPListener` |
| `PPListener` | pplistener: sessions and their maildir transactions over one file system | `MCPPListener`, `PPListenerProofs` |
| `PPListenerProofs` | its theorems | |
| `SmtpDelivery` | one SMTP session and its `MegaTalker`, against any behaviour of backends and sender | `MCSmtpDelivery`, `SmtpDeliveryProofs` |
| `SmtpDeliveryProofs` | its theorems | |
| `PowerPop` | POP sessions, state thread, backend table, failure logs | `MCPowerPop`, `PowerPopProofs` |
| `PowerPopProofs` | its theorems | |
| `Pool` | `PoolClass` | `MCPool`, `PoolProofs` |
| `PoolProofs` | its theorems | |
| `TextBase` | the text userbase's file as scanner and parser read it (operators) | `Resolver` |
| `Userbases` | one lookup of each userbase that asks a server (operators) | `Resolver` |
| `Directory` | what a userbase promises: answers by versions of the directory, in their order | refined by `Resolver` |
| `Resolver` | lookups of a daemon's sessions and of purge-orphans in a userbase that is edited and fails meanwhile | `MCResolver`, `ResolverProofs` |
| `ResolverProofs` | its theorems | |
| `ServerSelect` | `getServer` and `byPrio` (operators) | `PowerSmtp`, `ServerSelectProofs` |
| `ServerSelectProofs` | theorems about the operators of ServerSelect | `PowerSmtpProofs` |
| `PowerSmtp` | the powersmtp process: start, stop, state thread, choice of backends, quota | `MCPowerSmtp`, `PowerSmtpProofs` |
| `PowerSmtpProofs` | its theorems | |
| `SetLemmas` | facts about finite sets, their enumeration and least numbers that several proofs cite | the `*Proofs` modules |

`MC*` modules and their `.cfg` files give the constants small values. Operators
marked "Mutant of ..." next to an action are what that action would be with a
plausible bug; `PROJECT.json` names the property that each of them breaks.

### PPListener

A session has a mode (`d_mode`, or `"closed"`) and a task: the loop its thread
is in while a command runs. Commands that make one change to the shared state are
one action; those that loop (`moveAll`, `unlinkAll`, `nukeDir`) are one action per
system call, so that other sessions act in between. The file system is the
`tmp/` and `cur/` entries of each name (`tmp[n]`, `cur[n]`, the inode or `NoName`),
the mailboxes that have a `cur/`, and what each inode holds. An inode is called
by the name it was created under. `files(s)` is `d_filenames`, split in the `tmp/`
paths and those `moveAll` has rewritten to `cur/`.

| Action | Code |
|---|---|
| `Connect`, `Pass`, `HangUp` | `serveConnection`, `passwordCommand`, quit or a lost connection with `~Delivery` |
| `Crash` | `exit(0)` on control stop, an uncaught exception, a kill: no destructor runs |
| `RcptOpen`, `RcptLink`, `RcptFails` | `rcptCommand` and `addFile`: create, hard-link, or fail at any of its calls |
| `Put`, `LineFails`, `LineShort`, `Dot` | `putCommand`, `putLine`; a failed write, a short one, the end |
| `CommitRefused`, `Commit`, `CloseFails`, `MoveOne`, `MoveFails`, `CommitDone` | `commitCommand`, `Delivery::commit`, `moveAll` |
| `Rollback`, `UndoTmp`, `UndoCur`, `UndoDone` | `rollBackCommand`, `unlinkAll`, `reset` |
| `Del`, `Nuke`, `NukeCurFile`, `NukeCurDir`, `NukeTmpFile`, `NukeEnds` | `delMessage`, `nuke`, `nukeDir` |
| `DirCommand`, `MoreDir` | `dirCommand`, `moreDir` |

Lines that are written without a problem change nothing the properties tell
apart and are no action; `Dot` makes a file without a failed write whole.
`acked`, `deleted` and `orphans` are history.

Assumed (by `MayAnnounce` and where the actions say so):

* a name is announced once: `makeIndex` has the time, the host and a
  counter, `addRecipient` a message number;
* a client does not go on with a connection whose commit was refused:
  `MegaTalker` marks that talker not ok. (pplistener itself keeps the
  transaction; this is listed as a hazard.)
* a session can unlink the files it made itself;
* a `Delivery` starts without an open file. The constructor leaves `d_fd`
  uninitialised; the hazards list that.

### SmtpDelivery

One session; sessions of powersmtp share only the index counter and the
backend table, of which every content is allowed. `step` follows `eatData`
through its calls. A talker is the `TalkerData` of the code together with what the
other end knows: the recipients it has, and its mode, which is that of
PPListener's session (an announcement sent to a backend that is receiving data, on
a retried DATA, is taken for a line of it). Each round over the talkers is one
action, with a set of talkers chosen that answered +OK; the others have thrown. In
`MsgDone` the set that committed is larger than the set that said so. `stored`
and `sent` are what backends and sender have; `accepted` and `rejected`
are what the client was told.

| Action | Code |
|---|---|
| `MailFrom`, `RcptMailbox`, `RcptForward`, `Rset` | `eatFrom`, `eatTo` with `addRemote`, `rsetSession`; `Rset` is also QUIT and a lost connection |
| `Data`, `OpenStorage`, `QuotaUnknown`, `AddRecipient`, `AllAnnounced`, `StartData` | `eatData` and the `MegaTalker` functions it calls, in its order |
| `AddLine`, `TooLarge`, `MsgDone` | `eatDataLine`, `msgAddLine`, `msgDone`, `msgRollback` |

`Reachable` is the set of servers `getServer` selects and the session can connect
to: at most `Redundancy`, of different groups. Order, priority and why a server
is not up are left out.

Recipients are a set: the same recipient twice gives two names with the same
content and adds nothing the properties see.

### PowerPop

All of a powerpop process and its backends, for one mailbox. The lock of
a table entry is held during a request to its backend, so what is done with one
backend is one action (`ListAt`, `DelAt`, `CheckUp`, `CheckDown`); sessions, the
state thread, and backends that die (`Kill`, `Restart`) interleave between them.

A connection is `open` (there is a `pp_talker`), `linked` (the other end lives),
and has `late` lines: answers not read yet. A request adds its answer to them;
`Replies` and `Listings` say what the caller may read of it, a timeout at any
line included. A line of a listing is taken for the name of a message whatever
it is (`NameIn`). The log of a backend is one line, since `storeFailure` keeps one.

`Stop` is the process ending with all its sessions, for any reason; it
is started again and the logs are what is left. `CheckUp` and `CheckDown`
have that outcome too where `~PPTalker` throws.

RETR, TOP, LIST, UIDL and STAT change nothing and are left out (RETR opens a
connection of its own). powersmtp's use of `getMsgs` for quotas is
`QuotaUnknown` in SmtpDelivery. One mailbox is enough for the properties:
requests differ by mailbox only in what they name.

### Pool

A thread is idle, about to `sem_wait`, past it, or using a thing; each action is
one critical section of `d_lock`, or `sem_wait`. `free` is the deque, whose order
no thread can tell. `Thing` are the addresses a thing may have, reused after a
delete. `AskFails` is the generator that throws.

### TextBase, Userbases, Resolver

A user of a userbase is the daemon, whose sessions are taken one at a time on one
object (Pool has how they share objects), or the tool, which is one object for one
command. They share only what they read, so a run takes the one or the
other (`Acting`). `versions` are all contents the userbase has had; the
text file also has a time of modification, which an edit within the same second
does not change.

`TextBase` has no characters: a file is its entries and how it ends (whole, a
syntax error at a keyword or at a quoted word, an unclosed comment), because the
scanner's start condition (`yy_start`) and the entry being read (`d_addr`) are all
that survives a parse. `Throws`, `NextStart`, `NewEntries` and `NextLeft` say what
one parse does, given what the last one left. `Userbases` gives, for each of the
others, the outcomes of one `mboxData`: the answer, the connection it leaves, and
whether "absent" hides a failure (`hid`).

| Action | Code |
|---|---|
| `Edit`, `Vanish`, `Return` | the administrator, the file system or the server (external) |
| `Ask`, `SessionGoesOn` | `eatTo` and the logins of POP and IMAP: the address, then `*@domain` |
| `ParseFails`, `ParseDone`, `Stat` | `TextUserBase::tryParse`, in its two steps: the file is parsed, then asked for its time |
| `TextSearched`, `TextGone` | `TextUserBase::mboxData`, `connected` |
| `ServerAnswers`, `SecondQuery` | `mboxData` of the others; mysqlpdns makes two queries |
| `DaemonRestart` | the end of a daemon, for any reason, and its next start |
| `ToolStart`, `ToolList`, `ToolLooksUp`, `ToolPurge`, `ToolEnds` | `PPToolMain`, `findOrphans`, `nukeOrphans` |

`since` and `misled` are history: the oldest version an answer may be from, and the
addresses that seemed absent by a failure. Exceptions the properties name, all of
them behaviour of the code:

* a lookup that hid a failure may send mail to the catch-all, or make
  purge-orphans purge a mailbox (`misled` in `CatchAllLast`, `OnlyUnknownPurged`);
* after a file with an unclosed comment a parse of any file without a closing
  comment gives an empty table without an error (`BrokenKeepsOld` excludes it);
* a character the scanner does not know ends the file like its end does;
* an object whose first parse fails compares an uninitialised `d_last_mtime`: any
  value;
* an edit may be taken for read that was not (`MayMissEdit`): the file was edited, or
  gone, between the parse and the stat that follows it; it was edited twice in one
  second; or the value of the last item happened to be its time. The manual says
  "reread instantly". `RereadUnlessStuck` compares the version served with the last
  one, in behaviours without these;
* mysqlpdns and oracle never connect again if they could not at first, so
  `Reconnects` leaves them out (`!d_db || !tryConnect()`, mysqlpdns.cc; oracle.cc has a
  comment in Dutch that each query tries again, and no code for it);
* ldap is left out of the refinement: a late answer may be about another address,
  and a login is told "exists" of any, before its password is tried.

`ImplementsDirectory` is the refinement: what is answered as existing is in the version
that is served, and the version served never goes back while the process lives.

### ServerSelect, PowerSmtp

One powersmtp process, its backends, the administrator, and one session (others
would share the view and the connections, which a session leaves as bad as two
could: up to `MaxLate` lines behind, by any number of listings between two rounds).
The state thread counts its rounds (`round`): a ping is followed by a `stat` in one of
`StatEvery`, and it is the `stat` that notices a connection that is behind, by an
answer of too few words. A listing (`Listings`) may time out at any line of the answer,
and leaves the rest unread. What talkers do among themselves is
SmtpDelivery's; here a request to a talker can fail only if its backend is not
well, a forward is involved, or an earlier DATA was left in the middle (`MayFail`).

| Action | Code |
|---|---|
| `Start`, `Serve`, `Stop`, `Exit` | `doCommands`, `PowerSmtpMain`, `exit(0)`; `start` tries the port and goes on to bind it, two steps |
| `BackendBecomes`, `Block` | backends well, slow, full or gone (external); `pptool block` and `unblock` |
| `CheckUp`, `CheckDown` | `doStateThread`, one backend of the round at a time |
| `MailFrom`, `RcptMailbox`, `RcptForward`, `Rset`, `HangUp` | the session's commands, as far as they touch quota and talkers |
| `Data`, `Select`, `Connect`, `AddRecipient`, `ListAt`, `Measured`, `StartData` | `eatData`, `openStorage`, `determineKbUsage` |
| `AddLine`, `EndOfData` | `eatDataLine` |

`Selections` gives every set `openStorage` may choose from a view. kbfree and load
are arbitrary, so the spread switches may order a group's backends of one priority
in any way. Sizes are kilobytes; a line is half of one, so that both sides of
`d_databytes/1000 >= d_kbroom` and `> d_kbroom` are reached between lines.

Exceptions the properties name:

* `AcceptedWhole`: a message that exactly fills the room to the kilobyte loses its
  last lines and is accepted;
* `WithinRoom`: a DATA for forwards alone sets `d_quotaneeded` to false for the rest of
  the transaction, mailboxes added after it failed included;
* `ServesAgain`: backends that are slow or full are not replaced by others
  (smtpsession answers 450 for as long as they are), so it is about backends that are
  well or away;
* `BackAgain`: is about a backend that is well; one that is slow can be up or down.

`Select` copies the backend table in one step. The code copies it entry by entry
without their locks, while the state thread may change one: `ChosenWell` is about the
copy. That the message is redundant whatever the copy said is
`RedundantUnlessForwarded`, where `Reachable` allows any selection.

## 3. The runs

| Run | Instance | Distinct states | What it shows |
|---|---|---|---|
| `pplistener` | 2 sessions, 2 mailboxes, 1 name in each | 291,846 | type; `AckedStored`, `LostLineHidden`, `NoStray`, `RefusedGone`, `OpenWhileReceiving`, `OneCopy`; implements `MailStore` |
| `pplistener_short_write` | the same | violation | `DeliveredWhole` does not hold |
| `smtp_delivery` | 3 backends in 2 groups, redundancy 2, 2 mailboxes, 1 forward, 2 messages, 4 talkers | 1,770,116 | type; `RedundantUnlessForwarded`, `EveryRecipientServed`, `RejectedNowhere` |
| `smtp_forward_counts` | the same | violation | `RedundantWhenAccepted` does not hold |
| `powerpop` | 2 backends, 1 session at a time, 1 message, connections up to 2 lines behind | 540,679 | type; `UpIsConnected`, `OnlyAskedGone`, `ReplayedOrKept` |
| `powerpop_log` | 1 backend, 1 session, 2 messages, no timeouts, a log that can be written | violation | `DeletionKept` does not hold |
| `powerpop_listing` | 1 backend, 2 sessions, 1 message | violation | `ListedReal` does not hold |
| `pool` | 4 threads, maximum 2, 1 spare, 2 generator failures | 1,104 | type; `WokenFinds`, `AtMostMax`, `Exclusive`; `ServedWithSpares` |
| `userbase` | 7 userbases, one address and its catch-all, 5 contents, 2 edits, 2 starts, 1 backend | 566,555 | type; `CatchAllLast`, `OnlyUnknownPurged`; `BrokenKeepsOld`; implements `Directory`; `Reconnects`, `RereadUnlessStuck` |
| `userbase_reread` | the text userbase of the same | violation | `Reread` does not hold |
| `powersmtp` | 3 backends in 2 groups, redundancy 2, 2 mailboxes, the four settings below | 321,504 | type; `ChosenWell`, `RefusedForCause`, `AcceptedWhole`, `WithinRoom`; `BlockedLeftAlone`, `WaitEnds`, `BackAgain`, `ServesAgain` |
| `pool_no_spares` | 4 threads, maximum 2, no spare | violation | `Served` does not hold |

Bounds:

* `pplistener`: two names suffice for one message with two recipients (a link,
  a commit that fails between its renames) and for two messages in flight. A
  session's own names matter only as "the first" and "another"; two sessions
  are needed for each interference, and the theorems lift the bound.
  Sessions are symmetric.
* `MaxIndex` (2 messages): state left by a message that failed meets
  the next one. `MaxTalkers` (4): DATA can be retried with the talkers of a first
  attempt in place, with and without a forward. The bound is in the guards
  of `RcptForward` and `Data`, which are commands a client may simply not give.
  Three backends with two in one group: a selection can be sufficient, too small, or
  drawn from one group (the mutant of `Reachable`). Mailboxes are symmetric.
* `MaxLate` (2): a connection can be a whole one-line answer and the head of the
  next behind. A step that would leave more unread is not taken; the
  properties of the passing run hold for 2 as for 0, and being further behind adds
  no kind of line. `powerpop` has one session at a time, since two make the run
  too long; the session still interleaves with the state thread and the backends.
  `powerpop_listing` has two.
* `MaxLost` (2, the maximum): the generator can fail until no thing may be
  made, which is the exception `ServedWithSpares` names.

* `userbase`: two edits make three versions, which is a good file, a bad one and a
  good one again. Of two users only one acts in a behaviour, since they do not
  touch what the other reads. The contents have each ending of a file, with and
  without a comment at the head, and the address as mailbox, as forward and absent.
* `powersmtp`: `Bounds` is a set of settings, each explored by itself: two changes
  without a restart, of a backend that has a spare in its group and of the one that
  has none (one that fails and returns, or two that fail; `ailing` are the backends
  that may change); three changes of the first; one change of any and a daemon that
  stops, or dies, and is started again; and no changes with messages of up to six lines (3 kb, over a
  quota and a maximum of 2), two recipients, a forward, announced sizes and usages of
  0, 1 and 3 kb, so that a room is whole, partly used and negative. A backend that is
  slow, so that answers stay unread, is blocked and is quick again takes three changes:
  then the sessions' listings can each leave an "+OK" for the next ping to read, and
  only the `stat` ends that (with the mutant `StatNever` it goes on for ever). `MaxLate`
  (3) is a listing and a ping behind, `MaxTalkers` (3) a retry of DATA.
* `StatEvery` (2, 60 in the code): there are rounds with a `stat` and rounds without;
  between two of the first, sessions can list any number of times, so more rounds
  without one add no state of a connection. The bounded quantity is lines unread
  (`MaxLate`): a listing that would leave more is not made.

All runs but `powersmtp` check for deadlock; no state of their models is without a
step. In `powersmtp` a daemon that has ended for the last of its `starts` stays so.

Fairness is assumed in three places.

* `Resolver`: `WF(Ask)`, mail and logins keep coming, which is what the manual's "for
  each new message" means, and `WF(Lookup)`, a call of `mboxData` goes on until it
  returns. Nothing is assumed of the administrator or the server.
* `PowerSmtp`: `WF(StateThread)`, a loop with a sleep of 10 seconds whose requests
  time out, and `WF(Select \/ Connect)`, a session in `openStorage`, which waits for
  no one but the state thread. Nothing is assumed of clients and backends; the
  liveness properties state of them what they need.
* `Pool` (`FairSpec`), more closely: a thread takes its thing once
past the semaphore (`d_lock` is held briefly), a query ends and its handle goes
(weak fairness of `Take` and `GiveBack`: userbase calls return, and a handle
is a local variable of the loop around one), and `sem_wait` does not pass over a
thread for ever while the semaphore is posted again and again (strong fairness of `Wake`: the
thread library does not starve a waiter). Nothing is assumed of `Ask`: a session need not
look anybody up. Without spares (`pool_no_spares`) the same fairness does not help.

What the violations are, in short (details and lines in `PROJECT.json`, "findings"):

* a short `write(2)` is taken for a success, so a truncated message is committed;
* a forward's talker counts toward the redundancy;
* the failure log is truncated by each failed deletion;
* a shared connection goes on being used after a timeout, one answer behind;
* with no spares a thing given back wakes nobody;
* a text userbase with an error in a quoted word is never read again, whatever it
  is replaced by, until the daemon is restarted.

## 4. The proofs

### PPListenerProofs

For any sets of sessions, mailboxes and names (`NameAssumption`: each name has a
mailbox and `NoName` is no name), every safety property of the `pplistener` run and the refinement
of `MailStore` are proved from one inductive invariant

    IInv == TypeOK, Fresh, Apart, Unseen, Phase, Writing, AckedStored,
            LostLineHidden, NoStray, RefusedGone, OneCopy

* `Fresh`: whatever is on disk, listed by a session, acknowledged, deleted or
  orphaned was announced. A new announcement therefore meets nothing.
* `Apart`: no name is listed by two sessions, nor listed and acknowledged, and
  two sessions write different files. This is what makes the unlinks of one session harmless to the
  others, and is why `AckedStored` is not inductive without it.
* `Unseen`: a name a transaction has still to rename is in no mailbox and was
  not deleted, so a name appears once in its life.
* `Phase`: which file lists and descriptor a session has in each mode and task;
  `OpenWhileReceiving` follows from it.
* `Writing`: the file being written is in no mailbox, and holds what the mode and
  `d_failed` say: a commit that renames has no damaged file.

`Invariance` proves `Spec => []IInv` with one step per action; the other theorems
follow from it by PTL. `Implementation` shows each action to be an action of
`MailStore` or a stutter: `MoveOne` appears a name, `UndoCur` withdraws one
(by `Apart` nobody was promised it), `CommitDone` promises, `Del` and
`NukeCurFile` delete.

### PoolProofs

For any finite sets of threads and addresses and any limits
(`PoolAssumption`, `PoolSizeAssumption`: what is stocked fits the maximum and
memory) type correctness, `WokenFinds`, `AtMostMax` and `Exclusive` are proved from

    IInv == TypeOK, Posted, Counted, Capped, Holding, Exclusive

* `Posted`: the semaphore and the threads past it together are the size of the
  deque. This is what `WokenFinds` needs, and neither half holds alone.
* `Counted`: `d_created` is the free things, those in use, and those the
  generator failed to make. From it, that `giveBack` never counts below zero.
* `Capped`: `d_created` is at most the maximum.
* `Holding`: who holds a thing is using it.

### SmtpDeliveryProofs

For any finite set of backends in any groups, any redundancy of at least 1, any
recipients and bounds (`DeliveryAssumption`), `TypeOK`, `RedundantUnlessForwarded`,
`EveryRecipientServed` and `RejectedNowhere` are proved from

    IInv == TypeOK, Recipients, AllUp, EnoughGroups, Announced, RefusedStuck,
            Known, CommittedOnce, and the three properties

What 250 promises at the end of the data was settled by earlier requests to other
talkers, so none of the three is inductive. The other conjuncts say what each step of
`eatData` has settled, unless the `MegaTalker` is degraded:

* `Recipients`: there is a talker to the sender for each forward that was answered 250,
  and no other; what is still to be announced is a recipient.
* `AllUp`: a talker that failed has degraded the whole.
* `EnoughGroups`: where there are talkers, those to backends are of `Redundancy`
  groups, but where a recipient is forwarded. This is the only place the
  exception of `RedundantUnlessForwarded` comes from.
* `Announced`: every backend there is a talker to knows every recipient announced so
  far, and when one was announced there is such a backend.
* `RefusedStuck`: a 552 to DATA leaves a backend that expects data; the next DATA
  announces to it, fails and degrades, so data is never sent after a 552.
* `CommittedOnce`: a message partly committed is degraded, and sent no more.
* `Known`: nothing is stored, sent or rejected of a message not yet begun.

There is a lemma per action; `AnnounceRound`, `StartRound` and `PlainRound` say what a
round over the talkers leaves of them, `Appended` and `GroupsGrow` what openStorage
adds. The order in which the model appends new talkers is some order (`SetToSeq`, a
CHOOSE): `SeqOfSet` of SetLemmas, that it enumerates the set, is all the proofs use.

### PowerPopProofs

For any backends, sessions, finite set of messages and lag (`PopAssumption`: the names
of messages are told apart from answers), `TypeOK`, `UpIsConnected`, `OnlyAskedGone` and
`ReplayedOrKept` are proved from

    IInv == TypeOK, UpIsConnected, OnlyAsked

* `OnlyAsked`: what a session has still to delete, and what a failure log holds, was
  given QUIT with. `OnlyAskedGone` is about one step, but the name that goes may have
  been in a log since before the process was started; this connects the two.

`Replies` and `Listings` are recursive functions over what is unread; the proofs need
only where their results come from (`ReplyType`, `ListingType`, `DeletionType`).
`ReplayedOrKept` follows by the cases of `CheckDown` (`CheckDownCases`,
`PlaybackStep`).

### ResolverProofs

For any addresses and catch-alls, any files the administrator writes, each of the seven
userbases and any number of edits and starts (`ResolverAssumption`), `TypeOK`,
`CatchAllLast`, `OnlyUnknownPurged`, `BrokenKeepsOld` and the refinement of `Directory` are
proved from

    IInv == Shapes, Informed, SessionKnown, ToolKnown, CatchAllLast, OnlyUnknownPurged

* `Shapes`: types, stronger than `TypeOK` where proofs need it.
* `Informed` has three parts: that `since` is no later than the last version; `Sound`: the table is of the version it was read from, all of it if no
  comment hid the rest; and no older than what a command of this user may answer by.
  `Pending`: a question that is asked has no answer, and the second query of mysqlpdns
  is asked only of what was no forward at the first.
* `SessionKnown`, `ToolKnown`: a session that asks for the catch-all, and the orphans of
  the tool, were missing from a version they may have been looked up in, or a failure
  hid them. This is inductive only with `Informed`: the answer that made an orphan was
  taken from a table read long before, or came late.

What a lookup may answer is one lemma for all userbases (`LookupAnswers`, from
`MysqlAnswers`, `SqlAnswers`, `LdapAnswers`); `MissingStays` says that what is missing
stays so while versions are added. `BrokenThrows` is why a broken file leaves
the table. `IsDirectory` shows each step to be a read, a restart or a stutter of
`Directory` (`DirectoryReads`, `DirectoryRestarts`, `DirectoryStutters`); `Sound` is what keeps
the version served from going back.

### ServerSelectProofs

For any groups, priorities that are naturals, and a redundancy of at least 1
(`SelectAssumption`), and any view:

* `SelectedWell`: what `Selections(view)` has is `WellChosen`: of each group at most one
  backend, up and writable, none of its group that is writable is preferred to it; and
  fewer than `Redundancy` only if every group that has a writable one is represented.
* `SelectedReachable`: any part of it that can be reached is in `Reachable` of
  SmtpDelivery (which the module instantiates), so what is proved of SmtpDelivery holds
  with the choice the code makes.

`Selections` is a recursive function of the number of calls. That it exists
(`CallsExist`) and what it gives (`CallsChooseWell`) are shown by the least number of
calls for which they would fail (`Least`), with `OneMore` for one call of
`getServer`. The induction theorems of the library take the property as an operator,
which no prover here can instantiate; this is the way round it.

### PowerSmtpProofs

For any backends in any table, groups, mailboxes, quotas and bounds, in two parts. What
concerns the session alone, `AcceptedWhole` and `WithinRoom`, is proved from

    IInv == QuotaType, Cut, Listed, GivenUp

* `QuotaType`: the few fields of the session the quota depends on have their types,
  and recipients still to be announced are recipients.
* `Cut`: a line was dropped only in data, under a quota, with the room reached.
  Counting goes up only (`KbGrows`), so this stays so; the only way out that
  is not 552 is a count equal to the room.
* `Listed`: the room is at most what was listed for a recipient.
* `GivenUp`: `d_quotaneeded` is false only for a recipient without a quota or by a DATA
  for forwards alone. It is what connects one DATA to the next.

`SessionStep` has one step per action of the session; `QuotaKept` is shared by those
that answer or go on without touching the quota. `AcceptsFits` shows that 250 comes
from the end of the data only.

`TypeOK`, `ChosenWell` and `RefusedForCause` are about the whole process. `ChosenWell` is
`SelectedWell` of the view at the step that selects (`SelectsWell`); the other two are
proved from

    Inv == SitesType, ViewType, SessionType, NobodyHome, AllWell, SeenSoFar, ChosenEnough

* `ViewType`: unread lines are bounded, who is up has a connection, who is gone is at
  the end of none.
* `SessionType`: among others, that while storage is opened the talkers are still those
  of before, which bounds them.
* `NobodyHome`: a process that is not there has seen nothing and has no session.
* `SeenSoFar`: while no backend was ill since the daemon began, an entry of the table is
  as at the start or seen well, with nothing unread; seen well is every one the
  thread has come by, and after the first round all. It needs that a listing of a
  session leaves nothing unread (`ListingLeavesNone`) and that a round goes on
  (`RoundGoesOn`).
* `ChosenEnough`: hence what was selected is as many as are wanted, if there are as
  many groups (`EnoughChosen`). A session before the end of the first round waits for
  `s_statelock`; without that guard of `Select` this conjunct fails.

`PowerSmtpAssumption` asks for a table with at least one backend, as the default of the
setting `backends` has (the model's round begins at the first), for a `StatEvery`
of at least 1, and for a bound `MaxLate` of at least 1: a `stat` that failed leaves one line unread.

`IInv` of Resolver and `Inv` of PowerSmtp were checked by TLC on the instances of the
runs before they were proved.

### Assumptions on the constants

Nothing else is assumed than the named ASSUMEs, which TLC evaluates in each run. Beyond
types they say that the sets of backends (SmtpDelivery), messages (PowerPop), threads
and addresses of things (Pool) are finite, as they are in any process; that there is
some address, some first start of the daemon, some backend, and a `stat` in every
`StatEvery` rounds, of which there is at least one.

### What is only model-checked

`ServedWithSpares`, `Reconnects`, `RereadUnlessStuck`, `BlockedLeftAlone`, `WaitEnds`,
`BackAgain` and `ServesAgain`: liveness under fairness is out of the prover's reach. Every invariant,
action property and refinement of the passing runs is proved.

## 5. What is not modelled, and why

* The buffer of `Session` (a sequential routine), the copies of `RCMutex`, the
  descriptor `Delivery` starts with, the full state of a session of pplistener (what
  others see of it is in PowerSmtp).
* Whether a password is right, APOP and MD5: data, on which a lookup's answer does
  not depend, but for ldap, as said.
* IMAP beyond LOGIN: the manual says it is not supported yet.
* pptool's commands that only read, and mboxdir.
* The scanner's and the parser's tables, which are generated; the figures kbfree and
  load. Of the text userbase's file, one that is empty or begins with a quote when the
  scanner starts in a quoted word, and a comment left open within an entry.
* ldap's second search, by the attribute of `ldap-alternate-attribute`: the setting is
  empty by default.
* Option parsing, daemonising, the guardian, logging, header scanning and the
  advertisement: no state the properties are about.
* Pure reads (get, RETR, LIST and the like) except where their answer matters.
* `Handle::invalidate`, `PoolClass::died` and `clean`: nothing calls them.
* Sessions of powersmtp next to each other: they share the index counter, a
  critical section, the backend table, of which SmtpDelivery allows any state, and
  the connections of the state thread, of which PowerSmtp allows any lag up to
  `MaxLate`.

## 6. The plan

Done, in this order: the backend and its abstract store, its proofs; the delivery
of a message; reading and deleting, with the state thread; the pool, its proofs;
the userbases, their abstract directory and who asks them; powersmtp as a process,
with its choice of backends and the quota, and proofs about the quota.

Since then, the proofs of the delivery, of reading and deleting, of the userbases with
the refinement of their directory, of the choice of backends and of the rest of
powersmtp.

Next, theorems that join components, as `SelectedReachable` does: that a talker of
SmtpDelivery, as it answers and what it then has, is a session of `MailStore`.

Models not written yet: the counts of RCMutex under concurrent copies, and a
composition of SmtpDelivery with several `MailStore`s.

## 7. Running it

    tlc -config MCPPListener.cfg MCPPListener     # and the other MC*.cfg
    tlapm PPListenerProofs.tla
    tlapm PoolProofs.tla
    tlapm PowerSmtpProofs.tla                     # and the other *Proofs.tla, SetLemmas.tla

The longest runs take two to three minutes on two cores; the proofs of PowerSmtp two and
of Resolver one and a half, the others less than one.
