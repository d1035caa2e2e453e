-------------------------------- MODULE Pool --------------------------------
(***************************************************************************)
(* PoolClass (pool.hh): the connections to the userbase that the sessions  *)
(* of a daemon share.  A thread that needs one calls get(), which makes a  *)
(* new one when none is free and the maximum allows it, and then waits on  *)
(* the semaphore that counts the free ones; the handle gives the thing     *)
(* back.  Each step is one critical section of d_lock, or sem_wait.        *)
(***************************************************************************)
EXTENDS Integers, FiniteSets

CONSTANTS Thread,    \* sessions of the daemon
          Thing,     \* addresses a thing can have
          Max,       \* d_max: 0 for no maximum
          MaxSpare,  \* d_maxspare
          Stock,     \* how many startUserBase makes beforehand
          NoThing,   \* what a thread holds that has no handle
          MaxLost    \* bound: how often the generator may fail

ASSUME PoolAssumption == /\ Max \in Nat /\ MaxSpare \in Nat /\ MaxLost \in Nat
                         /\ Stock \in Nat /\ (Max # 0 => Stock <= Max)
                         /\ NoThing \notin Thing

\* Threads are finitely many, and memory holds what is stocked beforehand.
ASSUME PoolSizeAssumption == /\ IsFiniteSet(Thread) /\ IsFiniteSet(Thing)
                             /\ Stock <= Cardinality(Thing)

VARIABLES
  pc,       \* where a thread is
  handle,   \* Handle::d_thing of a thread
  free,     \* d_available: its order, which no thread can tell, is left out
  sem,      \* the value of d_sem
  created,  \* d_created
  lost      \* history: how often the generator has thrown

vars == <<pc, handle, free, sem, created, lost>>

\* "waiting": about to sem_wait; "woken": past it, and about to take a thing.
Place == {"idle", "waiting", "woken", "using"}

TypeOK == /\ pc \in [Thread -> Place]
          /\ handle \in [Thread -> Thing \cup {NoThing}]
          /\ free \in SUBSET Thing
          /\ sem \in Nat /\ created \in Nat /\ lost \in Nat

Held == {x \in Thing : \E t \in Thread : handle[t] = x}
Woken == {t \in Thread : pc[t] = "woken"}
Using == {t \in Thread : pc[t] = "using"}

\* startUserBase: the pool is stocked before any session is.
Init == /\ pc = [t \in Thread |-> "idle"]
        /\ handle = [t \in Thread |-> NoThing]
        /\ free \in {s \in SUBSET Thing : Cardinality(s) = Stock}
        /\ sem = Stock /\ created = Stock /\ lost = 0

\* What get() does under its first lock: a thing is made, and counted and posted,
\* when none is free and there may be one more.
MayMake == free = {} /\ (Max = 0 \/ created < Max)

Ask(t) ==
  /\ pc[t] = "idle"
  /\ pc' = [pc EXCEPT ![t] = "waiting"]
  /\ \/ /\ MayMake
        /\ \E x \in Thing \ (free \cup Held) : free' = free \cup {x}
        /\ sem' = sem + 1 /\ created' = created + 1
     \/ ~MayMake /\ UNCHANGED <<free, sem, created>>
  /\ UNCHANGED <<handle, lost>>

\* The generator throws: the thing was counted already, and stays so.  The exception
\* leaves get(), and ends the session.
AskFails(t) == /\ pc[t] = "idle" /\ MayMake /\ lost < MaxLost
               /\ created' = created + 1 /\ lost' = lost + 1
               /\ UNCHANGED <<pc, handle, free, sem>>

\* Mutant of Wake: sem_wait is interrupted by a signal, and its result not looked at.
WakeUnposted(t) == /\ pc[t] = "waiting"
                   /\ pc' = [pc EXCEPT ![t] = "woken"]
                   /\ sem' = IF sem > 0 THEN sem - 1 ELSE sem
                   /\ UNCHANGED <<handle, free, created, lost>>

\* sem_wait.
Wake(t) == /\ pc[t] = "waiting" /\ sem > 0
           /\ pc' = [pc EXCEPT ![t] = "woken"]
           /\ sem' = sem - 1
           /\ UNCHANGED <<handle, free, created, lost>>

\* Mutant of Take: the front of d_available is taken and not popped.
TakeUnpopped(t) == /\ pc[t] = "woken"
                   /\ \E x \in free : handle' = [handle EXCEPT ![t] = x]
                   /\ pc' = [pc EXCEPT ![t] = "using"]
                   /\ UNCHANGED <<free, sem, created, lost>>

\* What get() does under its second lock.
Take(t) == /\ pc[t] = "woken"
           /\ \E x \in free : /\ free' = free \ {x}
                              /\ handle' = [handle EXCEPT ![t] = x]
           /\ pc' = [pc EXCEPT ![t] = "using"]
           /\ UNCHANGED <<sem, created, lost>>

\* Mutant of GiveBack: a thing that goes back to the pool is no longer counted.
GiveBackUncounts(t) ==
  /\ pc[t] = "using"
  /\ IF Cardinality(free) < MaxSpare
       THEN free' = free \cup {handle[t]} /\ sem' = sem + 1
       ELSE UNCHANGED <<free, sem>>
  /\ created' = created - 1
  /\ pc' = [pc EXCEPT ![t] = "idle"] /\ handle' = [handle EXCEPT ![t] = NoThing]
  /\ UNCHANGED lost

\* Mutant of GiveBack: nobody is told of a thing that goes back.
GiveBackUnposted(t) ==
  /\ pc[t] = "using"
  /\ IF Cardinality(free) < MaxSpare
       THEN free' = free \cup {handle[t]} /\ UNCHANGED <<sem, created>>
       ELSE created' = created - 1 /\ UNCHANGED <<free, sem>>
  /\ pc' = [pc EXCEPT ![t] = "idle"] /\ handle' = [handle EXCEPT ![t] = NoThing]
  /\ UNCHANGED lost

\* giveBack, by the destructor of the handle: with enough spares, deleted.
GiveBack(t) ==
  /\ pc[t] = "using"
  /\ IF Cardinality(free) < MaxSpare
       THEN free' = free \cup {handle[t]} /\ sem' = sem + 1 /\ UNCHANGED created
       ELSE created' = created - 1 /\ UNCHANGED <<free, sem>>
  /\ pc' = [pc EXCEPT ![t] = "idle"] /\ handle' = [handle EXCEPT ![t] = NoThing]
  /\ UNCHANGED lost

ThreadNext(t) == Ask(t) \/ AskFails(t) \/ Wake(t) \/ Take(t) \/ GiveBack(t)

Next == \E t \in Thread : ThreadNext(t)

Spec == Init /\ [][Next]_vars

\* A query ends, and its handle goes.  sem_wait does not pass over a thread for ever
\* while the semaphore is posted again and again.
Fairness == \A t \in Thread : /\ WF_vars(Take(t)) /\ WF_vars(GiveBack(t))
                              /\ SF_vars(Wake(t))

FairSpec == Spec /\ Fairness

-----------------------------------------------------------------------------
(* What must hold.                                                         *)

\* A thread past sem_wait finds a thing: d_available.front() is never that of an
\* empty deque, whoever took and gave back between the wait and the lock.
WokenFinds == Woken # {} => free # {}

\* pool.hh:88: "Maximum number of Things to be alive at any one time".
AtMostMax == Max # 0 => Cardinality(free) + Cardinality(Using) <= Max

\* pool.hh:127: "request a thing for our exclusive use": a thing in use is not free,
\* nor in use by another thread.
Exclusive == \A t \in Using : /\ handle[t] \in Thing \ free
                              /\ \A u \in Using : handle[u] = handle[t] => u = t

\* powermail.sgml:949 of max-userbase-spares: "If set to 0, connections will be
\* opened and closed very often": that is, a session still gets one.
Served == \A t \in Thread : pc[t] = "waiting" ~> pc[t] = "using"

\* ... which holds with a spare to hand on, until the generator has failed Max times.
ServedWithSpares ==
  \A t \in Thread : pc[t] = "waiting" ~> (pc[t] = "using" \/ (Max # 0 /\ lost >= Max))

=============================================================================
