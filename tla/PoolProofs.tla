----------------------------- MODULE PoolProofs -----------------------------
(***************************************************************************)
(* Proofs about Pool for any number of sessions, any maximum and any       *)
(* number of spares.                                                       *)
(*                                                                         *)
(* None of the safety properties is inductive: that a woken thread finds a *)
(* thing rests on the semaphore and the threads past it together being as  *)
(* many as the free things (Posted), and the maximum rests on what the     *)
(* counter counts (Counted): the free things, those in use, and those the  *)
(* generator failed to make.                                               *)
(***************************************************************************)
EXTENDS Pool, FiniteSetTheorems, TLAPS

\* The semaphore is what is free and not yet promised to a woken thread.
Posted == sem + Cardinality(Woken) = Cardinality(free)

\* What d_created counts.
Counted == created = Cardinality(free) + Cardinality(Using) + lost

Capped == Max # 0 => created <= Max

\* A thread has a handle exactly while it uses a thing, which is then not free.
Holding == \A t \in Thread : IF pc[t] = "using" THEN handle[t] \in Thing \ free
                                                ELSE handle[t] = NoThing

IInv == TypeOK /\ Posted /\ Counted /\ Capped /\ Holding /\ Exclusive

-----------------------------------------------------------------------------
(* Counting threads: how the sets of woken and of using threads, and their *)
(* numbers, change when one thread goes to another place.                  *)

\* Threads and things are finitely many, so these sets have a cardinality.
LEMMA Finite ==
  ASSUME TypeOK
  PROVE  /\ IsFiniteSet(Woken) /\ IsFiniteSet(Using) /\ IsFiniteSet(free)
         /\ Cardinality(Woken) \in Nat /\ Cardinality(Using) \in Nat
         /\ Cardinality(free) \in Nat
<1>1. Woken \in SUBSET Thread /\ Using \in SUBSET Thread
  BY DEF Woken, Using
<1>2. IsFiniteSet(Woken) /\ IsFiniteSet(Using)
  BY <1>1, PoolSizeAssumption, FS_Subset
<1>3. IsFiniteSet(free)
  BY PoolSizeAssumption, FS_Subset DEF TypeOK
<1> QED BY <1>2, <1>3, FS_CardinalityType

\* A thread that goes to wait, or to nothing, leaves those it was among.
LEMMA Leave ==
  ASSUME TypeOK, NEW t \in Thread, NEW p \in {"idle", "waiting"},
         pc' = [pc EXCEPT ![t] = p]
  PROVE  /\ Cardinality(Woken') = IF pc[t] = "woken" THEN Cardinality(Woken) - 1
                                                    ELSE Cardinality(Woken)
         /\ Cardinality(Using') = IF pc[t] = "using" THEN Cardinality(Using) - 1
                                                    ELSE Cardinality(Using)
<1>1. Woken' = Woken \ {t} /\ Using' = Using \ {t}
  BY DEF TypeOK, Woken, Using
<1>2. (t \in Woken <=> pc[t] = "woken") /\ (t \in Using <=> pc[t] = "using")
  BY DEF Woken, Using
<1> QED BY <1>1, <1>2, Finite, FS_RemoveElement

\* A thread that is woken joins those that are.
LEMMA JoinWoken ==
  ASSUME TypeOK, NEW t \in Thread, pc[t] = "waiting",
         pc' = [pc EXCEPT ![t] = "woken"]
  PROVE  /\ Cardinality(Woken') = Cardinality(Woken) + 1
         /\ Using' = Using
<1>1. Woken' = Woken \cup {t} /\ Using' = Using /\ t \notin Woken
  BY DEF TypeOK, Woken, Using
<1> QED BY <1>1, Finite, FS_AddElement

\* A woken thread that takes a thing changes from the one set to the other.
LEMMA JoinUsing ==
  ASSUME TypeOK, NEW t \in Thread, pc[t] = "woken",
         pc' = [pc EXCEPT ![t] = "using"]
  PROVE  /\ Cardinality(Woken') = Cardinality(Woken) - 1
         /\ Cardinality(Using') = Cardinality(Using) + 1
<1>1. Woken' = Woken \ {t} /\ t \in Woken
  BY DEF TypeOK, Woken
<1>2. Using' = Using \cup {t} /\ t \notin Using
  BY DEF TypeOK, Using
<1> QED BY <1>1, <1>2, Finite, FS_AddElement, FS_RemoveElement

-----------------------------------------------------------------------------
(* The invariant holds initially and is preserved, action by action.       *)

LEMMA InitIInv == ASSUME Init PROVE IInv
<1>1. Woken = {} /\ Using = {}
  BY DEF Init, Woken, Using
<1>2. Cardinality({}) = 0
  BY FS_EmptySet
<1>3. free \in SUBSET Thing /\ Cardinality(free) = Stock
  BY DEF Init
<1>4. TypeOK
  BY <1>3, PoolAssumption DEF Init, TypeOK, Place
<1>5. Posted /\ Counted /\ Capped
  BY <1>1, <1>2, <1>3, PoolAssumption DEF Init, Posted, Counted, Capped
<1>6. Holding /\ Exclusive
  BY <1>1 DEF Init, Holding, Exclusive
<1> QED BY <1>4, <1>5, <1>6 DEF IInv

\* get() up to the wait: a thing that is made is free, counted and posted.
LEMMA AskStep == ASSUME IInv, NEW t \in Thread, Ask(t) PROVE IInv'
<1> USE DEF IInv
<1>1. Cardinality(Woken') = Cardinality(Woken) /\ Cardinality(Using') = Cardinality(Using)
  BY Leave DEF Ask
<1>2. Using' = Using
  BY DEF Ask, TypeOK, Using
<1>3. TypeOK'
  BY DEF Ask, TypeOK, Place
<1>4. CASE UNCHANGED <<free, sem, created>>
  <2>1. Posted' /\ Counted' /\ Capped'
    BY <1>1, <1>4 DEF Ask, Posted, Counted, Capped
  <2>2. Holding' /\ Exclusive'
    BY <1>2, <1>4 DEF Ask, TypeOK, Holding, Exclusive
  <2> QED BY <1>3, <2>1, <2>2
<1>5. CASE /\ MayMake /\ sem' = sem + 1 /\ created' = created + 1
           /\ \E x \in Thing \ (free \cup Held) : free' = free \cup {x}
  <2>1. PICK x \in Thing \ (free \cup Held) : free' = free \cup {x}
    BY <1>5
  <2>2. Cardinality(free') = Cardinality(free) + 1
    BY <2>1, Finite, FS_AddElement
  <2>3. Posted'
    BY <1>1, <1>5, <2>2, Finite DEF Posted, TypeOK
  <2>4. Counted'
    BY <1>1, <1>5, <2>2, Finite DEF Ask, Counted, TypeOK
  <2>5. Capped'
    BY <1>5, PoolAssumption DEF MayMake, Capped, TypeOK
  <2>6. Holding' /\ Exclusive'
    BY <1>2, <2>1 DEF Ask, TypeOK, Held, Using, Holding, Exclusive
  <2> QED BY <1>3, <2>3, <2>4, <2>5, <2>6
<1> QED BY <1>4, <1>5 DEF Ask

\* The generator throws: what is counted beyond the things there are is in lost.
LEMMA AskFailsStep == ASSUME IInv, NEW t \in Thread, AskFails(t) PROVE IInv'
<1> USE DEF IInv
<1>1. Woken' = Woken /\ Using' = Using /\ free' = free
  BY DEF AskFails, Woken, Using
<1>2. TypeOK'
  BY DEF AskFails, TypeOK
<1>3. Posted' /\ Counted'
  BY <1>1, Finite DEF AskFails, Posted, Counted, TypeOK
<1>4. Capped'
  BY PoolAssumption DEF AskFails, MayMake, Capped, TypeOK
<1>5. Holding' /\ Exclusive'
  BY <1>1 DEF AskFails, Holding, Exclusive
<1> QED BY <1>2, <1>3, <1>4, <1>5

\* sem_wait: what the semaphore loses the woken threads gain.
LEMMA WakeStep == ASSUME IInv, NEW t \in Thread, Wake(t) PROVE IInv'
<1> USE DEF IInv
<1>1. Cardinality(Woken') = Cardinality(Woken) + 1 /\ Using' = Using
  BY JoinWoken DEF Wake
<1>2. TypeOK'
  BY DEF Wake, TypeOK, Place
<1>3. Posted'
  BY <1>1, Finite DEF Wake, Posted, TypeOK
<1>4. Counted' /\ Capped'
  BY <1>1 DEF Wake, Counted, Capped
<1>5. Holding' /\ Exclusive'
  BY <1>1 DEF Wake, TypeOK, Holding, Exclusive
<1> QED BY <1>2, <1>3, <1>4, <1>5

\* get() after the wait: the thing is no longer free, and was nobody's.
LEMMA TakeStep == ASSUME IInv, NEW t \in Thread, Take(t) PROVE IInv'
<1> USE DEF IInv
<1>1. PICK x \in free : free' = free \ {x} /\ handle' = [handle EXCEPT ![t] = x]
  BY DEF Take
<1>2. /\ Cardinality(Woken') = Cardinality(Woken) - 1
      /\ Cardinality(Using') = Cardinality(Using) + 1
  BY JoinUsing DEF Take
<1>3. Cardinality(free') = Cardinality(free) - 1
  BY <1>1, Finite, FS_RemoveElement
<1>4. TypeOK'
  BY <1>1 DEF Take, TypeOK, Place
<1>5. Posted'
  BY <1>2, <1>3, Finite DEF Take, Posted, TypeOK
<1>6. Counted' /\ Capped'
  BY <1>2, <1>3, Finite DEF Take, Counted, Capped, TypeOK
<1>7. x \in Thing /\ x \notin free'
  BY <1>1 DEF TypeOK
<1>8. Holding'
  BY <1>1, <1>7 DEF Take, TypeOK, Holding
<1>9. Exclusive'
  <2>1. Using' = Using \cup {t}
    BY DEF Take, TypeOK, Using
  <2>2. \A u \in Using : handle[u] # x /\ u # t
    BY <1>1 DEF Take, Using, Holding
  <2>3. handle'[t] = x /\ \A u \in Using : handle'[u] = handle[u]
    BY <1>1, <2>2 DEF TypeOK, Using
  <2>4. \A u \in Using : handle[u] \in Thing \ free'
    BY <1>1 DEF Using, Holding
  <2> QED BY <1>7, <2>1, <2>2, <2>3, <2>4 DEF Exclusive
<1> QED BY <1>4, <1>5, <1>6, <1>8, <1>9

\* giveBack: the thing is free again, or gone.
LEMMA GiveBackStep == ASSUME IInv, NEW t \in Thread, GiveBack(t) PROVE IInv'
<1> USE DEF IInv
<1>1. /\ Cardinality(Woken') = Cardinality(Woken)
      /\ Cardinality(Using') = Cardinality(Using) - 1
  BY Leave DEF GiveBack
<1>2. t \in Using /\ Using' = Using \ {t}
  BY DEF GiveBack, TypeOK, Using
<1>3. Cardinality(Using) \in Nat \ {0}
  <2>1. Cardinality(Using) # 0
    BY <1>2, Finite, FS_EmptySet
  <2> QED BY <2>1, Finite
<1>4. handle[t] \in Thing /\ handle[t] \notin free
  BY <1>2 DEF Holding, GiveBack
<1>5. \A u \in Using' : handle'[u] = handle[u] /\ handle[u] # handle[t] /\ handle[u] \in Thing \ free
  BY <1>2 DEF GiveBack, TypeOK, Using, Exclusive
<1>6. CASE free' = free \cup {handle[t]} /\ sem' = sem + 1 /\ UNCHANGED created
  <2>1. Cardinality(free') = Cardinality(free) + 1
    BY <1>4, <1>6, Finite, FS_AddElement
  <2>2. TypeOK'
    BY <1>4, <1>6 DEF GiveBack, TypeOK, Place
  <2>3. Posted'
    BY <1>1, <1>6, <2>1, Finite DEF Posted, TypeOK
  <2>4. Counted' /\ Capped'
    BY <1>1, <1>6, <2>1, Finite DEF GiveBack, Counted, Capped, TypeOK
  <2>5. Holding'
    BY <1>5, <1>6 DEF GiveBack, TypeOK, Using, Holding
  <2>6. Exclusive'
    BY <1>2, <1>5, <1>6 DEF Exclusive
  <2> QED BY <2>2, <2>3, <2>4, <2>5, <2>6
<1>7. CASE created' = created - 1 /\ UNCHANGED <<free, sem>>
  <2>1. created - 1 \in Nat
    BY <1>3, Finite DEF Counted, TypeOK
  <2>2. TypeOK'
    BY <1>7, <2>1 DEF GiveBack, TypeOK, Place
  <2>3. Posted'
    BY <1>1, <1>7 DEF Posted
  <2>4. Counted' /\ Capped'
    BY <1>1, <1>3, <1>7, Finite, PoolAssumption DEF GiveBack, Counted, Capped, TypeOK
  <2>5. Holding'
    BY <1>5, <1>7 DEF GiveBack, TypeOK, Using, Holding
  <2>6. Exclusive'
    BY <1>2, <1>5, <1>7 DEF Exclusive
  <2> QED BY <2>2, <2>3, <2>4, <2>5, <2>6
<1> QED BY <1>6, <1>7 DEF GiveBack

\* A step of any thread, or of none, keeps the invariant.
LEMMA NextIInv == ASSUME IInv, [Next]_vars PROVE IInv'
<1>1. ASSUME NEW t \in Thread, ThreadNext(t) PROVE IInv'
  BY <1>1, AskStep, AskFailsStep, WakeStep, TakeStep, GiveBackStep DEF ThreadNext
<1>2. CASE UNCHANGED vars
  BY <1>2 DEF vars, IInv, TypeOK, Posted, Counted, Capped, Holding, Exclusive, Woken, Using
<1> QED BY <1>1, <1>2 DEF Next

\* The inductive invariant of the pool holds throughout.
THEOREM Invariance == Spec => []IInv
<1> QED BY InitIInv, NextIInv, PTL DEF Spec

-----------------------------------------------------------------------------
(* What follows from it.                                                   *)

\* The pool's state is of its types; in particular its counter is never negative,
\* though giveBack decrements it unchecked.
THEOREM TypeCorrect == Spec => []TypeOK
<1>1. IInv => TypeOK
  BY DEF IInv
<1> QED BY <1>1, Invariance, PTL

\* Whoever is past sem_wait finds d_available not empty.
THEOREM WokenThreadFinds == Spec => []WokenFinds
<1>1. ASSUME IInv PROVE WokenFinds
  <2>1. SUFFICES ASSUME Woken # {}, free = {} PROVE FALSE
    BY DEF WokenFinds
  <2>2. Cardinality(free) = 0 /\ Cardinality(Woken) # 0
    BY <1>1, <2>1, Finite, FS_EmptySet DEF IInv
  <2> QED BY <1>1, <2>2, Finite DEF IInv, Posted, TypeOK
<1> QED BY <1>1, Invariance, PTL

\* No more things are free or in use than the maximum, if there is one.
THEOREM MaxRespected == Spec => []AtMostMax
<1>1. ASSUME IInv PROVE AtMostMax
  BY <1>1, Finite, PoolAssumption DEF IInv, Counted, Capped, AtMostMax, TypeOK
<1> QED BY <1>1, Invariance, PTL

\* Nobody uses what is free, or what another thread uses.
THEOREM UseExclusive == Spec => []Exclusive
<1>1. IInv => Exclusive
  BY DEF IInv
<1> QED BY <1>1, Invariance, PTL

=============================================================================
