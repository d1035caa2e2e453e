------------------------- MODULE ServerSelectProofs -------------------------
(***************************************************************************)
(* Proofs about ServerSelect: what may be selected, for any backends,      *)
(* groups, priorities and number of backends that is wanted.               *)
(*                                                                         *)
(* Both that the calls of getServer give something after any number of     *)
(* them, and what they give, is shown by the least number of calls for     *)
(* which it would not be so.                                               *)
(***************************************************************************)
EXTENDS ServerSelect, SetLemmas

\* What n calls of getServer may leave: of each group at most one backend, that is up
\* and writable, and none of its group is better; fewer than n only if no group is left.
WellChosen(view, used, n) ==
  /\ used \subseteq Backend /\ IsFiniteSet(used) /\ Cardinality(used) <= n
  /\ \A b \in used, c \in Backend :
       /\ Writable(view, b)
       /\ GroupOf[b] = GroupOf[c] /\ Writable(view, c) =>
            (b = c \/ (c \notin used /\ PriorityOf[b] <= PriorityOf[c]))
  /\ Cardinality(used) < n =>
       \A c \in Backend : Writable(view, c) => GroupOf[c] \in GroupsOf(used)

\* What one more call makes of what those before it may have left.
After(view, used) ==
  IF GetServer(view, used) = {} THEN {used} ELSE {used \cup {b} : b \in GetServer(view, used)}
AllAfter(view, lefts) == UNION {After(view, used) : used \in lefts}

\* What getServer gives is up and writable, in a group of its own, and the best of it.
LEMMA ServerIs ==
  ASSUME NEW view, NEW used, NEW b \in GetServer(view, used)
  PROVE  /\ b \in Backend /\ Writable(view, b) /\ GroupOf[b] \notin GroupsOf(used)
         /\ \A c \in Backend : Writable(view, c) /\ GroupOf[c] = GroupOf[b] =>
                                 PriorityOf[b] <= PriorityOf[c]
<1>1. PICK g \in GroupsOf(Offered(view, used)) :
        b \in First({x \in Offered(view, used) : GroupOf[x] = g})
  BY DEF GetServer
<1>2. /\ b \in Offered(view, used) /\ GroupOf[b] = g
      /\ \A c \in Offered(view, used) : GroupOf[c] = g => PriorityOf[b] <= PriorityOf[c]
  BY <1>1 DEF First
<1>3. b \in Backend /\ Writable(view, b) /\ GroupOf[b] \notin GroupsOf(used)
  BY <1>2 DEF Offered
<1>4. ASSUME NEW c \in Backend, Writable(view, c), GroupOf[c] = GroupOf[b]
      PROVE  PriorityOf[b] <= PriorityOf[c]
  <2>1. c \in Offered(view, used)
    BY <1>3, <1>4 DEF Offered
  <2> QED BY <1>2, <1>4, <2>1
<1> QED BY <1>3, <1>4

\* It gives nothing only if every backend that is up and writable is in a group used.
LEMMA NoServer ==
  ASSUME NEW view, NEW used, GetServer(view, used) = {},
         NEW c \in Backend, Writable(view, c)
  PROVE  GroupOf[c] \in GroupsOf(used)
<1> SUFFICES ASSUME GroupOf[c] \notin GroupsOf(used)
             PROVE  \E b : b \in GetServer(view, used)
  OBVIOUS
<1> DEFINE candidates == {x \in Offered(view, used) : GroupOf[x] = GroupOf[c]}
           priorities == {PriorityOf[x] : x \in candidates}
<1>1. c \in candidates /\ candidates \subseteq Backend /\ GroupOf[c] \in GroupsOf(Offered(view, used))
  BY DEF Offered, GroupsOf
<1>2. \A x \in candidates : PriorityOf[x] \in Nat
  BY <1>1, SelectAssumption
<1>3. priorities \in SUBSET Nat /\ priorities # {}
  BY <1>1, <1>2
<1> HIDE DEF priorities
<1>4. PICK p \in priorities : \A q \in priorities : p <= q
  BY <1>3, Least
<1> USE DEF priorities
<1>5. PICK b \in candidates : p = PriorityOf[b]
  BY <1>4
<1>6. \A x \in candidates : PriorityOf[b] <= PriorityOf[x]
  BY <1>4, <1>5
<1> HIDE DEF candidates, priorities
<1>7. b \in First(candidates)
  BY <1>5, <1>6 DEF First
<1> QED BY <1>1, <1>7 DEF GetServer, candidates

\* One more call leaves what is well chosen well chosen.
LEMMA OneMore ==
  ASSUME NEW view, NEW n \in Nat, NEW used, WellChosen(view, used, n),
         NEW next \in After(view, used)
  PROVE  WellChosen(view, next, n + 1)
<1>1. Cardinality(used) \in Nat /\ IsFiniteSet(used) /\ used \subseteq Backend /\ Cardinality(used) <= n
  BY FS_CardinalityType DEF WellChosen
<1>2. CASE GetServer(view, used) = {}
  <2>1. next = used
    BY <1>2 DEF After
  <2>2. \A c \in Backend : Writable(view, c) => GroupOf[c] \in GroupsOf(used)
    BY <1>2, NoServer
  <2> QED BY <1>1, <2>1, <2>2 DEF WellChosen
<1>3. CASE GetServer(view, used) # {}
  <2>1. PICK b \in GetServer(view, used) : next = used \cup {b}
    BY <1>3 DEF After
  <2>2. /\ b \in Backend /\ Writable(view, b) /\ GroupOf[b] \notin GroupsOf(used)
        /\ \A c \in Backend : Writable(view, c) /\ GroupOf[c] = GroupOf[b] =>
                                PriorityOf[b] <= PriorityOf[c]
    BY <2>1, ServerIs
  <2>3. \A c \in used : GroupOf[c] # GroupOf[b]
    BY <2>2 DEF GroupsOf
  <2>4. IsFiniteSet(next) /\ Cardinality(next) = Cardinality(used) + 1
    BY <1>1, <2>1, <2>3, FS_AddElement
  <2>5. Cardinality(used) < n \/ Cardinality(next) >= n + 1
    BY <1>1, <2>4
  <2>6. \A c \in Backend : GroupOf[c] \in GroupsOf(used) => GroupOf[c] \in GroupsOf(next)
    BY <2>1 DEF GroupsOf
  <2>7. Cardinality(next) < n + 1 =>
          \A c \in Backend : Writable(view, c) => GroupOf[c] \in GroupsOf(next)
    BY <1>1, <2>4, <2>6 DEF WellChosen
  <2>8. ASSUME NEW x \in next, NEW c \in Backend
        PROVE  /\ Writable(view, x)
               /\ GroupOf[x] = GroupOf[c] /\ Writable(view, c) =>
                    (x = c \/ (c \notin next /\ PriorityOf[x] <= PriorityOf[c]))
    <3>1. CASE x = b
      <4>1. GroupOf[b] = GroupOf[c] => c \notin used
        BY <2>3
      <4> QED BY <2>1, <2>2, <3>1, <4>1
    <3>2. CASE x \in used
      <4>1. GroupOf[x] = GroupOf[c] => c # b
        BY <2>3, <3>2
      <4> QED BY <2>1, <3>2, <4>1 DEF WellChosen
    <3> QED BY <2>1, <2>8, <3>1, <3>2
  <2>9. next \subseteq Backend /\ Cardinality(next) <= n + 1
    BY <1>1, <2>1, <2>2, <2>4
  <2> QED BY <2>4, <2>7, <2>8, <2>9 DEF WellChosen
<1> QED BY <1>2, <1>3

\* f tells what may be left after 0, 1, ... n calls.
Calls(view, n, f) == f = [i \in 0..n |-> IF i = 0 THEN {{}} ELSE AllAfter(view, f[i - 1])]

\* None has left anything before the first, and each goes on from the one before.
GoesOn(view, n, f) == f[0] = {{}} /\ \A i \in 1..n : f[i] = AllAfter(view, f[i - 1])

LEMMA CallsAt ==
  ASSUME NEW view, NEW n \in Nat, NEW f, Calls(view, n, f)
  PROVE  GoesOn(view, n, f)
<1> DEFINE g == [i \in 0..n |-> IF i = 0 THEN {{}} ELSE AllAfter(view, f[i - 1])]
<1>1. g[0] = {{}} /\ \A i \in 1..n : g[i] = AllAfter(view, f[i - 1])
  OBVIOUS
<1>2. f = g
  BY DEF Calls
<1> HIDE DEF g
<1> QED BY <1>1, <1>2 DEF GoesOn

LEMMA CallsFrom ==
  ASSUME NEW view, NEW n \in Nat, NEW f, Calls(view, n, f)
  PROVE  \E g : Calls(view, n + 1, g)
<1> DEFINE g == [i \in 0..(n + 1) |-> IF i = n + 1 THEN AllAfter(view, f[n]) ELSE f[i]]
<1>1. /\ f[0] = {{}} /\ \A i \in 1..n : f[i] = AllAfter(view, f[i - 1])
  <2>1. GoesOn(view, n, f)
    BY CallsAt
  <2> QED BY <2>1 DEF GoesOn
<1>2. g[0] = {{}}
  BY <1>1
<1>3. ASSUME NEW i \in 1..(n + 1)
      PROVE  g[i] = AllAfter(view, g[i - 1])
  <2>1. i - 1 \in 0..n /\ g[i - 1] = f[i - 1]
    OBVIOUS
  <2> QED BY <1>1, <2>1
<1>4. g = [i \in 0..(n + 1) |-> IF i = 0 THEN {{}} ELSE AllAfter(view, g[i - 1])]
  <2>1. g = [i \in 0..(n + 1) |-> g[i]]
    OBVIOUS
  <2> HIDE DEF g
  <2>2. \A i \in 0..(n + 1) : i = 0 \/ i \in 1..(n + 1)
    OBVIOUS
  <2>3. \A i \in 0..(n + 1) : g[i] = IF i = 0 THEN {{}} ELSE AllAfter(view, g[i - 1])
    BY <1>2, <1>3, <2>2
  <2>4. [i \in 0..(n + 1) |-> g[i]] =
          [i \in 0..(n + 1) |-> IF i = 0 THEN {{}} ELSE AllAfter(view, g[i - 1])]
    BY <2>3
  <2> QED BY <2>1, <2>4
<1> QED BY <1>4 DEF Calls

\* After any number of calls there is something that may be left.
LEMMA CallsExist ==
  ASSUME NEW view, NEW n \in Nat
  PROVE  \E f : Calls(view, n, f)
<1> SUFFICES ASSUME ~ \E f : Calls(view, n, f)
             PROVE  FALSE
  OBVIOUS
<1> DEFINE without == {k \in Nat : ~ \E f : Calls(view, k, f)}
<1>1. PICK k \in without : \A y \in without : k <= y
  BY Least
<1>2. k # 0
  <2>1. Calls(view, 0, [i \in 0..0 |-> {{}}])
    BY DEF Calls
  <2> QED BY <1>1, <2>1
<1>3. k - 1 \in Nat /\ k - 1 \notin without
  BY <1>1, <1>2
<1>4. PICK f : Calls(view, k - 1, f)
  BY <1>3
<1>5. \E g : Calls(view, (k - 1) + 1, g)
  BY <1>3, <1>4, CallsFrom
<1>6. (k - 1) + 1 = k
  BY <1>1
<1> QED BY <1>1, <1>5, <1>6

\* Whatever may be left is well chosen.
LEMMA CallsChooseWell ==
  ASSUME NEW view, NEW n \in Nat, NEW f, Calls(view, n, f),
         NEW i \in 0..n, NEW used \in f[i]
  PROVE  WellChosen(view, used, i)
<1> SUFFICES ASSUME ~WellChosen(view, used, i)
             PROVE  FALSE
  OBVIOUS
<1> DEFINE wrong == {k \in 0..n : \E u \in f[k] : ~WellChosen(view, u, k)}
<1>1. wrong \in SUBSET Nat /\ wrong # {}
  OBVIOUS
<1> HIDE DEF wrong
<1>2. PICK k \in wrong : \A y \in wrong : k <= y
  BY <1>1, Least
<1> USE DEF wrong
<1>3. f[0] = {{}} /\ \A j \in 1..n : f[j] = AllAfter(view, f[j - 1])
  <2>1. GoesOn(view, n, f)
    BY CallsAt
  <2> QED BY <2>1 DEF GoesOn
<1>4. WellChosen(view, {}, 0)
  BY FS_EmptySet DEF WellChosen
<1>5. k # 0
  BY <1>2, <1>3, <1>4
<1>6. k - 1 \in 0..n /\ k - 1 \in Nat /\ k - 1 \notin wrong /\ (k - 1) + 1 = k
  BY <1>2, <1>5
<1>7. PICK u \in f[k] : ~WellChosen(view, u, k)
  BY <1>2
<1>8. PICK v \in f[k - 1] : u \in After(view, v)
  BY <1>2, <1>3, <1>5, <1>7 DEF AllAfter
<1>9. WellChosen(view, v, k - 1)
  BY <1>6, <1>8
<1> QED BY <1>6, <1>7, <1>8, <1>9, OneMore

\* Whatever openStorage selects from a view is well chosen, for the redundancy it wants.
THEOREM SelectedWell ==
  ASSUME NEW view, NEW chosen \in Selections(view)
  PROVE  WellChosen(view, chosen, Redundancy)
<1> DEFINE f == CHOOSE g : Calls(view, Redundancy, g)
<1>1. Redundancy \in Nat
  BY SelectAssumption
<1>2. Calls(view, Redundancy, f)
  BY <1>1, CallsExist
<1>3. Selections(view) = f[Redundancy]
  BY DEF Selections, Calls, AllAfter, After
<1> HIDE DEF f
<1> QED BY <1>1, <1>2, <1>3, CallsChooseWell

-----------------------------------------------------------------------------
(* What SmtpDelivery allows openStorage, whose view is arbitrary there: it *)
(* is defined by the backends, groups and redundancy alone.                *)
Delivery == INSTANCE SmtpDelivery
  WITH Local <- {}, Forward <- {}, Sender <- {}, NoForward <- {}, MaxIndex <- 0, MaxTalkers <- 0,
       step <- "opening", fromset <- TRUE, index <- 0, rcpts <- {}, fwds <- {}, mega <- TRUE,
       talkers <- <<>>, degraded <- FALSE, todo <- {}, stored <- {}, sent <- {}, rejected <- {},
       accepted <- {}

\* Whatever the view, and whichever of the backends selected from it can be reached then,
\* SmtpDelivery has a session that reaches exactly these: its theorems hold of what
\* openStorage does with any contents of the backend table.
THEOREM SelectedReachable ==
  ASSUME NEW view, NEW chosen \in Selections(view), NEW reached \in SUBSET chosen
  PROVE  reached \in Delivery!Reachable
<1> DEFINE group == [b \in reached |-> GroupOf[b]]
<1>1. WellChosen(view, chosen, Redundancy)
  BY SelectedWell
<1>2. chosen \subseteq Backend /\ IsFiniteSet(chosen) /\ Cardinality(chosen) <= Redundancy
  BY <1>1 DEF WellChosen
<1>3. /\ IsFiniteSet(reached) /\ Cardinality(reached) <= Cardinality(chosen)
      /\ Cardinality(reached) \in Nat /\ Cardinality(chosen) \in Nat
  BY <1>2, FS_Subset, FS_CardinalityType
<1>4. reached \subseteq Backend /\ Cardinality(reached) <= Redundancy
  BY <1>2, <1>3, SelectAssumption
<1>5. \A b, c \in reached : GroupOf[b] = GroupOf[c] => b = c
  BY <1>1, <1>4 DEF WellChosen
<1>6. group \in Bijection(reached, GroupsOf(reached))
  BY <1>5 DEF Bijection, Injection, Surjection, IsInjective, GroupsOf
<1> HIDE DEF group
<1>7. ExistsBijection(reached, GroupsOf(reached))
  BY <1>6 DEF ExistsBijection
<1>8. Cardinality(GroupsOf(reached)) = Cardinality(reached)
  BY <1>3, <1>7, FS_Bijection
<1>9. \A S : Delivery!Cardinality(S) = Cardinality(S)
  BY DEF Cardinality, Delivery!Cardinality
<1> QED BY <1>4, <1>8, <1>9 DEF Delivery!Reachable, Delivery!Groups, GroupsOf
=============================================================================
