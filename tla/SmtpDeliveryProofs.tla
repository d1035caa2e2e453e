------------------------- MODULE SmtpDeliveryProofs -------------------------
(***************************************************************************)
(* Proofs about SmtpDelivery, for any backends and groups, any redundancy, *)
(* any recipients and any bounds.                                          *)
(*                                                                         *)
(* What a client is promised when the data ends was settled long before,   *)
(* over several requests to several talkers; the invariant says what each  *)
(* step of eatData has settled so far, unless the MegaTalker is degraded.  *)
(***************************************************************************)
EXTENDS SmtpDelivery, SetLemmas

\* The talkers to storage backends, the failed ones included.
Stores == {i \in DOMAIN talkers : talkers[i].server \in Backend}

\* The backends there is a talker to.
Servers == {talkers[i].server : i \in Stores}

\* A talker to the sender stands for a forward answered 250, and there is one for
\* each.  Nothing is announced to the sender, and only announced to a backend what
\* is a recipient.
Recipients == /\ \A i \in DOMAIN talkers : talkers[i].server = Sender => talkers[i].fwd \in fwds
              /\ \A f \in fwds : \E i \in DOMAIN talkers :
                                    talkers[i].server = Sender /\ talkers[i].fwd = f
              /\ todo \subseteq rcpts
              /\ step = "opening" => todo = rcpts
              /\ step \in {"starting", "data"} => todo = {}
              /\ step # "command" => fromset
              /\ fromset => index > 0

\* A failure of any talker is remembered.
AllUp == ~degraded => \A i \in DOMAIN talkers : talkers[i].ok

\* As soon as there are talkers, those to backends are of enough groups; but where
\* a recipient is forwarded, its talker counts too.
EnoughGroups ==
  ~degraded /\ fwds = {} /\ talkers # <<>>
    => Cardinality(Groups(Servers)) >= Redundancy

\* What has been announced, every backend knows; and then there is a backend.
Announced ==
  step \in {"announcing", "starting", "data"} /\ ~degraded =>
    /\ \A i \in Stores : rcpts \ todo \subseteq talkers[i].has
    /\ rcpts # todo => /\ Stores # {}
                       /\ step # "data" => \A i \in Stores : talkers[i].mode = "preLimbo"
    /\ step = "data" => talkers # <<>>

\* A message answered 552 to DATA has a backend that expects its data: a new DATA
\* cannot announce a recipient to that backend, and degrades.
RefusedStuck ==
  fromset /\ index \in rejected =>
    /\ rcpts # {} /\ step # "data"
    /\ ~degraded => /\ step \in {"command", "opening", "announcing"}
                    /\ \E i \in Stores : talkers[i].mode = "inData"

\* Nothing is known of a message that was not started yet.
Known == /\ \A c \in stored : c[1] <= index
         /\ \A c \in sent : c[1] <= index
         /\ \A i \in rejected : i <= index

\* A message partly committed is never sent as data again in this session.
CommittedOnce ==
  (\E c \in stored \cup sent : c[1] = index) /\ fromset => degraded /\ step # "data"

IInv == /\ TypeOK /\ Recipients /\ AllUp /\ EnoughGroups /\ Announced
        /\ RefusedStuck /\ Known /\ CommittedOnce
        /\ RedundantUnlessForwarded /\ EveryRecipientServed /\ RejectedNowhere

-----------------------------------------------------------------------------
(* The talkers: what a round of requests, and a new talker, make of them.  *)

\* The same talkers as before, whatever became of them.
SameTalkers == /\ talkers' \in Seq(Talker)
               /\ DOMAIN talkers' = DOMAIN talkers
               /\ \A i \in DOMAIN talkers : /\ talkers'[i].server = talkers[i].server
                                            /\ talkers'[i].fwd = talkers[i].fwd

LEMMA TalkersSeq ==
  ASSUME talkers \in Seq(Talker)
  PROVE  /\ Len(talkers) \in Nat /\ DOMAIN talkers = 1..Len(talkers)
         /\ \A i \in DOMAIN talkers : talkers[i] \in Talker
         /\ talkers = <<>> <=> DOMAIN talkers = {}
<1>1. /\ Len(talkers) \in Nat /\ DOMAIN talkers = 1..Len(talkers)
      /\ \A i \in DOMAIN talkers : talkers[i] \in Talker
  BY LenProperties
<1>2. talkers # <<>> => 1 \in DOMAIN talkers
  BY <1>1, EmptySeq
<1> QED BY <1>1, <1>2

\* A function on the same places, of talkers, is such a sequence.
LEMMA OfTalkers ==
  ASSUME talkers \in Seq(Talker), NEW f, f \in [DOMAIN talkers -> Talker]
  PROVE  f \in Seq(Talker) /\ DOMAIN f = DOMAIN talkers
<1>1. f \in [1..Len(talkers) -> Talker] /\ Len(talkers) \in Nat /\ DOMAIN f = DOMAIN talkers
  BY TalkersSeq
<1> QED BY <1>1, SeqDef

\* A talker that has thrown stays the talker of its server.
LEMMA DeadTalker ==
  ASSUME NEW t \in Talker
  PROVE  Dead(t) \in Talker /\ Dead(t).server = t.server /\ Dead(t).fwd = t.fwd
BY DEF Dead, Talker

\* A round of announcements: when all answer +OK, all know the recipient.
LEMMA AnnounceRound ==
  ASSUME TypeOK, NEW r \in Local, NEW good \in SUBSET UpBackends,
         talkers' = AfterRound(UpBackends, good,
                      LAMBDA t : [t EXCEPT !.has = @ \cup {r}, !.mode = "preLimbo"])
  PROVE  /\ SameTalkers
         /\ good = UpBackends => \A i \in DOMAIN talkers :
              /\ talkers'[i].ok = talkers[i].ok
              /\ i \in UpBackends => /\ talkers'[i].has = talkers[i].has \cup {r}
                                     /\ talkers'[i].mode = "preLimbo"
<1>1. talkers \in Seq(Talker) BY DEF TypeOK
<1>2. \A i \in DOMAIN talkers : talkers[i] \in Talker BY <1>1, TalkersSeq
<1>3. /\ DOMAIN talkers' = DOMAIN talkers
      /\ talkers' \in [DOMAIN talkers -> Talker]
      /\ \A i \in DOMAIN talkers :
              talkers'[i] = IF i \notin UpBackends THEN talkers[i]
                            ELSE IF i \in good
                              THEN [talkers[i] EXCEPT !.has = @ \cup {r}, !.mode = "preLimbo"]
                              ELSE Dead(talkers[i])
  <2>1. talkers' = [i \in DOMAIN talkers |->
                      IF i \notin UpBackends THEN talkers[i]
                      ELSE IF i \in good
                        THEN [talkers[i] EXCEPT !.has = @ \cup {r}, !.mode = "preLimbo"]
                        ELSE Dead(talkers[i])]
    BY DEF AfterRound
  <2>2. \A i \in DOMAIN talkers :
          [talkers[i] EXCEPT !.has = @ \cup {r}, !.mode = "preLimbo"] \in Talker
    BY <1>2 DEF Talker
  <2>3. \A i \in DOMAIN talkers : Dead(talkers[i]) \in Talker
    BY <1>2, DeadTalker
  <2> QED BY <1>2, <2>1, <2>2, <2>3
<1>4. talkers' \in Seq(Talker) BY <1>1, <1>3, OfTalkers
<1>5. ASSUME NEW i \in DOMAIN talkers
      PROVE  talkers'[i].server = talkers[i].server /\ talkers'[i].fwd = talkers[i].fwd
  <2>1. CASE i \in UpBackends /\ i \notin good
    BY <2>1, <1>2, <1>3, DeadTalker
  <2>2. CASE i \notin UpBackends \/ i \in good
    BY <2>2, <1>2, <1>3 DEF Talker
  <2> QED BY <2>1, <2>2
<1>6. good = UpBackends => \A i \in DOMAIN talkers :
              /\ talkers'[i].ok = talkers[i].ok
              /\ i \in UpBackends => /\ talkers'[i].has = talkers[i].has \cup {r}
                                     /\ talkers'[i].mode = "preLimbo"
  <2> SUFFICES ASSUME good = UpBackends, NEW i \in DOMAIN talkers
               PROVE  /\ talkers'[i].ok = talkers[i].ok
                      /\ i \in UpBackends => /\ talkers'[i].has = talkers[i].has \cup {r}
                                             /\ talkers'[i].mode = "preLimbo"
    OBVIOUS
  <2>1. CASE i \in UpBackends
    <3>1. talkers'[i] = [talkers[i] EXCEPT !.has = @ \cup {r}, !.mode = "preLimbo"]
      BY <1>3, <2>1
    <3> QED BY <1>2, <3>1 DEF Talker
  <2>2. CASE i \notin UpBackends
    BY <1>3, <2>2
  <2> QED BY <2>1, <2>2
<1> QED BY <1>3, <1>4, <1>5, <1>6 DEF SameTalkers

\* A round of DATA: when all answer +OK, all expect data.
LEMMA StartRound ==
  ASSUME TypeOK, NEW good \in SUBSET Up,
         talkers' = AfterRound(Up, good, LAMBDA t : [t EXCEPT !.mode = "inData"])
  PROVE  /\ SameTalkers
         /\ good = Up => \A i \in DOMAIN talkers :
              /\ talkers'[i].ok = talkers[i].ok
              /\ talkers'[i].has = talkers[i].has
              /\ i \in Up => talkers'[i].mode = "inData"
<1>1. talkers \in Seq(Talker) BY DEF TypeOK
<1>2. \A i \in DOMAIN talkers : talkers[i] \in Talker BY <1>1, TalkersSeq
<1>3. /\ DOMAIN talkers' = DOMAIN talkers
      /\ talkers' \in [DOMAIN talkers -> Talker]
      /\ \A i \in DOMAIN talkers :
              talkers'[i] = IF i \notin Up THEN talkers[i]
                            ELSE IF i \in good THEN [talkers[i] EXCEPT !.mode = "inData"]
                                               ELSE Dead(talkers[i])
  BY <1>2, DeadTalker DEF AfterRound, Talker
<1>4. talkers' \in Seq(Talker) BY <1>1, <1>3, OfTalkers
<1>5. ASSUME NEW i \in DOMAIN talkers
      PROVE  talkers'[i].server = talkers[i].server /\ talkers'[i].fwd = talkers[i].fwd
  <2>1. CASE i \in Up /\ i \notin good
    BY <2>1, <1>2, <1>3, DeadTalker
  <2>2. CASE i \notin Up \/ i \in good
    BY <2>2, <1>2, <1>3 DEF Talker
  <2> QED BY <2>1, <2>2
<1>6. good = Up => \A i \in DOMAIN talkers :
              /\ talkers'[i].ok = talkers[i].ok
              /\ talkers'[i].has = talkers[i].has
              /\ i \in Up => talkers'[i].mode = "inData"
  <2> SUFFICES ASSUME good = Up, NEW i \in DOMAIN talkers
               PROVE  /\ talkers'[i].ok = talkers[i].ok
                      /\ talkers'[i].has = talkers[i].has
                      /\ i \in Up => talkers'[i].mode = "inData"
    OBVIOUS
  <2>1. CASE i \in Up
    <3>1. talkers'[i] = [talkers[i] EXCEPT !.mode = "inData"]
      BY <1>3, <2>1
    <3> QED BY <1>2, <3>1 DEF Talker
  <2>2. CASE i \notin Up
    BY <1>3, <2>2
  <2> QED BY <2>1, <2>2
<1> QED BY <1>3, <1>4, <1>5, <1>6 DEF SameTalkers

\* A line of the message, or the end of it: the talkers of good are as they were.
LEMMA PlainRound ==
  ASSUME TypeOK, NEW good \in SUBSET Up,
         talkers' = AfterRound(Up, good, LAMBDA t : t)
  PROVE  /\ SameTalkers
         /\ good = Up => talkers' = talkers
<1>1. talkers \in Seq(Talker) BY DEF TypeOK
<1>2. /\ \A i \in DOMAIN talkers : talkers[i] \in Talker
      /\ talkers \in [DOMAIN talkers -> Talker]
  BY <1>1, TalkersSeq, LenProperties
<1>3. /\ DOMAIN talkers' = DOMAIN talkers
      /\ talkers' \in [DOMAIN talkers -> Talker]
      /\ \A i \in DOMAIN talkers :
              talkers'[i] = IF i \in Up /\ i \notin good THEN Dead(talkers[i])
                                                         ELSE talkers[i]
  BY <1>2, DeadTalker DEF AfterRound, Talker
<1>4. talkers' \in Seq(Talker) BY <1>1, <1>3, OfTalkers
<1>5. \A i \in DOMAIN talkers : /\ talkers'[i].server = talkers[i].server
                                /\ talkers'[i].fwd = talkers[i].fwd
  BY <1>2, <1>3 DEF Dead, Talker
<1>6. good = Up => talkers' = talkers
  BY <1>2, <1>3
<1> QED BY <1>3, <1>4, <1>5, <1>6 DEF SameTalkers

\* What the same talkers mean for the invariant's sets of them.
LEMMA SameStores ==
  ASSUME TypeOK, SameTalkers
  PROVE  /\ Stores' = Stores
         /\ Servers' = Servers
         /\ (talkers = <<>>)' <=> talkers = <<>>
<1>1. Stores' = Stores BY DEF Stores, SameTalkers
<1>2. Servers' = Servers
  BY <1>1 DEF Stores, Servers, SameTalkers
<1>3. talkers' = <<>> <=> talkers = <<>>
  BY EmptySeq, LenProperties DEF SameTalkers, TypeOK
<1> QED BY <1>1, <1>2, <1>3

-----------------------------------------------------------------------------
(* Steps that commit nothing, and the reset of a session.                  *)

Committing == RedundantUnlessForwarded /\ EveryRecipientServed /\ RejectedNowhere

\* What is committed is a matter of stored, sent and the answers only.
LEMMA NothingCommitted ==
  ASSUME IInv, UNCHANGED <<stored, sent, accepted>>, rejected' \subseteq rejected,
         index' \in Nat, index' >= index
  PROVE  Committing' /\ Known'
<1>1. \A i, r : CopiesOf(i, r)' = CopiesOf(i, r)
  BY DEF CopiesOf
<1>2. RedundantUnlessForwarded'
  BY <1>1 DEF IInv, RedundantUnlessForwarded, Redundant
<1>3. EveryRecipientServed'
  BY <1>1 DEF IInv, EveryRecipientServed
<1>4. RejectedNowhere'
  BY <1>1 DEF IInv, RejectedNowhere
<1>5. Known'
  BY DEF IInv, TypeOK, Known, Index
<1> QED BY <1>2, <1>3, <1>4, <1>5 DEF Committing

\* An answer that ends the attempt, 450: it is not the answer 552.
LEMMA Answer450 ==
  ASSUME Answer("450")
  PROVE  rejected' = rejected \ {index}
BY DEF Answer

\* A session reset has nothing to keep.
LEMMA Forgotten ==
  ASSUME IInv, ForgetSession, stored' \in SUBSET (Index \X Local \X Backend),
         sent' \in SUBSET (Index \X Forward), rejected' \in SUBSET Index,
         accepted' \in SUBSET [index : Index, local : SUBSET Local, fwds : SUBSET Forward]
  PROVE  /\ TypeOK' /\ Recipients' /\ AllUp' /\ EnoughGroups' /\ Announced'
         /\ RefusedStuck' /\ CommittedOnce'
<1> USE DEF ForgetSession
<1>1. DOMAIN talkers' = {} /\ talkers' \in Seq(Talker)
  BY EmptySeq, TalkersSeq
<1>2. TypeOK'
  BY <1>1 DEF IInv, TypeOK, Step
<1>3. Recipients' /\ AllUp'
  BY <1>1 DEF Recipients, AllUp
<1>4. EnoughGroups' /\ Announced' /\ RefusedStuck' /\ CommittedOnce'
  BY DEF EnoughGroups, Announced, RefusedStuck, CommittedOnce
<1> QED BY <1>2, <1>3, <1>4

LEMMA MailFromStep == ASSUME IInv, MailFrom PROVE IInv'
<1> USE DEF MailFrom, storage, world
<1>1. index \in Nat /\ index' \in Nat /\ index' >= index /\ index' <= MaxIndex
  BY DeliveryAssumption DEF IInv, TypeOK
<1>2. Committing' /\ Known'
  BY <1>1, NothingCommitted
<1>3. TypeOK'
  BY <1>1, DeliveryAssumption DEF IInv, TypeOK
<1>4. Recipients' /\ AllUp' /\ EnoughGroups' /\ Announced'
  BY <1>1 DEF IInv, TypeOK, Recipients, AllUp, EnoughGroups, Servers, Stores, Announced
<1>5. index' > index /\ index' \notin rejected /\ \A c \in stored \cup sent : c[1] # index'
  BY <1>1 DEF IInv, TypeOK, Known, Index
<1>6. RefusedStuck' /\ CommittedOnce'
  BY <1>5 DEF RefusedStuck, CommittedOnce
<1> QED BY <1>2, <1>3, <1>4, <1>6 DEF IInv, Committing

LEMMA RcptMailboxStep == ASSUME IInv, NEW r \in Local, RcptMailbox(r) PROVE IInv'
<1> USE DEF RcptMailbox, storage, world
<1>1. Committing' /\ Known'
  BY NothingCommitted DEF IInv, TypeOK
<1>2. TypeOK' /\ Recipients' /\ AllUp' /\ EnoughGroups' /\ Announced'
  BY DEF IInv, TypeOK, Recipients, AllUp, EnoughGroups, Servers, Stores, Announced
<1>3. RefusedStuck' /\ CommittedOnce'
  BY DEF IInv, RefusedStuck, CommittedOnce, Stores
<1> QED BY <1>1, <1>2, <1>3 DEF IInv, Committing

LEMMA RsetStep == ASSUME IInv, Rset PROVE IInv'
<1> USE DEF Rset, world
<1>1. Committing' /\ Known'
  BY NothingCommitted DEF IInv, TypeOK, ForgetSession
<1>2. /\ TypeOK' /\ Recipients' /\ AllUp' /\ EnoughGroups' /\ Announced'
      /\ RefusedStuck' /\ CommittedOnce'
  BY Forgotten DEF IInv, TypeOK
<1> QED BY <1>1, <1>2 DEF IInv, Committing

-----------------------------------------------------------------------------
(* The recipients that are forwards, and DATA.                             *)

LEMMA RcptForwardStep == ASSUME IInv, NEW f \in Forward, RcptForward(f) PROVE IInv'
<1> USE DEF RcptForward, world
<1>1. Committing' /\ Known'
  BY NothingCommitted DEF IInv, TypeOK
<1> DEFINE t == NewTalker(Sender, "inData", f)
<1>2. t \in Talker /\ t.server = Sender /\ t.fwd = f /\ t.ok
  BY DEF NewTalker, Talker
<1>3. CASE UNCHANGED <<talkers, fwds>>
  <2>1. TypeOK' /\ Recipients' /\ AllUp' /\ EnoughGroups' /\ Announced'
    BY <1>3 DEF IInv, TypeOK, Recipients, AllUp, EnoughGroups, Servers, Stores, Announced
  <2>2. RefusedStuck' /\ CommittedOnce'
    BY <1>3 DEF IInv, RefusedStuck, CommittedOnce, Stores
  <2> QED BY <1>1, <2>1, <2>2 DEF IInv, Committing
<1>4. CASE talkers' = Append(talkers, t) /\ fwds' = fwds \cup {f}
  <2>1. talkers \in Seq(Talker)
    BY DEF IInv, TypeOK
  <2>2. /\ talkers' \in Seq(Talker)
        /\ DOMAIN talkers' = DOMAIN talkers \cup {Len(talkers) + 1}
        /\ \A i \in DOMAIN talkers : talkers'[i] = talkers[i]
        /\ talkers'[Len(talkers) + 1] = t
    BY <1>2, <1>4, <2>1, AppendProperties, TalkersSeq, LenProperties
  <2>3. TypeOK'
    BY <1>4, <2>2 DEF IInv, TypeOK
  <2>4. Recipients' /\ AllUp'
    BY <1>2, <1>4, <2>2 DEF IInv, Recipients, AllUp
  <2>5. EnoughGroups' /\ Announced'
    BY <1>4 DEF EnoughGroups, Announced
  <2>6. \A i \in Stores : i \in Stores' /\ talkers'[i] = talkers[i]
    BY <2>2 DEF Stores
  <2>7. RefusedStuck' /\ CommittedOnce'
    BY <2>6 DEF IInv, RefusedStuck, CommittedOnce
  <2> QED BY <1>1, <2>3, <2>4, <2>5, <2>7 DEF IInv, Committing
<1> QED BY <1>3, <1>4

LEMMA DataStep == ASSUME IInv, Data PROVE IInv'
<1> USE DEF Data
<1>1. rejected' \subseteq rejected
  BY Answer450
<1>2. Committing' /\ Known'
  BY <1>1, NothingCommitted DEF IInv, TypeOK
<1>3. TypeOK'
  BY <1>1 DEF IInv, TypeOK, Step
<1>4. Recipients' /\ AllUp' /\ EnoughGroups'
  BY DEF IInv, TypeOK, Recipients, AllUp, EnoughGroups, Servers, Stores
<1>5. Announced'
  BY DEF IInv, TypeOK, Announced
<1>6. RefusedStuck' /\ CommittedOnce'
  BY <1>1 DEF IInv, RefusedStuck, CommittedOnce, Stores
<1> QED BY <1>2, <1>3, <1>4, <1>5, <1>6 DEF IInv, Committing

\* An attempt that ends with 450 and the talkers it has.
LEMMA Ended ==
  ASSUME IInv, fromset, SameTalkers, AllUp', ~degraded' => ~degraded, todo' \subseteq todo,
         step' = "command", Answer("450"),
         UNCHANGED <<fromset, index, rcpts, fwds, mega, stored, sent, accepted>>,
         degraded' \in BOOLEAN
  PROVE  IInv'
<1>1. rejected' = rejected \ {index}
  BY Answer450
<1>2. Committing' /\ Known'
  BY <1>1, NothingCommitted DEF IInv, TypeOK
<1>3. TypeOK'
  BY <1>1 DEF IInv, TypeOK, Step, SameTalkers
<1>4. Recipients'
  BY DEF IInv, Recipients, SameTalkers
<1>5. EnoughGroups'
  BY SameStores DEF IInv, EnoughGroups
<1>6. Announced' /\ RefusedStuck'
  BY <1>1 DEF Announced, RefusedStuck
<1>7. CommittedOnce'
  BY DEF IInv, CommittedOnce, TypeOK
<1> QED BY <1>2, <1>3, <1>4, <1>5, <1>6, <1>7 DEF IInv, Committing

LEMMA SameKept ==
  ASSUME TypeOK, talkers' = talkers
  PROVE  SameTalkers
BY DEF TypeOK, SameTalkers

LEMMA QuotaUnknownStep == ASSUME IInv, QuotaUnknown PROVE IInv'
<1> USE DEF QuotaUnknown, storage
<1>1. SameTalkers
  BY SameKept DEF IInv
<1>2. fromset /\ AllUp' /\ degraded' \in BOOLEAN
  BY DEF IInv, TypeOK, Recipients, AllUp
<1> QED BY <1>1, <1>2, Ended

LEMMA AllAnnouncedStep == ASSUME IInv, AllAnnounced PROVE IInv'
<1> USE DEF AllAnnounced, storage, world
<1>1. Committing' /\ Known'
  BY NothingCommitted DEF IInv, TypeOK
<1>2. TypeOK' /\ Recipients' /\ AllUp' /\ EnoughGroups' /\ Announced'
  BY DEF IInv, TypeOK, Step, Recipients, AllUp, EnoughGroups, Servers, Stores, Announced
<1>3. RefusedStuck'
  BY DEF IInv, RefusedStuck, Announced, Stores
<1>4. CommittedOnce'
  BY DEF IInv, CommittedOnce
<1> QED BY <1>1, <1>2, <1>3, <1>4 DEF IInv, Committing

-----------------------------------------------------------------------------
(* openStorage: the groups of the backends connected to.                   *)

Opened(connected) == {NewTalker(b, "blank", NoForward) : b \in connected}

\* The new talkers are to the servers connected to, and no more than those.
LEMMA OpenedTalkers ==
  ASSUME NEW connected \in Reachable
  PROVE  /\ IsFiniteSet(Opened(connected))
         /\ Cardinality(Opened(connected)) \in Nat
         /\ Cardinality(Opened(connected)) <= Cardinality(Groups(connected))
         /\ \A t \in Opened(connected) : /\ t \in Talker /\ t.ok
                                         /\ t.server \in connected
         /\ \A b \in connected : \E t \in Opened(connected) : t.server = b
<1>1. connected \in SUBSET Backend /\ Cardinality(Groups(connected)) = Cardinality(connected)
  BY DEF Reachable
<1>2. IsFiniteSet(connected)
  BY <1>1, DeliveryAssumption, FS_Subset
<1> DEFINE f == [b \in connected |-> NewTalker(b, "blank", NoForward)]
<1>3. f \in Surjection(connected, Opened(connected))
  BY DEF Surjection, Opened
<1>4. /\ IsFiniteSet(Opened(connected))
      /\ Cardinality(Opened(connected)) <= Cardinality(connected)
  BY <1>2, <1>3, FS_Surjection
<1>5. ASSUME NEW b \in Backend
      PROVE  /\ NewTalker(b, "blank", NoForward) \in Talker
             /\ NewTalker(b, "blank", NoForward).ok
             /\ NewTalker(b, "blank", NoForward).server = b
  BY DEF NewTalker, Talker
<1>6. \A t \in Opened(connected) : t \in Talker /\ t.ok /\ t.server \in connected
  BY <1>1, <1>5 DEF Opened
<1>7. \A b \in connected : \E t \in Opened(connected) : t.server = b
  BY <1>1, <1>5 DEF Opened
<1> QED BY <1>1, <1>4, <1>6, <1>7, FS_CardinalityType

\* More servers are of no fewer groups.
LEMMA GroupsGrow ==
  ASSUME NEW A \in SUBSET Backend, NEW B \in SUBSET Backend, A \subseteq B
  PROVE  /\ Cardinality(Groups(A)) \in Nat /\ Cardinality(Groups(B)) \in Nat
         /\ Cardinality(Groups(A)) <= Cardinality(Groups(B))
<1> DEFINE f == [b \in B |-> GroupOf[b]]
<1>1. IsFiniteSet(B)
  BY DeliveryAssumption, FS_Subset
<1>2. f \in Surjection(B, Groups(B))
  BY DEF Surjection, Groups
<1>3. IsFiniteSet(Groups(B))
  BY <1>1, <1>2, FS_Surjection
<1>4. Groups(A) \in SUBSET Groups(B)
  BY DEF Groups
<1>5. IsFiniteSet(Groups(A)) /\ Cardinality(Groups(A)) <= Cardinality(Groups(B))
  BY <1>3, <1>4, FS_Subset
<1> QED BY <1>3, <1>5, FS_CardinalityType

\* The talkers once some are appended to those there are.
LEMMA Appended ==
  ASSUME TypeOK, NEW connected \in Reachable,
         talkers' = talkers \o SetToSeq(Opened(connected))
  PROVE  /\ talkers' \in Seq(Talker)
         /\ DOMAIN talkers \subseteq DOMAIN talkers'
         /\ \A i \in DOMAIN talkers : talkers'[i] = talkers[i]
         /\ \A i \in DOMAIN talkers' \ DOMAIN talkers : talkers'[i] \in Opened(connected)
         /\ \A t \in Opened(connected) : \E i \in DOMAIN talkers' : talkers'[i] = t
         /\ talkers = <<>> => Len(talkers') = Cardinality(Opened(connected))
<1> DEFINE new == SetToSeq(Opened(connected))
<1>1. talkers \in Seq(Talker)
  BY DEF TypeOK
<1>2. /\ new \in Seq(Opened(connected)) /\ Len(new) = Cardinality(Opened(connected))
      /\ \A t \in Opened(connected) : \E i \in 1..Len(new) : new[i] = t
  BY OpenedTalkers, SeqOfSet
<1>3. new \in Seq(Talker)
  BY <1>2, OpenedTalkers, SeqMonotonic
<1> HIDE DEF new
<1>4. /\ talkers' \in Seq(Talker) /\ Len(talkers') = Len(talkers) + Len(new)
      /\ \A i \in 1..Len(talkers) + Len(new) :
           talkers'[i] = IF i <= Len(talkers) THEN talkers[i] ELSE new[i - Len(talkers)]
  BY <1>1, <1>3, ConcatProperties DEF new
<1>5. /\ Len(talkers) \in Nat /\ DOMAIN talkers = 1..Len(talkers)
      /\ Len(new) \in Nat /\ DOMAIN talkers' = 1..Len(talkers) + Len(new)
      /\ \A i \in 1..Len(new) : new[i] \in Opened(connected)
  BY <1>1, <1>2, <1>3, <1>4, LenProperties
<1>6. \A i \in DOMAIN talkers : i \in DOMAIN talkers' /\ talkers'[i] = talkers[i]
  BY <1>4, <1>5
<1>7. \A i \in DOMAIN talkers' \ DOMAIN talkers : talkers'[i] \in Opened(connected)
  BY <1>4, <1>5
<1>8. ASSUME NEW t \in Opened(connected)
      PROVE  \E i \in DOMAIN talkers' : talkers'[i] = t
  <2>1. PICK j \in 1..Len(new) : new[j] = t
    BY <1>2
  <2>2. Len(talkers) + j \in DOMAIN talkers' /\ talkers'[Len(talkers) + j] = t
    BY <2>1, <1>4, <1>5
  <2> QED BY <2>2
<1>9. talkers = <<>> => Len(talkers') = Cardinality(Opened(connected))
  BY <1>2, <1>4, <1>5, EmptySeq
<1> QED BY <1>4, <1>6, <1>7, <1>8, <1>9

LEMMA OpenStorageStep == ASSUME IInv, OpenStorage PROVE IInv'
<1>1. PICK connected \in Reachable : talkers' = talkers \o SetToSeq(Opened(connected))
  BY DEF OpenStorage, Opened
<1> USE DEF OpenStorage
<1>2. TypeOK /\ talkers \in Seq(Talker) /\ talkers' \in Seq(Talker)
  BY <1>1, Appended DEF IInv, TypeOK
<1>3. /\ DOMAIN talkers \subseteq DOMAIN talkers'
      /\ \A i \in DOMAIN talkers : talkers'[i] = talkers[i]
      /\ \A i \in DOMAIN talkers' \ DOMAIN talkers : talkers'[i] \in Opened(connected)
      /\ \A t \in Opened(connected) : \E i \in DOMAIN talkers' : talkers'[i] = t
      /\ talkers = <<>> => Len(talkers') = Cardinality(Opened(connected))
  BY <1>1, <1>2, Appended
<1>4. connected \in SUBSET Backend
  BY DEF Reachable
<1>5. \A t \in Opened(connected) : t \in Talker /\ t.ok /\ t.server \in Backend
  BY <1>4, OpenedTalkers
<1>6. degraded' \in BOOLEAN /\ (degraded => degraded')
  BY DEF IInv, TypeOK, DegradeUnless
<1>7. rejected' \subseteq rejected /\ step' \in {"command", "announcing"}
  BY Answer450
<1>8. Committing' /\ Known'
  BY <1>7, NothingCommitted DEF IInv, TypeOK
<1>9. TypeOK'
  BY <1>2, <1>6, <1>7 DEF IInv, TypeOK, Step
<1>10. Recipients'
  <2>1. \A i \in DOMAIN talkers' : talkers'[i].server = Sender => i \in DOMAIN talkers
    BY <1>3, <1>5, DeliveryAssumption
  <2>2. \A i \in DOMAIN talkers' : talkers'[i].server = Sender => talkers'[i].fwd \in fwds
    BY <1>3, <2>1 DEF IInv, Recipients
  <2>3. \A f \in fwds : \E i \in DOMAIN talkers' :
                           talkers'[i].server = Sender /\ talkers'[i].fwd = f
    BY <1>3 DEF IInv, Recipients
  <2> QED BY <1>7, <2>2, <2>3 DEF IInv, Recipients
<1>11. AllUp'
  BY <1>3, <1>5, <1>6 DEF IInv, AllUp
<1>12. EnoughGroups'
  <2> SUFFICES ASSUME ~degraded', fwds = {}, talkers' # <<>>
               PROVE  Cardinality(Groups(Servers')) >= Redundancy
    BY DEF EnoughGroups
  <2>1. Servers \subseteq Servers' /\ Servers \in SUBSET Backend /\ Servers' \in SUBSET Backend
    BY <1>3 DEF Stores, Servers
  <2>2. CASE talkers # <<>>
    <3>1. Cardinality(Groups(Servers)) >= Redundancy
      BY <1>6, <2>2 DEF IInv, EnoughGroups
    <3> QED BY <2>1, <3>1, GroupsGrow, DeliveryAssumption
  <2>3. CASE talkers = <<>>
    <3>1. Cardinality(Opened(connected)) >= Redundancy
      BY <1>3, <2>3 DEF DegradeUnless
    <3>2. ASSUME NEW b \in connected
          PROVE  b \in Servers'
      <4>1. PICK t \in Opened(connected) : t.server = b
        BY OpenedTalkers
      <4>2. PICK i \in DOMAIN talkers' : talkers'[i] = t
        BY <1>3
      <4> QED BY <1>4, <4>1, <4>2 DEF Stores, Servers
    <3>3. /\ Cardinality(Groups(connected)) <= Cardinality(Groups(Servers'))
          /\ Cardinality(Groups(connected)) \in Nat /\ Cardinality(Groups(Servers')) \in Nat
      BY <1>4, <2>1, <3>2, GroupsGrow
    <3>4. /\ Cardinality(Opened(connected)) <= Cardinality(Groups(connected))
          /\ Cardinality(Opened(connected)) \in Nat
      BY OpenedTalkers
    <3> QED BY <3>1, <3>3, <3>4, DeliveryAssumption
  <2> QED BY <2>2, <2>3
<1>13. Announced'
  <2>1. todo = rcpts
    BY DEF IInv, Recipients
  <2> QED BY <2>1, <1>7 DEF Announced
<1>14. \A i \in Stores : i \in Stores' /\ talkers'[i] = talkers[i]
  BY <1>3 DEF Stores
<1>15. RefusedStuck' /\ CommittedOnce'
  BY <1>6, <1>7, <1>14 DEF IInv, RefusedStuck, CommittedOnce
<1> QED BY <1>8, <1>9, <1>10, <1>11, <1>12, <1>13, <1>15 DEF IInv, Committing

-----------------------------------------------------------------------------
(* The rounds of requests.                                                 *)

LEMMA AddRecipientStep == ASSUME IInv, NEW r \in Local, AddRecipient(r) PROVE IInv'
<1> DEFINE Ready == {i \in UpBackends : talkers[i].mode \in {"blank", "preLimbo"}}
<1>1. PICK good \in SUBSET Ready :
         /\ talkers' = AfterRound(UpBackends, good,
                         LAMBDA t : [t EXCEPT !.has = @ \cup {r}, !.mode = "preLimbo"])
         /\ DegradeUnless(good = UpBackends)
         /\ IF good = {} THEN Answer("450") /\ step' = "command"
                         ELSE UNCHANGED <<rejected, step>>
  BY DEF AddRecipient
<1>2. /\ step = "announcing" /\ r \in todo /\ todo' = todo \ {r}
      /\ UNCHANGED <<fromset, index, rcpts, fwds, mega, stored, sent, accepted>>
  BY DEF AddRecipient
<1>3. TypeOK /\ good \in SUBSET UpBackends
  BY DEF IInv
<1>4. /\ SameTalkers
      /\ good = UpBackends => \A i \in DOMAIN talkers :
              /\ talkers'[i].ok = talkers[i].ok
              /\ i \in UpBackends => /\ talkers'[i].has = talkers[i].has \cup {r}
                                     /\ talkers'[i].mode = "preLimbo"
  BY <1>1, <1>3, AnnounceRound
<1>5. /\ degraded' \in BOOLEAN
      /\ ~degraded' => ~degraded /\ good = UpBackends
  BY <1>1 DEF IInv, TypeOK, DegradeUnless
<1>6. AllUp'
  BY <1>4, <1>5 DEF IInv, AllUp, SameTalkers
<1>7. Stores' = Stores /\ Servers' = Servers /\ ((talkers = <<>>)' <=> talkers = <<>>)
  BY <1>3, <1>4, SameStores
<1>8. CASE good = {}
  <2>1. fromset
    BY <1>2 DEF IInv, Recipients
  <2>2. Answer("450") /\ step' = "command" /\ todo' \subseteq todo
    BY <1>1, <1>2, <1>8
  <2> QED BY <1>2, <1>4, <1>5, <1>6, <2>1, <2>2, Ended
<1>9. CASE good # {}
  <2>1. rejected' = rejected /\ step' = step
    BY <1>1, <1>9
  <2>2. Committing' /\ Known'
    BY <1>2, <2>1, NothingCommitted DEF IInv, TypeOK
  <2>3. TypeOK'
    BY <1>2, <1>4, <1>5, <2>1 DEF IInv, TypeOK, SameTalkers
  <2>4. Recipients'
    BY <1>2, <1>4, <2>1 DEF IInv, Recipients, SameTalkers
  <2>5. EnoughGroups'
    BY <1>2, <1>5, <1>7 DEF IInv, EnoughGroups
  <2>6. ASSUME ~degraded'
        PROVE  /\ Stores = UpBackends /\ Stores # {} /\ good = Stores
               /\ \A i \in Stores : talkers'[i].mode = "preLimbo"
               /\ \A i \in Stores : talkers'[i].has = talkers[i].has \cup {r}
    BY <1>4, <1>5, <1>9, <2>6 DEF IInv, AllUp, Stores, UpBackends, Up
  <2>7. Announced'
    BY <1>2, <1>5, <1>7, <2>1, <2>6 DEF IInv, Announced
  <2>8. RefusedStuck'
    <3>1. ~degraded' => \A i \in Stores : talkers[i].mode # "inData"
      BY <2>6
    <3> QED BY <1>2, <1>5, <2>1, <3>1 DEF IInv, RefusedStuck
  <2>9. CommittedOnce'
    BY <1>2, <1>5, <2>1 DEF IInv, CommittedOnce, TypeOK
  <2> QED BY <1>6, <2>2, <2>3, <2>4, <2>5, <2>7, <2>8, <2>9 DEF IInv, Committing
<1> QED BY <1>8, <1>9

\* A message that is refused over quota has not been committed anywhere.
LEMMA RefusedNow ==
  ASSUME IInv, fromset, ~degraded \/ step = "data",
         UNCHANGED <<stored, sent, accepted, index>>, rejected' = rejected \cup {index}
  PROVE  Committing' /\ Known' /\ rejected' \in SUBSET Index
<1>1. \A i, r : CopiesOf(i, r)' = CopiesOf(i, r)
  BY DEF CopiesOf
<1>2. \A c \in stored \cup sent : c[1] # index
  BY DEF IInv, CommittedOnce
<1>3. RedundantUnlessForwarded'
  BY <1>1 DEF IInv, RedundantUnlessForwarded, Redundant
<1>4. EveryRecipientServed'
  BY <1>1 DEF IInv, EveryRecipientServed
<1>5. \A r \in Local : CopiesOf(index, r) = {}
  BY <1>2 DEF CopiesOf
<1>6. \A f \in Forward : <<index, f>> \notin sent
  BY <1>2
<1>7. RejectedNowhere'
  BY <1>1, <1>5, <1>6 DEF IInv, RejectedNowhere
<1>8. Known' /\ rejected' \in SUBSET Index
  BY DeliveryAssumption DEF IInv, TypeOK, Recipients, Known, Index
<1> QED BY <1>3, <1>4, <1>7, <1>8 DEF Committing

LEMMA StartDataStep == ASSUME IInv, StartData PROVE IInv'
<1>1. PICK good \in SUBSET {i \in Up : talkers[i].server = Sender \/ talkers[i].mode = "preLimbo"} :
       /\ talkers' = AfterRound(Up, good, LAMBDA t : [t EXCEPT !.mode = "inData"])
       /\ DegradeUnless(good = Up)
       /\ \/ (good = {} \/ degraded') /\ Answer("450") /\ step' = "command"
          \/ good # {} /\ ~degraded' /\ rcpts # {} /\ Answer("552") /\ step' = "command"
          \/ good # {} /\ ~degraded' /\ step' = "data" /\ UNCHANGED rejected
  BY DEF StartData
<1>2. /\ step = "starting"
      /\ UNCHANGED <<fromset, index, rcpts, fwds, todo, mega, stored, sent, accepted>>
  BY DEF StartData
<1>3. TypeOK /\ good \in SUBSET Up
  BY DEF IInv
<1>4. /\ SameTalkers
      /\ good = Up => \A i \in DOMAIN talkers :
              /\ talkers'[i].ok = talkers[i].ok
              /\ talkers'[i].has = talkers[i].has
              /\ i \in Up => talkers'[i].mode = "inData"
  BY <1>1, <1>3, StartRound
<1>5. /\ degraded' \in BOOLEAN
      /\ ~degraded' => ~degraded /\ good = Up
  BY <1>1 DEF IInv, TypeOK, DegradeUnless
<1>6. AllUp'
  BY <1>4, <1>5 DEF IInv, AllUp, SameTalkers
<1>7. Stores' = Stores /\ Servers' = Servers /\ ((talkers = <<>>)' <=> talkers = <<>>)
  BY <1>3, <1>4, SameStores
<1>8. fromset /\ todo = {}
  BY <1>2 DEF IInv, Recipients
<1>9. CASE Answer("450") /\ step' = "command"
  BY <1>2, <1>4, <1>5, <1>6, <1>8, <1>9, Ended
<1>10. CASE good # {} /\ ~degraded' /\ step' \in {"command", "data"}
  <2>2. Stores \subseteq Up
    BY <1>5, <1>10 DEF IInv, AllUp, Stores, Up
  <2>3. Recipients'
    BY <1>2, <1>4, <1>8, <1>10 DEF IInv, Recipients, SameTalkers
  <2>4. EnoughGroups'
    BY <1>2, <1>5, <1>7 DEF IInv, EnoughGroups
  <2>5. CommittedOnce'
    BY <1>2, <1>5, <1>10 DEF IInv, CommittedOnce
  <2>6. talkers # <<>>
    BY <1>3, <1>10 DEF Up
  <2>7. CASE rcpts # {} /\ Answer("552") /\ step' = "command"
    <3>1. rejected' = rejected \cup {index}
      BY <2>7 DEF Answer
    <3>2. Committing' /\ Known' /\ rejected' \in SUBSET Index
      BY <1>2, <1>5, <1>8, <1>10, <3>1, RefusedNow
    <3>3. TypeOK'
      BY <1>2, <1>4, <1>5, <2>7, <3>2 DEF IInv, TypeOK, Step, SameTalkers
    <3>4. Announced'
      BY <2>7 DEF Announced
    <3>5. \E i \in Stores : talkers'[i].mode = "inData"
      BY <1>2, <1>4, <1>5, <1>8, <1>10, <2>2, <2>7 DEF IInv, Announced, Stores
    <3>6. RefusedStuck'
      BY <1>2, <1>7, <2>7, <3>5 DEF RefusedStuck
    <3> QED BY <1>6, <2>3, <2>4, <2>5, <3>2, <3>3, <3>4, <3>6 DEF IInv, Committing
  <2>8. CASE step' = "data" /\ UNCHANGED rejected
    <3>1. Committing' /\ Known'
      BY <1>2, <2>8, NothingCommitted DEF IInv, TypeOK
    <3>2. TypeOK'
      BY <1>2, <1>4, <1>5, <2>8 DEF IInv, TypeOK, Step, SameTalkers
    <3>3. Announced'
      BY <1>2, <1>4, <1>5, <1>7, <1>8, <1>10, <2>6, <2>8 DEF IInv, Announced, Stores
    <3>4. index \notin rejected
      BY <1>2, <1>5, <1>8, <1>10 DEF IInv, RefusedStuck
    <3>5. RefusedStuck'
      BY <1>2, <2>8, <3>4 DEF RefusedStuck
    <3> QED BY <1>6, <2>3, <2>4, <2>5, <3>1, <3>2, <3>3, <3>5 DEF IInv, Committing
  <2> QED BY <1>1, <1>9, <1>10, <2>7, <2>8
<1> QED BY <1>1, <1>9, <1>10

LEMMA AddLineStep == ASSUME IInv, AddLine PROVE IInv'
<1>1. PICK good \in SUBSET Up :
         talkers' = AfterRound(Up, good, LAMBDA t : t) /\ DegradeUnless(good = Up)
  BY DEF AddLine
<1>2. /\ step = "data" /\ UNCHANGED <<step, fromset, index, rcpts, fwds, todo>>
      /\ UNCHANGED <<mega, stored, sent, rejected, accepted>>
  BY DEF AddLine, session, world
<1>3. TypeOK
  BY DEF IInv
<1>4. SameTalkers /\ (good = Up => talkers' = talkers)
  BY <1>1, <1>3, PlainRound
<1>5. degraded' \in BOOLEAN /\ (~degraded' => ~degraded /\ talkers' = talkers)
  BY <1>1, <1>4 DEF IInv, TypeOK, DegradeUnless
<1>6. Stores' = Stores /\ Servers' = Servers /\ ((talkers = <<>>)' <=> talkers = <<>>)
  BY <1>3, <1>4, SameStores
<1>7. Committing' /\ Known'
  BY <1>2, NothingCommitted DEF IInv, TypeOK
<1>8. TypeOK'
  BY <1>2, <1>4, <1>5 DEF IInv, TypeOK, SameTalkers
<1>9. Recipients'
  BY <1>2, <1>4 DEF IInv, Recipients, SameTalkers
<1>10. AllUp' /\ EnoughGroups'
  BY <1>2, <1>5, <1>6 DEF IInv, AllUp, EnoughGroups
<1>11. Announced'
  BY <1>2, <1>5, <1>6 DEF IInv, Announced
<1>12. RefusedStuck' /\ CommittedOnce'
  BY <1>2 DEF IInv, RefusedStuck, CommittedOnce
<1> QED BY <1>7, <1>8, <1>9, <1>10, <1>11, <1>12 DEF IInv, Committing

LEMMA TooLargeStep == ASSUME IInv, TooLarge PROVE IInv'
<1> USE DEF TooLarge
<1>1. fromset /\ index' = index
  BY DEF IInv, Recipients, ForgetSession
<1>2. rejected' = rejected \cup {index}
  BY DEF Answer
<1>3. Committing' /\ Known' /\ rejected' \in SUBSET Index
  BY <1>1, <1>2, RefusedNow
<1>4. /\ TypeOK' /\ Recipients' /\ AllUp' /\ EnoughGroups' /\ Announced'
      /\ RefusedStuck' /\ CommittedOnce'
  BY <1>3, Forgotten DEF IInv, TypeOK
<1> QED BY <1>3, <1>4 DEF IInv, Committing

-----------------------------------------------------------------------------
(* The commit.                                                             *)

\* What a commit adds is of the message at hand, and typed.
LEMMA CommittedKinds ==
  ASSUME IInv, fromset, NEW done \in SUBSET Up, Committed(done)
  PROVE  /\ stored \subseteq stored' /\ sent \subseteq sent'
         /\ stored' \in SUBSET (Index \X Local \X Backend) /\ sent' \in SUBSET (Index \X Forward)
         /\ \A c \in stored' : c \in stored \/ c[1] = index
         /\ \A c \in sent' : c \in sent \/ c[1] = index
<1>1. index \in Index
  BY DeliveryAssumption DEF IInv, TypeOK, Recipients, Index
<1>2. \A i \in DOMAIN talkers : talkers[i] \in Talker
  BY TalkersSeq DEF IInv, TypeOK
<1>3. \A i \in done \ UpBackends : talkers[i].fwd \in Forward
  BY <1>2 DEF IInv, TypeOK, Recipients, UpBackends, Up, Talker
<1>4. \A c \in stored' : c \in stored \/ c \in {index} \X Local \X Backend
  BY DEF Committed
<1>5. \A c \in sent' : c \in sent \/ c \in {index} \X Forward
  BY <1>3 DEF Committed
<1>6. stored' \in SUBSET (Index \X Local \X Backend) /\ sent' \in SUBSET (Index \X Forward)
  BY <1>1, <1>4, <1>5 DEF IInv, TypeOK
<1>7. stored \subseteq stored' /\ sent \subseteq sent'
  BY DEF Committed
<1> QED BY <1>4, <1>5, <1>6, <1>7

\* No commit takes a copy away.
LEMMA CopiesGrow ==
  ASSUME stored \subseteq stored', NEW i, NEW r
  PROVE  /\ CopiesOf(i, r) \subseteq CopiesOf(i, r)'
         /\ Cardinality(Groups(CopiesOf(i, r))) \in Nat
         /\ Cardinality(Groups(CopiesOf(i, r)')) \in Nat
         /\ Cardinality(Groups(CopiesOf(i, r))) <= Cardinality(Groups(CopiesOf(i, r)'))
<1>1. /\ CopiesOf(i, r) \in SUBSET Backend /\ CopiesOf(i, r)' \in SUBSET Backend
      /\ CopiesOf(i, r) \subseteq CopiesOf(i, r)'
  BY DEF CopiesOf
<1> QED BY <1>1, GroupsGrow

\* A commit of everything, in a session that is not degraded, leaves a copy of the
\* message with every backend, for every recipient, and every forward with the sender.
LEMMA AllServed ==
  ASSUME IInv, step = "data", ~degraded, Committed(Up), index' = index
  PROVE  /\ talkers # <<>>
         /\ \A r \in rcpts : Servers \subseteq CopiesOf(index, r)'
         /\ rcpts # {} => Servers # {}
         /\ \A f \in fwds : <<index, f>> \in sent'
<1>1. todo = {}
  BY DEF IInv, Recipients
<1>2. /\ talkers # <<>> /\ \A i \in Stores : rcpts \subseteq talkers[i].has
      /\ rcpts # {} => Stores # {}
  BY <1>1 DEF IInv, Announced
<1>3. Up = DOMAIN talkers /\ UpBackends = Stores
  BY DEF IInv, AllUp, Up, UpBackends, Stores
<1>4. ASSUME NEW r \in rcpts, NEW b \in Servers
      PROVE  b \in CopiesOf(index, r)'
  <2>1. PICK i \in Stores : talkers[i].server = b
    BY DEF Servers
  <2>2. r \in Local /\ b \in Backend /\ r \in talkers[i].has
    BY <1>2, <2>1 DEF IInv, TypeOK, Stores
  <2>3. <<index, r, b>> \in stored'
    <3> DEFINE c == <<index, r, b>>
    <3>1. c \in {index} \X Local \X Backend /\ c[2] = r /\ c[3] = b
      BY <2>2
    <3>2. i \in Up /\ c[2] \in talkers[i].has /\ c[3] = talkers[i].server
      BY <1>3, <2>1, <2>2, <3>1 DEF Stores
    <3> QED BY <3>1, <3>2 DEF Committed
  <2> QED BY <2>2, <2>3 DEF CopiesOf
<1>5. ASSUME NEW f \in fwds
      PROVE  <<index, f>> \in sent'
  <2>1. PICK i \in DOMAIN talkers : talkers[i].server = Sender /\ talkers[i].fwd = f
    BY DEF IInv, Recipients
  <2>2. i \in Up \ UpBackends
    BY <1>3, <2>1, DeliveryAssumption DEF Stores
  <2> QED BY <2>1, <2>2 DEF Committed
<1> QED BY <1>2, <1>4, <1>5 DEF Servers

\* Every recipient of an accepted message has it, and every forward was sent.
Served(a) == /\ \A r \in a.local : CopiesOf(a.index, r) # {}
             /\ \A f \in a.fwds : <<a.index, f>> \in sent

\* What is committed for a message that is not refused breaks no earlier promise.
LEMMA CommitKeeps ==
  ASSUME IInv, fromset, index \notin rejected, index' = index,
         NEW done \in SUBSET Up, Committed(done), rejected' \subseteq rejected
  PROVE  /\ \A a \in accepted : Served(a)' /\ (a.fwds = {} => Redundant(a)')
         /\ RejectedNowhere' /\ Known'
<1>1. /\ stored \subseteq stored' /\ sent \subseteq sent'
      /\ \A c \in stored' : c \in stored \/ c[1] = index
      /\ \A c \in sent' : c \in sent \/ c[1] = index
  BY CommittedKinds
<1>2. ASSUME NEW a \in accepted, a.fwds = {}, NEW r \in a.local
      PROVE  Cardinality(Groups(CopiesOf(a.index, r)')) >= Redundancy
  <2>1. Cardinality(Groups(CopiesOf(a.index, r))) >= Redundancy
    BY <1>2 DEF IInv, RedundantUnlessForwarded, Redundant
  <2> QED BY <1>1, <2>1, CopiesGrow, DeliveryAssumption
<1>3. \A a \in accepted : Served(a)'
  <2>1. \A a \in accepted : \A r \in a.local : CopiesOf(a.index, r)' # {}
    BY <1>1, CopiesGrow DEF IInv, EveryRecipientServed
  <2>2. \A a \in accepted : \A f \in a.fwds : <<a.index, f>> \in sent'
    BY <1>1 DEF IInv, EveryRecipientServed
  <2> QED BY <2>1, <2>2 DEF Served
<1>4. RejectedNowhere'
  <2> SUFFICES ASSUME NEW i \in rejected'
               PROVE  /\ \A r \in Local : CopiesOf(i, r)' = {}
                      /\ \A f \in Forward : <<i, f>> \notin sent'
    BY DEF RejectedNowhere
  <2>1. i \in rejected /\ i # index
    OBVIOUS
  <2>2. \A r \in Local : CopiesOf(i, r)' = {}
    BY <1>1, <2>1 DEF IInv, RejectedNowhere, CopiesOf
  <2>3. \A f \in Forward : <<i, f>> \notin sent'
    BY <1>1, <2>1 DEF IInv, RejectedNowhere
  <2> QED BY <2>2, <2>3
<1>5. Known'
  BY <1>1 DEF IInv, TypeOK, Known
<1> QED BY <1>2, <1>3, <1>4, <1>5 DEF Redundant

\* What 250 is said of, with everything committed, is served and redundant.
LEMMA NowAccepted ==
  ASSUME IInv, step = "data", fromset, index' = index, ~degraded, Committed(Up), NEW a,
         a = [index |-> index, local |-> rcpts, fwds |-> fwds]
  PROVE  Served(a)' /\ (a.fwds = {} => Redundant(a)')
<1>1. /\ talkers # <<>>
      /\ \A r \in rcpts : Servers \subseteq CopiesOf(index, r)'
      /\ rcpts # {} => Servers # {}
      /\ \A f \in fwds : <<index, f>> \in sent'
  BY AllServed
<1>2. ASSUME a.fwds = {}, NEW r \in a.local
      PROVE  Cardinality(Groups(CopiesOf(a.index, r)')) >= Redundancy
  <2>1. Cardinality(Groups(Servers)) >= Redundancy
    BY <1>1, <1>2 DEF IInv, EnoughGroups
  <2>2. Servers \in SUBSET Backend /\ CopiesOf(index, r)' \in SUBSET Backend
    BY DEF Servers, Stores, CopiesOf
  <2>3. Servers \subseteq CopiesOf(index, r)'
    BY <1>1, <1>2
  <2> QED BY <2>1, <2>2, <2>3, GroupsGrow, DeliveryAssumption
<1>3. Served(a)'
  BY <1>1 DEF Served
<1> QED BY <1>2, <1>3 DEF Redundant

LEMMA MsgDoneStep == ASSUME IInv, MsgDone PROVE IInv'
<1> DEFINE new == [index |-> index, local |-> rcpts, fwds |-> fwds]
<1>1. PICK done \in SUBSET Up : \E good \in SUBSET done :
       /\ Committed(done)
       /\ IF good = {}
            THEN /\ talkers' = AfterRound(Up, {}, LAMBDA t : t)
                 /\ degraded' = (degraded \/ Up # {})
                 /\ step' = "command" /\ Answer("450")
                 /\ UNCHANGED <<fromset, index, rcpts, fwds, todo, mega, accepted>>
            ELSE /\ ForgetSession
                 /\ \/ UNCHANGED <<rejected, accepted>>
                    \/ (degraded \/ good # Up) /\ Answer("450") /\ UNCHANGED accepted
                    \/ /\ ~degraded /\ good = Up /\ Answer("250")
                       /\ accepted' = accepted \cup {new}
  BY DEF MsgDone
<1>2. step = "data" /\ fromset /\ index \in Index
  BY DeliveryAssumption DEF MsgDone, IInv, TypeOK, Recipients, Index
<1>3. index \notin rejected
  BY <1>2 DEF IInv, RefusedStuck
<1>4. /\ stored' \in SUBSET (Index \X Local \X Backend) /\ sent' \in SUBSET (Index \X Forward)
      /\ \A c \in stored' : c \in stored \/ c[1] = index
      /\ \A c \in sent' : c \in sent \/ c[1] = index
      /\ Committed(done)
  BY <1>1, <1>2, CommittedKinds
<1>5. CASE /\ talkers' = AfterRound(Up, {}, LAMBDA t : t)
           /\ degraded' = (degraded \/ Up # {})
           /\ step' = "command" /\ Answer("450")
           /\ UNCHANGED <<fromset, index, rcpts, fwds, todo, mega, accepted>>
  <2>1. rejected' = rejected \ {index}
    BY <1>5, Answer450
  <2>2. TypeOK
    BY DEF IInv
  <2>3. {} \in SUBSET Up
    OBVIOUS
  <2>4. SameTalkers
    BY <1>5, <2>2, <2>3, PlainRound
  <2>5. Stores' = Stores /\ Servers' = Servers /\ ((talkers = <<>>)' <=> talkers = <<>>)
    BY <2>2, <2>4, SameStores
  <2>6. Committing' /\ Known'
    BY <1>2, <1>3, <1>4, <1>5, <2>1, CommitKeeps
       DEF Committing, RedundantUnlessForwarded, EveryRecipientServed, Served
  <2>7. TypeOK'
    BY <1>4, <1>5, <2>1, <2>4 DEF IInv, TypeOK, Step, SameTalkers
  <2>8. Recipients'
    <3>1. step' = "command" /\ UNCHANGED <<fromset, index, rcpts, fwds, todo>>
      BY <1>5
    <3> QED BY <2>4, <3>1 DEF IInv, Recipients, SameTalkers
  <2>9. ~degraded' => ~degraded /\ DOMAIN talkers = {}
    BY <1>5 DEF IInv, AllUp, Up
  <2>10. AllUp' /\ EnoughGroups'
    BY <1>5, <2>4, <2>5, <2>9 DEF IInv, AllUp, EnoughGroups, SameTalkers
  <2>11. Announced' /\ RefusedStuck'
    BY <1>5, <2>1 DEF Announced, RefusedStuck
  <2>12. degraded'
    BY <1>2, <1>5, <2>2, <2>9, TalkersSeq DEF IInv, TypeOK, Announced
  <2>13. CommittedOnce'
    BY <1>5, <2>12 DEF CommittedOnce
  <2> QED BY <2>6, <2>7, <2>8, <2>10, <2>11, <2>13 DEF IInv, Committing
<1>6. CASE ForgetSession /\ UNCHANGED accepted /\ rejected' \subseteq rejected
  <2>1. index' = index
    BY <1>6 DEF ForgetSession
  <2>2. Committing' /\ Known'
    BY <1>2, <1>3, <1>4, <1>6, <2>1, CommitKeeps
       DEF Committing, RedundantUnlessForwarded, EveryRecipientServed, Served
  <2>3. /\ TypeOK' /\ Recipients' /\ AllUp' /\ EnoughGroups' /\ Announced'
        /\ RefusedStuck' /\ CommittedOnce'
    BY <1>4, <1>6, Forgotten DEF IInv, TypeOK
  <2> QED BY <2>2, <2>3 DEF IInv, Committing
<1>7. CASE /\ ForgetSession /\ rejected' \subseteq rejected
           /\ ~degraded /\ done = Up /\ accepted' = accepted \cup {new}
  <2> PICK a : a = new
    OBVIOUS
  <2>1. index' = index
    BY <1>7 DEF ForgetSession
  <2>2. /\ \A x \in accepted : Served(x)' /\ (x.fwds = {} => Redundant(x)')
        /\ RejectedNowhere' /\ Known'
    BY <1>2, <1>3, <1>4, <1>7, <2>1, CommitKeeps
  <2>3. Served(a)' /\ (a.fwds = {} => Redundant(a)')
    BY <1>2, <1>4, <1>7, <2>1, NowAccepted
  <2>4. Committing' /\ Known'
    BY <1>7, <2>2, <2>3
       DEF Committing, RedundantUnlessForwarded, EveryRecipientServed, Served
  <2>5. accepted' \in SUBSET [index : Index, local : SUBSET Local, fwds : SUBSET Forward]
    BY <1>2, <1>7 DEF IInv, TypeOK
  <2>6. /\ TypeOK' /\ Recipients' /\ AllUp' /\ EnoughGroups' /\ Announced'
        /\ RefusedStuck' /\ CommittedOnce'
    BY <1>4, <1>7, <2>5, Forgotten DEF IInv, TypeOK
  <2> QED BY <2>4, <2>6 DEF IInv, Committing
<1>8. Answer("450") \/ Answer("250") \/ UNCHANGED rejected => rejected' \subseteq rejected
  BY DEF Answer
<1> QED BY <1>1, <1>5, <1>6, <1>7, <1>8

-----------------------------------------------------------------------------
(* The theorems.                                                           *)

\* The invariant holds in every state of every behaviour of the delivery.
THEOREM Invariance == Spec => []IInv
<1>1. Init => IInv
  <2> SUFFICES ASSUME Init PROVE IInv
    OBVIOUS
  <2> USE DEF Init
  <2>1. DOMAIN talkers = {} /\ talkers \in Seq(Talker)
    BY EmptySeq, TalkersSeq
  <2>2. TypeOK
    <3>1. index \in 0..MaxIndex
      BY DeliveryAssumption
    <3> QED BY <2>1, <3>1 DEF TypeOK, Step
  <2>3. Recipients /\ AllUp /\ EnoughGroups /\ Announced
    BY <2>1 DEF Recipients, AllUp, EnoughGroups, Announced
  <2>4. RefusedStuck /\ Known /\ CommittedOnce
    BY DEF RefusedStuck, Known, CommittedOnce
  <2>5. RedundantUnlessForwarded /\ EveryRecipientServed /\ RejectedNowhere
    BY DEF RedundantUnlessForwarded, EveryRecipientServed, RejectedNowhere
  <2> QED BY <2>2, <2>3, <2>4, <2>5 DEF IInv
<1>2. IInv /\ [Next]_vars => IInv'
  <2> SUFFICES ASSUME IInv, [Next]_vars PROVE IInv'
    OBVIOUS
  <2>1. ASSUME NEW r \in Local, RcptMailbox(r) \/ AddRecipient(r) PROVE IInv'
    BY <2>1, RcptMailboxStep, AddRecipientStep
  <2>2. ASSUME NEW f \in Forward, RcptForward(f) PROVE IInv'
    BY <2>2, RcptForwardStep
  <2>3. CASE UNCHANGED vars
    <3>1. Committing' /\ Known'
      BY <2>3, NothingCommitted DEF vars, IInv, TypeOK
    <3>2. TypeOK' /\ Recipients' /\ AllUp' /\ EnoughGroups' /\ Announced'
      BY <2>3 DEF vars, IInv, TypeOK, Recipients, AllUp, EnoughGroups, Servers, Stores, Announced
    <3>3. RefusedStuck' /\ CommittedOnce'
      BY <2>3 DEF vars, IInv, RefusedStuck, CommittedOnce, Stores
    <3> QED BY <3>1, <3>2, <3>3 DEF IInv, Committing
  <2> QED BY <2>1, <2>2, <2>3, MailFromStep, RsetStep, DataStep, OpenStorageStep,
             QuotaUnknownStep, AllAnnouncedStep, StartDataStep, AddLineStep,
             TooLargeStep, MsgDoneStep DEF Next
<1> QED BY <1>1, <1>2, PTL DEF Spec

\* The session, its talkers and what was stored keep their types.
THEOREM TypeCorrect == Spec => []TypeOK
<1>1. IInv => TypeOK
  BY DEF IInv
<1> QED BY <1>1, Invariance, PTL

\* 250 to a message without forwards means a copy in each of Redundancy groups, for
\* each of its mailboxes, whatever failed and however often DATA was retried.
THEOREM AcceptedRedundantly == Spec => []RedundantUnlessForwarded
<1>1. IInv => RedundantUnlessForwarded
  BY DEF IInv
<1> QED BY <1>1, Invariance, PTL

\* 250 to the data covers every recipient: each mailbox has a copy and each forward
\* was taken by the sender.
THEOREM AcceptedForAll == Spec => []EveryRecipientServed
<1>1. IInv => EveryRecipientServed
  BY DEF IInv
<1> QED BY <1>1, Invariance, PTL

\* A message answered 552 is stored nowhere and sent nowhere.
THEOREM RefusedNowhere == Spec => []RejectedNowhere
<1>1. IInv => RejectedNowhere
  BY DEF IInv
<1> QED BY <1>1, Invariance, PTL

=============================================================================
