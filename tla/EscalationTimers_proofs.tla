----------------------- MODULE EscalationTimers_proofs -----------------------
(***************************************************************************)
(* Proofs about EscalationTimers, for every number of incidents, policies, *)
(* overlapping polls and faults: its inductive invariant IInv, the safety  *)
(* properties that follow from it, and that the timers implement           *)
(* EscalationContract.                                                     *)
(***************************************************************************)
EXTENDS EscalationTimers, FiniteSetTheorems, Queues_proofs

-----------------------------------------------------------------------------
(* Data *)

\* A list of n members of a set.
LEMMA ListIsSeq ==
    ASSUME NEW S, NEW T, T \subseteq S, NEW n \in Nat, NEW s \in [1..n -> T]
    PROVE  s \in Seq(S) /\ Len(s) = n
<1>1. s \in Seq(S)
  BY SMT
<1>2. QED
  BY <1>1, LenProperties

\* A policy that was accepted has a first level, and each of its levels a time.
LEMMA AcceptedLevels ==
    ASSUME NEW p, Accepts(LevelsOf[p])
    PROVE  /\ Len(LevelsOf[p]) \in 1..10 /\ 0 \in 0..(Len(LevelsOf[p]) - 1)
           /\ \A k \in 0..(Len(LevelsOf[p]) - 1) : LevelAt(p, k).after \in Nat \ {0}
<1>1. Len(LevelsOf[p]) \in 1..10
  BY DEF Accepts
<1>2. PICK n : n = Len(LevelsOf[p])
  OBVIOUS
<1>3. 0 \in 0..(Len(LevelsOf[p]) - 1)
  <2>1. n \in 1..10
    BY <1>1, <1>2
  <2>2. 0 \in 0..(n - 1)
    BY <2>1
  <2>3. QED
    BY <1>2, <2>2
<1>4. \A k \in 0..(Len(LevelsOf[p]) - 1) : LevelAt(p, k).after \in Nat \ {0}
  BY DEF Accepts, ValidLevel, LevelAt
<1>5. QED
  BY <1>1, <1>3, <1>4, Zenon

\* The distance between two places of such a list.
LEMMA Distance ==
    ASSUME NEW n \in 1..10, NEW j \in 1..n, NEW k \in 1..n, j < k
    PROVE  k - j \in 1..9 /\ j + (k - j) = k
OBVIOUS

\* In a list of ten numbers at most each of which is above the one before it, any two are
\* ordered: one distance after the other.
LEMMA NeighboursOrdered ==
    ASSUME NEW n \in 1..10, NEW t \in [1..n -> Int],
           \A k \in 2..n : t[k] > t[k - 1],
           NEW j \in 1..n, NEW k \in 1..n, j < k
    PROVE  t[j] < t[k]
<1> DEFINE Apart(d) == \A x \in 1..n : x + d <= n => t[x] < t[x + d]
<1>1. Apart(1)
  <2>1. ASSUME NEW x \in 1..n, x + 1 <= n
        PROVE  t[x] < t[x + 1]
    <3>1. x + 1 \in 2..n /\ (x + 1) - 1 = x /\ x + 1 \in 1..n
      BY <2>1
    <3>2. t[x + 1] > t[x]
      BY <3>1
    <3>3. QED
      BY <3>1, <3>2
  <2>2. QED
    BY <2>1
<1>2. ASSUME NEW d \in 1..8, Apart(d)
      PROVE  Apart(d + 1)
  <2>1. ASSUME NEW x \in 1..n, x + (d + 1) <= n
        PROVE  t[x] < t[x + (d + 1)]
    <3>1. /\ x + d \in 1..n /\ x + d <= n /\ (x + d) + 1 <= n /\ (x + d) + 1 = x + (d + 1)
          /\ x + (d + 1) \in 1..n
      BY <2>1
    <3>2. t[x] < t[x + d] /\ t[x + d] < t[x + (d + 1)]
      BY <1>1, <1>2, <3>1
    <3>3. t[x] \in Int /\ t[x + d] \in Int /\ t[x + (d + 1)] \in Int
      BY <3>1
    <3>4. QED
      BY <3>2, <3>3
  <2>2. QED
    BY <2>1
<1>3. \A d \in 1..9 : Apart(d)
  <2> HIDE DEF Apart
  <2>1. Apart(2) BY <1>1, <1>2
  <2>2. Apart(3) BY <1>2, <2>1
  <2>3. Apart(4) BY <1>2, <2>2
  <2>4. Apart(5) BY <1>2, <2>3
  <2>5. Apart(6) BY <1>2, <2>4
  <2>6. Apart(7) BY <1>2, <2>5
  <2>7. Apart(8) BY <1>2, <2>6
  <2>8. Apart(9) BY <1>2, <2>7
  <2>9. \A d \in 1..9 : d = 1 \/ d = 2 \/ d = 3 \/ d = 4 \/ d = 5 \/ d = 6 \/ d = 7 \/ d = 8 \/ d = 9
    OBVIOUS
  <2>10. QED
    BY <1>1, <2>9, <2>1, <2>2, <2>3, <2>4, <2>5, <2>6, <2>7, <2>8
<1>4. k - j \in 1..9 /\ j + (k - j) = k
  BY Distance
<1>5. Apart(k - j)
  <2> HIDE DEF Apart
  <2>1. QED
    BY <1>3, <1>4
<1>6. j + (k - j) <= n => t[j] < t[j + (k - j)]
  BY <1>5
<1>7. QED
  BY <1>4, <1>6

\* A level of a policy that was accepted has a time, and it is above that of the one before.
LEMMA AcceptedLevel ==
    ASSUME NEW levels, Accepts(levels), NEW x \in 1..Len(levels)
    PROVE  levels[x].after \in Nat \ {0}
BY DEF Accepts, ValidLevel

LEMMA AcceptedStep ==
    ASSUME NEW levels, Accepts(levels), NEW x \in 2..Len(levels)
    PROVE  levels[x].after > levels[x - 1].after
<1>1. Ascending(levels)
  BY DEF Accepts
<1>2. QED
  BY <1>1, Zenon DEF Ascending

LEMMA TimesOf ==
    ASSUME NEW levels, NEW n \in 1..10, NEW t, t = [x \in 1..n |-> levels[x].after],
           \A x \in 1..n : levels[x].after \in Nat \ {0}
    PROVE  t \in [1..n -> Int] /\ \A x \in 1..n : t[x] = levels[x].after
OBVIOUS

LEMMA LevelsIncreaseTo ==
    ASSUME NEW levels, Accepts(levels), NEW n \in 1..10, n = Len(levels),
           NEW j \in 1..n, NEW k \in 1..n, j < k
    PROVE  levels[j].after < levels[k].after
<1>1. PICK t : t = [x \in 1..n |-> levels[x].after]
  OBVIOUS
<1>2. t \in [1..n -> Int] /\ \A x \in 1..n : t[x] = levels[x].after
  <2>1. \A x \in 1..n : levels[x].after \in Nat \ {0}
    BY AcceptedLevel
  <2>2. QED
    BY <1>1, <2>1, TimesOf
<1>3. ASSUME NEW x \in 2..n
      PROVE  t[x] > t[x - 1]
  <2>1. x \in 1..n /\ x - 1 \in 1..n
    OBVIOUS
  <2>2. levels[x].after > levels[x - 1].after
    BY AcceptedStep
  <2>3. t[x] = levels[x].after /\ t[x - 1] = levels[x - 1].after
    BY <1>2, <2>1
  <2>4. QED
    BY <2>2, <2>3
<1>4. t[j] < t[k]
  BY <1>2, <1>3, NeighboursOrdered
<1>5. QED
  BY <1>2, <1>4

\* The code compares neighbours only; any two levels of an accepted policy are ordered.
LEMMA AcceptedIncrease ==
    ASSUME NEW p, Accepts(LevelsOf[p]),
           NEW j \in 1..Len(LevelsOf[p]), NEW k \in 1..Len(LevelsOf[p]), j < k
    PROVE  LevelsOf[p][j].after < LevelsOf[p][k].after
<1>1. Len(LevelsOf[p]) \in 1..10
  BY AcceptedLevels
<1>2. QED
  BY <1>1, LevelsIncreaseTo

\* In a policy that was accepted no level comes before the first.
LEMMA FirstIsEarliest ==
    ASSUME NEW p, Accepts(LevelsOf[p]), NEW k \in 0..(Len(LevelsOf[p]) - 1)
    PROVE  LevelAt(p, 0).after <= LevelAt(p, k).after
<1> DEFINE a == LevelAt(p, 0).after
           b == LevelAt(p, k).after
<1>1. a \in Nat \ {0} /\ b \in Nat \ {0}
  <2>1. a \in Nat \ {0}
    BY AcceptedLevels
  <2>2. b \in Nat \ {0}
    BY AcceptedLevels
  <2>3. QED
    BY <2>1, <2>2
<1>2. k = 0 => a <= b
  <2>1. k = 0 => a = b
    OBVIOUS
  <2> HIDE DEF a, b
  <2>2. QED
    BY <1>1, <2>1
<1>3. k > 0 => a <= b
  <2> SUFFICES ASSUME k > 0
               PROVE  a <= b
    OBVIOUS
  <2>1. 1 \in 1..Len(LevelsOf[p]) /\ k + 1 \in 1..Len(LevelsOf[p]) /\ 1 < k + 1
    BY AcceptedLevels
  <2>2. LevelsOf[p][1].after < LevelsOf[p][k + 1].after
    BY <2>1, AcceptedIncrease
  <2>3. a = LevelsOf[p][1].after /\ b = LevelsOf[p][k + 1].after
    BY DEF LevelAt
  <2>4. a < b
    BY <2>2, <2>3
  <2> HIDE DEF a, b
  <2>5. QED
    BY <1>1, <2>4
<1>4. QED
  BY <1>2, <1>3

-----------------------------------------------------------------------------
(* Types *)

EngineOK == /\ now \in 0..MaxTime
            /\ history \in [Incidents -> Seq(0..MaxTime)]
            /\ unsent \subseteq Event
            /\ policies \subseteq Policies
            /\ notified \in [Incidents -> SUBSET Told]
            /\ entries \in [Incidents -> SUBSET Nat]
            /\ faults \subseteq FaultKinds

RedisOK == /\ hash \in [Incidents -> Hash]
           /\ timers \in [Incidents -> Nat]

ConsumersOK == /\ stream \in Seq(Event)
               /\ batch \in [Consumers -> Seq(Event)]
               /\ chosen \in [Consumers -> Policies \cup {0}]
               /\ cpc \in [Consumers -> {"idle", "handle", "store", "arm", "disarm", "ack"}]
               /\ \A c \in Consumers : (cpc[c] = "idle") = (batch[c] = << >>)

PollersOK == /\ due \in [Pollers -> Seq(Incidents)]
             /\ seen \in [Pollers -> Hash]
             /\ qpc \in [Pollers -> {"idle", "read", "policy", "post", "advance", "schedule",
                                     "expire", "remove"}]
             /\ \A q \in Pollers : (qpc[q] = "idle") = (due[q] = << >>)

LEMMA TypeParts == /\ TypeOK <=> EngineOK /\ RedisOK /\ ConsumersOK /\ PollersOK
                   /\ TypeOK' <=> EngineOK' /\ RedisOK' /\ ConsumersOK' /\ PollersOK'
  BY DEF TypeOK, EngineOK, RedisOK, ConsumersOK, PollersOK

\* The conjuncts of the inductive invariant.
Armed == \A c \in Consumers : cpc[c] \in {"store", "arm"} =>
                                 Current(c).type = "declared" /\ chosen[c] \in policies
Stored == \A p \in policies : Accepts(LevelsOf[p])
Known  == \A i \in Incidents : Untouched(i)
Sound  == \A i \in Incidents : Grounded(hash[i], i)
Timed  == \A i \in Incidents : timers[i] # 0 => Ripe(i, timers[i])
Polled == \A q \in Pollers : Reading(q)

LEMMA InvParts ==
    /\ IInv <=> /\ TypeOK /\ Placed /\ Stored /\ Armed /\ Known /\ Sound /\ Timed /\ Polled
                /\ FirstLevelWhenDue
    /\ IInv' <=> /\ TypeOK' /\ Placed' /\ Stored' /\ Armed' /\ Known' /\ Sound' /\ Timed' /\ Polled'
                 /\ FirstLevelWhenDue'
  BY DEF IInv, Stored, Armed, Known, Sound, Timed, Polled

\* The event a consumer is at.
LEMMA AtEvent ==
    ASSUME ConsumersOK, NEW c \in Consumers, cpc[c] # "idle"
    PROVE  /\ batch[c] \in Seq(Event) /\ batch[c] # << >> /\ Len(batch[c]) \in Nat \ {0}
           /\ Current(c) = batch[c][1] /\ Current(c) \in Event
           /\ Tail(batch[c]) \in Seq(Event) /\ Len(Tail(batch[c])) = Len(batch[c]) - 1
           /\ \A k \in 1..(Len(batch[c]) - 1) : Tail(batch[c])[k] = batch[c][k + 1]
<1>1. batch[c] \in Seq(Event) /\ batch[c] # << >>
  BY DEF ConsumersOK
<1>2. QED
  BY <1>1, DropFirst DEF Current

\* The incident a poller is at.
LEMMA AtDue ==
    ASSUME PollersOK, NEW q \in Pollers, qpc[q] # "idle"
    PROVE  /\ due[q] \in Seq(Incidents) /\ due[q] # << >> /\ Len(due[q]) \in Nat \ {0}
           /\ At(q) = due[q][1] /\ At(q) \in Incidents
           /\ Tail(due[q]) \in Seq(Incidents) /\ Len(Tail(due[q])) = Len(due[q]) - 1
           /\ \A k \in 1..(Len(due[q]) - 1) : Tail(due[q])[k] = due[q][k + 1]
<1>1. due[q] \in Seq(Incidents) /\ due[q] # << >>
  BY DEF PollersOK
<1>2. QED
  BY <1>1, DropFirst DEF At

\* A queue whose first element is done with is empty when that was its last.
LEMMA EndOfQueue ==
    ASSUME NEW S, NEW s \in Seq(S), s # << >>
    PROVE  (Tail(s) = << >>) = (Len(s) = 1)
<1>1. Len(s) \in Nat \ {0} /\ Tail(s) \in Seq(S) /\ Len(Tail(s)) = Len(s) - 1
  BY DropFirst
<1>2. Tail(s) = << >> <=> Len(Tail(s)) = 0
  BY <1>1, EmptySeq
<1>3. QED
  BY <1>1, <1>2

LEMMA MomentIsNat ==
    ASSUME NEW p, Accepts(LevelsOf[p]), NEW k \in 0..(Len(LevelsOf[p]) - 1), NEW n \in Nat
    PROVE  n + LevelAt(p, k).after \in Nat \ {0}
<1> DEFINE a == LevelAt(p, k).after
<1>1. a \in Nat \ {0}
  BY AcceptedLevels
<1>2. n + a \in Nat \ {0}
  <2> HIDE DEF a
  <2>1. QED
    BY <1>1
<1>3. QED
  BY <1>2

LEMMA FirstMoment ==
    ASSUME NEW p, Accepts(LevelsOf[p]), NEW n \in Nat
    PROVE  n + LevelAt(p, 0).after \in Nat
<1> DEFINE a == LevelAt(p, 0).after
<1>1. a \in Nat \ {0}
  BY AcceptedLevels
<1>2. n + a \in Nat
  <2> HIDE DEF a
  <2>1. QED
    BY <1>1
<1>3. QED
  BY <1>2

LEMMA LaterMoment ==
    ASSUME NEW p, Accepts(LevelsOf[p]), NEW k \in 0..(Len(LevelsOf[p]) - 1), NEW n \in Nat
    PROVE  n + LevelAt(p, k).after >= n + LevelAt(p, 0).after
<1> DEFINE a == LevelAt(p, 0).after
           b == LevelAt(p, k).after
<1>1. a \in Nat \ {0}
  BY AcceptedLevels
<1>2. b \in Nat \ {0}
  BY AcceptedLevels
<1>3. a <= b
  BY FirstIsEarliest
<1>4. n + b >= n + a
  <2> HIDE DEF a, b
  <2>1. QED
    BY <1>1, <1>2, <1>3
<1>5. QED
  BY <1>4

LEMMA EngineTypes ==
    ASSUME IInv, \/ Tick \/ Publish \/ PublishFails
                 \/ \E i \in Incidents : Declare(i) \/ ChangeStatus(i)
                 \/ \E p \in Policies : StorePolicy(p)
    PROVE  TypeOK'
<1>1. EngineOK /\ RedisOK /\ ConsumersOK /\ PollersOK
  BY InvParts, TypeParts
<1>2. ASSUME Tick
      PROVE  TypeOK'
  <2>1. now' \in 0..MaxTime
    BY <1>1, <1>2, EscalationAssumption DEF EngineOK, Tick
  <2>2. EngineOK' /\ RedisOK' /\ ConsumersOK' /\ PollersOK'
    BY <1>1, <1>2, <2>1 DEF EngineOK, RedisOK, ConsumersOK, PollersOK, Tick, consumer, poller, told
  <2>3. QED
    BY <2>2, TypeParts
<1>3. ASSUME Publish
      PROVE  TypeOK'
  <2>1. PICK e \in unsent : unsent' = unsent \ {e} /\ stream' = Append(stream, e)
    BY <1>3 DEF Publish
  <2>2. e \in Event /\ stream \in Seq(Event)
    BY <1>1, <2>1 DEF EngineOK, ConsumersOK
  <2>3. stream' \in Seq(Event)
    BY <2>1, <2>2, AppendOne
  <2>4. EngineOK' /\ RedisOK' /\ ConsumersOK' /\ PollersOK'
    BY <1>1, <1>3, <2>1, <2>3 DEF EngineOK, RedisOK, ConsumersOK, PollersOK, Publish, consumer, poller, told
  <2>5. QED
    BY <2>4, TypeParts
<1>4. ASSUME PublishFails
      PROVE  TypeOK'
  <2>1. unsent' \subseteq unsent /\ faults' \subseteq FaultKinds
    BY <1>1, <1>4 DEF PublishFails, Fault, EngineOK
  <2>2. EngineOK' /\ RedisOK' /\ ConsumersOK' /\ PollersOK'
    BY <1>1, <1>4, <2>1 DEF EngineOK, RedisOK, ConsumersOK, PollersOK, PublishFails, consumer, poller, told
  <2>3. QED
    BY <2>2, TypeParts
<1>5. ASSUME NEW i \in Incidents, Declare(i) \/ ChangeStatus(i)
      PROVE  TypeOK'
  <2>1. PICK type \in {"declared", "status_changed"} : Happens(i, type)
    BY <1>5 DEF Declare, ChangeStatus
  <2>2. now \in Nat /\ now \in 0..MaxTime /\ history[i] \in Seq(0..MaxTime)
    BY <1>1, EscalationAssumption DEF EngineOK
  <2>3. Append(history[i], now) \in Seq(0..MaxTime)
    BY <2>2, AppendOne
  <2>4. history' \in [Incidents -> Seq(0..MaxTime)]
    BY <1>1, <2>1, <2>3 DEF Happens, EngineOK
  <2>5. unsent' \subseteq Event
    BY <1>1, <2>1, <2>2 DEF Happens, EngineOK, Event
  <2>6. EngineOK' /\ RedisOK' /\ ConsumersOK' /\ PollersOK'
    BY <1>1, <2>1, <2>4, <2>5 DEF EngineOK, RedisOK, ConsumersOK, PollersOK, Happens, consumer, poller, told
  <2>7. QED
    BY <2>6, TypeParts
<1>6. ASSUME NEW p \in Policies, StorePolicy(p)
      PROVE  TypeOK'
  <2>1. EngineOK' /\ RedisOK' /\ ConsumersOK' /\ PollersOK'
    BY <1>1, <1>6 DEF EngineOK, RedisOK, ConsumersOK, PollersOK, StorePolicy, engine, consumer, poller, told
  <2>2. QED
    BY <2>1, TypeParts
<1>7. QED
  BY <1>2, <1>3, <1>4, <1>5, <1>6

LEMMA ConsumerTypes ==
    ASSUME IInv, NEW c \in Consumers, ConsumerStep(c) \/ ConsumerStops(c)
    PROVE  TypeOK'
<1>1. EngineOK /\ RedisOK /\ ConsumersOK /\ PollersOK /\ Armed /\ Stored
  BY InvParts, TypeParts
<1>2. ASSUME Consume(c)
      PROVE  TypeOK'
  <2>1. PICK n : /\ n = IF Len(stream) < BatchMax THEN Len(stream) ELSE BatchMax
                 /\ batch' = [batch EXCEPT ![c] = SubSeq(stream, 1, n)]
                 /\ stream' = SubSeq(stream, n + 1, Len(stream))
    BY <1>2 DEF Consume
  <2>2. stream \in Seq(Event) /\ Len(stream) \in Nat \ {0}
    BY <1>1, <1>2, EmptySeq DEF Consume, ConsumersOK
  <2>3. n \in 1..Len(stream)
    BY <2>1, <2>2, EscalationAssumption
  <2>4. /\ SubSeq(stream, 1, n) \in Seq(Event) /\ Len(SubSeq(stream, 1, n)) = n
        /\ stream' \in Seq(Event)
    BY <2>1, <2>2, <2>3, ReadPrefix
  <2>5. SubSeq(stream, 1, n) # << >>
    BY <2>3, <2>4, EmptySeq
  <2>6. ConsumersOK'
    <3>1. cpc' = [cpc EXCEPT ![c] = "handle"] /\ chosen' = chosen
      BY <1>2 DEF Consume, GotoC, told
    <3>2. QED
      BY <1>1, <2>1, <2>4, <2>5, <3>1 DEF ConsumersOK
  <2>7. QED
    BY <1>1, <1>2, <2>6, TypeParts DEF Consume, EngineOK, RedisOK, PollersOK, engine, poller, told
<1>3. ASSUME FindPolicy(c)
      PROVE  TypeOK'
  <2>1. \E p \in Policies \cup {0}, label \in {"store", "ack"} :
           /\ chosen' = [chosen EXCEPT ![c] = p]
           /\ GotoC(c, label)
    <3>1. chosen' = chosen => chosen' = [chosen EXCEPT ![c] = chosen[c]] /\ chosen[c] \in Policies \cup {0}
      BY <1>1 DEF ConsumersOK
    <3>2. QED
      BY <1>1, <1>3, <3>1 DEF FindPolicy, EngineOK
  <2>2. cpc[c] # "idle" /\ faults' \subseteq FaultKinds
    BY <1>1, <1>3 DEF FindPolicy, Fault, EngineOK
  <2>3. ConsumersOK'
    BY <1>1, <1>3, <2>1, <2>2 DEF FindPolicy, GotoC, ConsumersOK
  <2>4. QED
    BY <1>1, <1>3, <2>2, <2>3, TypeParts DEF FindPolicy, EngineOK, RedisOK, PollersOK, engine, poller, told
<1>4. ASSUME StoreState(c)
      PROVE  TypeOK'
  <2>1. Current(c) \in Event /\ chosen[c] \in Policies
    BY <1>1, <1>4, AtEvent DEF StoreState, Armed, EngineOK
  <2>2. [policy |-> chosen[c], level |-> 0, since |-> Current(c).at, active |-> TRUE] \in Hash
    BY <2>1 DEF Hash, Event
  <2>3. RedisOK'
    BY <1>1, <1>4, <2>2 DEF StoreState, RedisOK
  <2>4. ConsumersOK'
    BY <1>1, <1>4 DEF StoreState, GotoC, ConsumersOK
  <2>5. QED
    BY <1>1, <1>4, <2>3, <2>4, TypeParts DEF StoreState, EngineOK, PollersOK, engine, poller, told
<1>5. ASSUME Arm(c)
      PROVE  TypeOK'
  <2>1. Current(c) \in Event
    BY <1>1, <1>5, AtEvent DEF Arm
  <2>2. PICK p : p = chosen[c] /\ Accepts(LevelsOf[p])
    BY <1>1, <1>5 DEF Arm, Armed, Stored
  <2>3. 0 \in 0..(Len(LevelsOf[p]) - 1) /\ Current(c).at \in Nat
    <3>1. Current(c).at \in Nat
      BY <2>1 DEF Event
    <3>2. 0 \in 0..(Len(LevelsOf[p]) - 1)
      BY <2>2, AcceptedLevels
    <3>3. QED
      BY <3>1, <3>2
  <2>4. Current(c).at + LevelAt(p, 0).after \in Nat
    BY <2>2, <2>3, MomentIsNat
  <2>5. RedisOK'
    BY <1>1, <1>5, <2>2, <2>4 DEF Arm, RedisOK
  <2>6. ConsumersOK'
    BY <1>1, <1>5 DEF Arm, GotoC, ConsumersOK
  <2>7. QED
    BY <1>1, <1>5, <2>5, <2>6, TypeParts DEF Arm, EngineOK, PollersOK, engine, poller, told
<1>6. ASSUME DropState(c) \/ Disarm(c)
      PROVE  TypeOK'
  <2>1. NoHash \in Hash
    BY DEF NoHash, Hash
  <2>2. RedisOK'
    BY <1>1, <1>6, <2>1 DEF DropState, Disarm, RedisOK
  <2>3. cpc[c] # "idle" /\ cpc' \in {[cpc EXCEPT ![c] = "disarm"], [cpc EXCEPT ![c] = "ack"]}
    BY <1>6 DEF DropState, Disarm, GotoC
  <2>4. ConsumersOK'
    <3>1. UNCHANGED <<stream, batch, chosen>>
      BY <1>6 DEF DropState, Disarm
    <3>2. QED
      BY <1>1, <2>3, <3>1 DEF ConsumersOK
  <2>5. QED
    BY <1>1, <1>6, <2>2, <2>4, TypeParts DEF DropState, Disarm, EngineOK, PollersOK, engine, poller, told
<1>7. ASSUME Ack(c)
      PROVE  TypeOK'
  <2>1. /\ batch[c] \in Seq(Event) /\ batch[c] # << >> /\ Tail(batch[c]) \in Seq(Event)
    BY <1>1, <1>7, AtEvent DEF Ack
  <2>2. (Tail(batch[c]) = << >>) = (Len(batch[c]) = 1)
    BY <2>1, EndOfQueue
  <2>3. ConsumersOK'
    BY <1>1, <1>7, <2>1, <2>2 DEF Ack, GotoC, ConsumersOK
  <2>4. QED
    BY <1>1, <1>7, <2>3, TypeParts DEF Ack, EngineOK, RedisOK, PollersOK, engine, poller, told
<1>8. ASSUME ConsumerStops(c)
      PROVE  TypeOK'
  <2>1. << >> \in Seq(Event)
    BY EmptySeq
  <2>2. ConsumersOK' /\ faults' \subseteq FaultKinds
    BY <1>1, <1>8, <2>1 DEF ConsumerStops, Fault, GotoC, ConsumersOK, EngineOK
  <2>3. QED
    BY <1>1, <1>8, <2>2, TypeParts DEF ConsumerStops, EngineOK, RedisOK, PollersOK, engine, poller, told
<1>9. QED
  BY <1>2, <1>3, <1>4, <1>5, <1>6, <1>7, <1>8 DEF ConsumerStep

\* What a poller has read of a live escalation is within its policy.
LEMMA AtLevel ==
    ASSUME IInv, NEW q \in Pollers,
           qpc[q] \in {"policy", "post", "advance", "schedule", "expire"}
    PROVE  /\ seen[q].policy \in policies /\ seen[q].policy # 0 /\ seen[q].active
           /\ Accepts(LevelsOf[seen[q].policy])
           /\ seen[q].level \in 0..(Len(LevelsOf[seen[q].policy]) - 1)
           /\ seen[q].since = Head(history[At(q)]) /\ seen[q].since \in Nat
<1>1. EngineOK /\ PollersOK /\ Stored /\ Polled
  BY InvParts, TypeParts
<1>2. seen[q] \in Hash /\ seen[q].policy # 0 /\ seen[q].active /\ Grounded(seen[q], At(q))
  BY <1>1 DEF Polled, Reading, Live, PollersOK
<1>3. /\ seen[q].policy \in policies /\ seen[q].since = Head(history[At(q)])
      /\ seen[q].level < Len(LevelsOf[seen[q].policy])
  BY <1>2 DEF Grounded
<1>4. Accepts(LevelsOf[seen[q].policy]) /\ Len(LevelsOf[seen[q].policy]) \in 1..10
  BY <1>1, <1>3, AcceptedLevels DEF Stored
<1>5. seen[q].level \in Nat /\ seen[q].since \in Nat
  BY <1>2 DEF Hash
<1>6. QED
  BY <1>2, <1>3, <1>4, <1>5

LEMMA PollerTypes ==
    ASSUME IInv, NEW q \in Pollers, PollerStep(q) \/ LookupFails(q) \/ PollerStops(q)
    PROVE  TypeOK'
<1>1. EngineOK /\ RedisOK /\ ConsumersOK /\ PollersOK
  BY InvParts, TypeParts
<1>2. ASSUME Poll(q)
      PROVE  TypeOK'
  <2>1. PICK s \in [1..Cardinality(Expired) -> Expired] :
           /\ \A i \in Expired : \E k \in DOMAIN s : s[k] = i
           /\ due' = [due EXCEPT ![q] = s]
    BY <1>2 DEF Poll
  <2>2. Expired \subseteq Incidents /\ Cardinality(Expired) \in Nat
    <3>1. Expired \subseteq Incidents
      BY DEF Expired
    <3>2. IsFiniteSet(Expired)
      BY <3>1, EscalationAssumption, FS_Subset
    <3>3. QED
      BY <3>1, <3>2, FS_CardinalityType
  <2>3. s \in Seq(Incidents) /\ Len(s) = Cardinality(Expired)
    BY <2>1, <2>2, ListIsSeq
  <2>4. s # << >>
    <3>1. PICK i \in Expired, k \in 1..Cardinality(Expired) : s[k] = i
      BY <1>2, <2>1 DEF Poll
    <3>2. Len(s) # 0
      BY <2>2, <2>3, <3>1
    <3>3. QED
      BY <3>2, EmptySeq
  <2>5. PollersOK'
    BY <1>1, <1>2, <2>1, <2>3, <2>4 DEF Poll, GotoQ, PollersOK
  <2>6. QED
    BY <1>1, <1>2, <2>5, TypeParts DEF Poll, EngineOK, RedisOK, ConsumersOK, engine, consumer, told
<1>3. ASSUME ReadState(q)
      PROVE  TypeOK'
  <2>1. hash[At(q)] \in Hash
    BY <1>1, <1>3, AtDue DEF ReadState, RedisOK
  <2>2. PollersOK'
    BY <1>1, <1>3, <2>1 DEF ReadState, GotoQ, PollersOK
  <2>3. QED
    BY <1>1, <1>3, <2>2, TypeParts DEF ReadState, EngineOK, RedisOK, ConsumersOK, engine, consumer, told
<1>4. ASSUME Notify(q)
      PROVE  TypeOK'
  <2>1. [level |-> seen[q].level, at |-> now] \in Told /\ At(q) \in Incidents
    BY <1>1, <1>4, AtDue, EscalationAssumption DEF Notify, PollersOK, EngineOK, Hash, Told
  <2>2. notified' \in [Incidents -> SUBSET Told]
    BY <1>1, <1>4, <2>1 DEF Notify, EngineOK
  <2>3. PollersOK'
    BY <1>1, <1>4 DEF Notify, GotoQ, PollersOK
  <2>4. QED
    BY <1>1, <1>4, <2>2, <2>3, TypeParts DEF Notify, EngineOK, RedisOK, ConsumersOK, engine, consumer
<1>5. ASSUME LookupFails(q)
      PROVE  TypeOK'
  <2>1. PollersOK' /\ faults' \subseteq FaultKinds
    BY <1>1, <1>5 DEF LookupFails, Fault, GotoQ, PollersOK, EngineOK
  <2>2. QED
    BY <1>1, <1>5, <2>1, TypeParts DEF LookupFails, EngineOK, RedisOK, ConsumersOK, engine, consumer, told
<1>6. ASSUME PostEntry(q)
      PROVE  TypeOK'
  <2>1. seen[q].level \in Nat
    BY <1>1 DEF PollersOK, Hash
  <2>2. entries' \in [Incidents -> SUBSET Nat] /\ faults' \subseteq FaultKinds
    BY <1>1, <1>6, <2>1 DEF PostEntry, Fault, EngineOK
  <2>3. PollersOK'
    BY <1>1, <1>6 DEF PostEntry, GotoQ, PollersOK
  <2>4. QED
    BY <1>1, <1>6, <2>2, <2>3, TypeParts DEF PostEntry, EngineOK, RedisOK, ConsumersOK, engine, consumer
<1>7. ASSUME Advance(q)
      PROVE  TypeOK'
  <2>1. NextLevel(q) \in Nat /\ hash[At(q)] \in Hash /\ At(q) \in Incidents
    BY <1>1, <1>7, AtDue DEF Advance, NextLevel, PollersOK, RedisOK, Hash
  <2>2. [hash[At(q)] EXCEPT !.level = NextLevel(q), !.active = hash[At(q)].active /\ ~IsLast(q)] \in Hash
    BY <2>1 DEF Hash
  <2>3. RedisOK'
    BY <1>1, <1>7, <2>1, <2>2 DEF Advance, RedisOK, Hash
  <2>4. PollersOK'
    BY <1>1, <1>7 DEF Advance, GotoQ, PollersOK
  <2>5. QED
    BY <1>1, <1>7, <2>3, <2>4, TypeParts DEF Advance, EngineOK, ConsumersOK, engine, consumer, told
<1>8. ASSUME Schedule(q)
      PROVE  TypeOK'
  <2>1. qpc[q] = "schedule" /\ qpc[q] # "idle"
    BY <1>8 DEF Schedule
  <2>2. NextLevel(q) \in 0..(Len(LevelsOf[seen[q].policy]) - 1)
    <3>1. ~IsLast(q)
      BY <2>1, InvParts DEF Polled, Reading
    <3>2. seen[q].level \in Nat /\ Len(LevelsOf[seen[q].policy]) \in Nat
      BY <2>1, AtLevel, AcceptedLevels
    <3>3. QED
      BY <3>1, <3>2 DEF IsLast, NextLevel
  <2>3. seen[q].since + LevelAt(seen[q].policy, NextLevel(q)).after \in Nat
    BY <2>1, <2>2, AtLevel, MomentIsNat
  <2>4. RedisOK'
    BY <1>1, <1>8, <2>3 DEF Schedule, RedisOK
  <2>5. due[q] \in Seq(Incidents) /\ due[q] # << >> /\ Tail(due[q]) \in Seq(Incidents)
    BY <1>1, <2>1, AtDue
  <2>6. (Tail(due[q]) = << >>) = (Len(due[q]) = 1) /\ NoHash \in Hash
    BY <2>5, EndOfQueue DEF NoHash, Hash
  <2>7. PollersOK'
    BY <1>1, <1>8, <2>5, <2>6 DEF Schedule, NextDue, GotoQ, PollersOK
  <2>8. QED
    BY <1>1, <1>8, <2>4, <2>7, TypeParts DEF Schedule, EngineOK, ConsumersOK, engine, consumer, told
<1>9. ASSUME Expire(q)
      PROVE  TypeOK'
  <2>1. hash[At(q)] \in Hash /\ At(q) \in Incidents
    BY <1>1, <1>9, AtDue DEF Expire, RedisOK
  <2>2. RedisOK'
    BY <1>1, <1>9, <2>1 DEF Expire, RedisOK, Hash
  <2>3. PollersOK'
    BY <1>1, <1>9 DEF Expire, GotoQ, PollersOK
  <2>4. QED
    BY <1>1, <1>9, <2>2, <2>3, TypeParts DEF Expire, EngineOK, ConsumersOK, engine, consumer, told
<1>10. ASSUME DropTimer(q)
       PROVE  TypeOK'
  <2>1. due[q] \in Seq(Incidents) /\ due[q] # << >> /\ Tail(due[q]) \in Seq(Incidents)
    BY <1>1, <1>10, AtDue DEF DropTimer
  <2>2. (Tail(due[q]) = << >>) = (Len(due[q]) = 1) /\ NoHash \in Hash
    BY <2>1, EndOfQueue DEF NoHash, Hash
  <2>3. RedisOK' /\ PollersOK'
    BY <1>1, <1>10, <2>1, <2>2 DEF DropTimer, NextDue, GotoQ, PollersOK, RedisOK
  <2>4. QED
    BY <1>1, <1>10, <2>3, TypeParts DEF DropTimer, EngineOK, ConsumersOK, engine, consumer, told
<1>11. ASSUME PollerStops(q)
       PROVE  TypeOK'
  <2>1. << >> \in Seq(Incidents) /\ NoHash \in Hash
    BY EmptySeq DEF NoHash, Hash
  <2>2. PollersOK' /\ faults' \subseteq FaultKinds
    BY <1>1, <1>11, <2>1 DEF PollerStops, Fault, GotoQ, PollersOK, EngineOK
  <2>3. QED
    BY <1>1, <1>11, <2>2, TypeParts DEF PollerStops, EngineOK, RedisOK, ConsumersOK, engine, consumer, told
<1>12. QED
  BY <1>2, <1>3, <1>4, <1>5, <1>6, <1>7, <1>8, <1>9, <1>10, <1>11 DEF PollerStep

-----------------------------------------------------------------------------
(* What no step undoes, and where the declarations are *)

\* Time goes on; policies, histories and what was told only grow.
Onward == /\ now <= now' /\ policies \subseteq policies'
          /\ \A i \in Incidents :
                /\ notified[i] \subseteq notified'[i]
                /\ history[i] # << >> => history'[i] # << >> /\ Head(history'[i]) = Head(history[i])

LEMMA HeadStays ==
    ASSUME NEW S, NEW s \in Seq(S), NEW x \in S
    PROVE  /\ Append(s, x) # << >>
           /\ s # << >> => Head(Append(s, x)) = Head(s)
           /\ s = << >> => Head(Append(s, x)) = x
<1>1. /\ Append(s, x) \in Seq(S) /\ Len(s) \in Nat /\ Len(Append(s, x)) = Len(s) + 1
      /\ \A j \in 1..Len(s) : Append(s, x)[j] = s[j]
      /\ Append(s, x)[Len(s) + 1] = x
  BY AppendOne
<1>2. Append(s, x) # << >> /\ Head(Append(s, x)) = Append(s, x)[1]
  <2>1. Len(Append(s, x)) # 0
    BY <1>1
  <2>2. Append(s, x) # << >>
    BY <2>1, EmptySeq
  <2>3. QED
    BY <1>1, <2>2, DropFirst
<1>3. s # << >> => Head(Append(s, x)) = Head(s)
  <2>1. s # << >> => 1 \in 1..Len(s) /\ Head(s) = s[1]
    BY DropFirst
  <2>2. QED
    BY <1>1, <1>2, <2>1
<1>4. s = << >> => Head(Append(s, x)) = x
  <2>1. s = << >> => Len(s) = 0
    BY EmptySeq
  <2>2. QED
    BY <1>1, <1>2, <2>1
<1>5. QED
  BY <1>2, <1>3, <1>4

LEMMA GoesOn ==
    ASSUME IInv, [Next]_vars
    PROVE  Onward
<1>1. EngineOK /\ PollersOK
  BY InvParts, TypeParts
<1>2. now \in Nat /\ \A i \in Incidents : history[i] \in Seq(0..MaxTime)
  BY <1>1, EscalationAssumption DEF EngineOK
<1>3. UNCHANGED <<now, policies, history, notified>> => Onward
  BY <1>2 DEF Onward
<1>4. ASSUME Tick
      PROVE  Onward
  BY <1>2, <1>4 DEF Tick, Onward, told
<1>5. ASSUME NEW i \in Incidents, Declare(i) \/ ChangeStatus(i)
      PROVE  Onward
  <2>1. /\ history' = [history EXCEPT ![i] = Append(history[i], now)]
        /\ UNCHANGED <<now, policies, notified>>
    BY <1>5 DEF Declare, ChangeStatus, Happens, told
  <2>2. now \in 0..MaxTime
    BY <1>1 DEF EngineOK
  <2>3. ASSUME NEW j \in Incidents, history[j] # << >>
        PROVE  history'[j] # << >> /\ Head(history'[j]) = Head(history[j])
    <3>1. history'[j] \in {history[j], Append(history[j], now)}
      BY <1>1, <2>1 DEF EngineOK
    <3>2. /\ Append(history[j], now) # << >>
          /\ Head(Append(history[j], now)) = Head(history[j])
      BY <1>2, <2>2, <2>3, HeadStays
    <3>3. QED
      BY <2>3, <3>1, <3>2
  <2>4. QED
    BY <1>2, <2>1, <2>3 DEF Onward
<1>6. ASSUME NEW p \in Policies, StorePolicy(p)
      PROVE  Onward
  BY <1>2, <1>6 DEF StorePolicy, engine, told, Onward
<1>7. ASSUME Publish \/ PublishFails
      PROVE  Onward
  BY <1>3, <1>7 DEF Publish, PublishFails, told
<1>8. ASSUME NEW c \in Consumers, ConsumerStep(c) \/ ConsumerStops(c)
      PROVE  Onward
  BY <1>3, <1>8 DEF ConsumerStep, Consume, FindPolicy, StoreState, Arm, DropState, Disarm, Ack,
     ConsumerStops, engine, told
<1>9. ASSUME NEW q \in Pollers, PollerStep(q) \/ LookupFails(q) \/ PollerStops(q)
      PROVE  Onward
  <2>1. CASE Notify(q)
    BY <1>1, <1>2, <2>1 DEF Notify, engine, Onward, EngineOK
  <2>2. CASE ~Notify(q)
    BY <1>3, <1>9, <2>2 DEF PollerStep, Poll, ReadState, PostEntry, Advance, Schedule, Expire,
       DropTimer, LookupFails, PollerStops, engine, told
  <2>3. QED
    BY <2>1, <2>2
<1>10. CASE UNCHANGED vars
  BY <1>3, <1>10 DEF vars, engine, told
<1>11. QED
  BY <1>4, <1>5, <1>6, <1>7, <1>8, <1>9, <1>10 DEF Next

\* Two declarations of one incident are one event.
LEMMA SameDeclaration ==
    ASSUME NEW e \in Event, NEW f \in Event, Recorded(e), Recorded(f),
           NEW i, Declares(e, i), Declares(f, i)
    PROVE  e = f
  BY DEF Recorded, Declares, Event

LEMMA Located ==
    ASSUME TypeOK
    PROVE  /\ unsent \subseteq Event
           /\ \A j \in 1..Len(stream) : stream[j] \in Event
           /\ \A c \in Consumers : \A j \in 1..Len(batch[c]) : batch[c][j] \in Event
<1>1. unsent \subseteq Event /\ stream \in Seq(Event) /\ \A c \in Consumers : batch[c] \in Seq(Event)
  BY DEF TypeOK
<1>2. QED
  BY <1>1, ElementOfSeq

\* The declaration a consumer is at is nowhere else.
LEMMA OnlyHere ==
    ASSUME IInv, NEW c \in Consumers, cpc[c] # "idle", Current(c).type = "declared",
           NEW i, i = Current(c).incident
    PROVE  /\ i \in Incidents /\ history[i] # << >> /\ Current(c).at = Head(history[i])
           /\ \A e \in unsent : ~Declares(e, i)
           /\ \A k \in 1..Len(stream) : ~Declares(stream[k], i)
           /\ \A d \in Consumers : \A k \in 1..Len(batch[d]) :
                 Declares(batch[d][k], i) => d = c /\ k = 1
<1>1. ConsumersOK /\ TypeOK /\ Placed
  BY InvParts, TypeParts
<1>2. /\ 1 \in 1..Len(batch[c]) /\ batch[c][1] = Current(c) /\ Current(c) \in Event
      /\ Declares(batch[c][1], i)
  BY <1>1, AtEvent DEF Declares
<1>3. Recorded(batch[c][1])
  BY <1>1, <1>2 DEF Placed
<1>4. i \in Incidents /\ history[i] # << >> /\ Current(c).at = Head(history[i])
  BY <1>2, <1>3 DEF Recorded, Declares, Event
<1>5. ASSUME NEW e \in unsent, Declares(e, i)
      PROVE  FALSE
  <2>1. e \in Event /\ Recorded(e)
    BY <1>1, Located DEF Placed
  <2>2. e = batch[c][1]
    BY <1>2, <1>3, <1>5, <2>1, SameDeclaration
  <2>3. QED
    BY <1>1, <1>2, <2>2 DEF Placed, Declares
<1>6. ASSUME NEW k \in 1..Len(stream), Declares(stream[k], i)
      PROVE  FALSE
  <2>1. stream[k] \in Event /\ Recorded(stream[k])
    BY <1>1, Located DEF Placed
  <2>2. stream[k] = batch[c][1]
    BY <1>2, <1>3, <1>6, <2>1, SameDeclaration
  <2>3. QED
    BY <1>1, <1>2, <1>6, <2>2 DEF Placed, Declares
<1>7. ASSUME NEW d \in Consumers, NEW k \in 1..Len(batch[d]), Declares(batch[d][k], i)
      PROVE  d = c /\ k = 1
  <2>1. batch[d][k] \in Event /\ Recorded(batch[d][k])
    BY <1>1, Located DEF Placed
  <2>2. batch[d][k] = batch[c][1]
    BY <1>2, <1>3, <1>7, <2>1, SameDeclaration
  <2>3. QED
    BY <1>1, <1>2, <2>2 DEF Placed, Declares
<1>8. QED
  BY <1>4, <1>5, <1>6, <1>7

LEMMA HappensPlaces ==
    ASSUME IInv, [Next]_vars, NEW i \in Incidents, Declare(i) \/ ChangeStatus(i)
    PROVE  Placed'
<1>1. EngineOK /\ TypeOK /\ Placed /\ Onward
  BY InvParts, TypeParts, GoesOn
<1>2. PICK e \in Event :
         /\ e.incident = i /\ e.at = now
         /\ e.type = "declared" => history[i] = << >>
         /\ history' = [history EXCEPT ![i] = Append(history[i], now)]
         /\ unsent' = unsent \cup {e}
         /\ UNCHANGED <<stream, batch>>
  <2>1. PICK type \in {"declared", "status_changed"} :
           Happens(i, type) /\ (type = "declared" => history[i] = << >>)
    BY DEF Declare, ChangeStatus
  <2>2. now \in Nat
    BY <1>1, EscalationAssumption DEF EngineOK
  <2>3. [type |-> type, incident |-> i, at |-> now] \in Event
    BY <2>2 DEF Event
  <2>4. QED
    BY <2>1, <2>3 DEF Happens, consumer
<1>3. \A f \in Event : Recorded(f) /\ f.type = "declared" =>
         f # e /\ history'[f.incident] # << >> /\ f.at = Head(history'[f.incident])
  BY <1>1, <1>2 DEF Recorded, Onward, Event
<1>4. e.type = "declared" => history'[i] # << >> /\ e.at = Head(history'[i])
  <2>1. now \in 0..MaxTime /\ history[i] \in Seq(0..MaxTime)
    BY <1>1 DEF EngineOK
  <2>2. history'[i] = Append(history[i], now)
    BY <1>1, <1>2 DEF EngineOK
  <2>3. history'[i] # << >> /\ (history[i] = << >> => Head(history'[i]) = now)
    BY <2>1, <2>2, HeadStays
  <2>4. QED
    BY <1>2, <2>3
<1>5. \A f \in unsent' : Recorded(f)'
  BY <1>1, <1>2, <1>3, <1>4, Located DEF Placed, Recorded
<1>6. ASSUME NEW j \in 1..Len(stream)
      PROVE  /\ Recorded(stream[j])'
             /\ stream[j].type = "declared" => stream[j] \notin unsent'
  BY <1>1, <1>2, <1>3, Located DEF Placed, Recorded
<1>7. ASSUME NEW c \in Consumers, NEW j \in 1..Len(batch[c])
      PROVE  /\ Recorded(batch[c][j])'
             /\ batch[c][j].type = "declared" => batch[c][j] \notin unsent'
  <2>1. PICK f : f = batch[c][j]
    OBVIOUS
  <2>2. f \in Event /\ Recorded(f) /\ (f.type = "declared" => f \notin unsent)
    BY <1>1, <2>1, Located DEF Placed
  <2>3. Recorded(f)' /\ (f.type = "declared" => f \notin unsent')
    BY <1>2, <1>3, <2>2 DEF Recorded
  <2>4. QED
    BY <1>2, <2>1, <2>3 DEF Recorded
<1>8. stream' = stream /\ batch' = batch
  BY <1>2
<1>9. /\ \A j \in 1..Len(stream) : stream[j].type = "declared" =>
            /\ \A k \in 1..Len(stream) : stream[k] = stream[j] => k = j
            /\ \A c \in Consumers : \A k \in 1..Len(batch[c]) : batch[c][k] # stream[j]
      /\ \A c \in Consumers : \A j \in 1..Len(batch[c]) : batch[c][j].type = "declared" =>
            \A d \in Consumers : \A k \in 1..Len(batch[d]) : batch[d][k] = batch[c][j] => d = c /\ k = j
  BY <1>1 DEF Placed
<1>10. QED
  BY <1>5, <1>6, <1>7, <1>8, <1>9 DEF Placed

LEMMA PublishPlaces ==
    ASSUME IInv, Publish
    PROVE  Placed'
<1>1. ConsumersOK /\ TypeOK /\ Placed
  BY InvParts, TypeParts
<1>2. PICK e \in unsent : /\ unsent' = unsent \ {e} /\ stream' = Append(stream, e)
                          /\ UNCHANGED <<history, batch>>
  BY DEF Publish, consumer
<1>3. /\ Len(stream) \in Nat /\ Len(stream') = Len(stream) + 1
      /\ \A j \in 1..Len(stream) : stream'[j] = stream[j]
      /\ stream'[Len(stream) + 1] = e
  <2>1. stream \in Seq(Event) /\ e \in Event
    BY <1>1, <1>2, Located DEF ConsumersOK
  <2>2. QED
    BY <1>2, <2>1, AppendOne
<1>4. \A j \in 1..Len(stream') : j \in 1..Len(stream) \/ (j = Len(stream) + 1 /\ stream'[j] = e)
  BY <1>3
<1>5. \A f \in unsent' : Recorded(f)'
  BY <1>1, <1>2 DEF Placed, Recorded
<1>6. ASSUME NEW j \in 1..Len(stream')
      PROVE  /\ Recorded(stream[j])'
             /\ stream'[j].type = "declared" =>
                   /\ stream'[j] \notin unsent'
                   /\ \A k \in 1..Len(stream') : stream'[k] = stream'[j] => k = j
                   /\ \A c \in Consumers : \A k \in 1..Len(batch[c]) : batch[c][k] # stream'[j]
  <2>1. CASE j \in 1..Len(stream)
    <3>1. stream'[j] = stream[j] /\ Recorded(stream[j])
      BY <1>1, <1>3, <2>1 DEF Placed
    <3>2. Recorded(stream[j])'
      BY <1>2, <3>1 DEF Recorded
    <3>3. stream[j].type = "declared" =>
             /\ stream[j] \notin unsent
             /\ \A k \in 1..Len(stream) : stream[k] = stream[j] => k = j
             /\ \A c \in Consumers : \A k \in 1..Len(batch[c]) : batch[c][k] # stream[j]
      BY <1>1, <2>1 DEF Placed
    <3>4. QED
      BY <1>2, <1>3, <1>4, <3>1, <3>2, <3>3
  <2>2. CASE j = Len(stream) + 1 /\ stream'[j] = e
    <3>1. Recorded(stream[j])'
      BY <1>1, <1>2, <2>2 DEF Placed, Recorded
    <3>2. e.type = "declared" =>
             /\ \A k \in 1..Len(stream) : stream[k] # e
             /\ \A c \in Consumers : \A k \in 1..Len(batch[c]) : batch[c][k] # e
      BY <1>1, <1>2 DEF Placed
    <3>3. QED
      BY <1>2, <1>3, <1>4, <2>2, <3>1, <3>2
  <2>3. QED
    BY <1>4, <2>1, <2>2
<1>7. ASSUME NEW c \in Consumers, NEW j \in 1..Len(batch[c])
      PROVE  /\ Recorded(batch[c][j])'
             /\ batch[c][j].type = "declared" => batch[c][j] \notin unsent'
  BY <1>1, <1>2 DEF Placed, Recorded
<1>8. QED
  BY <1>1, <1>2, <1>5, <1>6, <1>7 DEF Placed

LEMMA ConsumePlaces ==
    ASSUME IInv, NEW c \in Consumers, Consume(c)
    PROVE  Placed'
<1>1. ConsumersOK /\ TypeOK /\ Placed
  BY InvParts, TypeParts
<1>2. UNCHANGED <<history, unsent>> /\ batch[c] = << >> /\ stream # << >>
  BY <1>1 DEF Consume, engine, ConsumersOK
<1>3. PICK n : /\ n = IF Len(stream) < BatchMax THEN Len(stream) ELSE BatchMax
               /\ batch' = [batch EXCEPT ![c] = SubSeq(stream, 1, n)]
               /\ stream' = SubSeq(stream, n + 1, Len(stream))
  BY DEF Consume
<1>4. stream \in Seq(Event) /\ Len(stream) \in Nat \ {0}
  BY <1>1, <1>2, EmptySeq DEF ConsumersOK
<1>5. n \in 1..Len(stream)
  BY <1>3, <1>4, EscalationAssumption
<1>6. /\ Len(batch'[c]) = n /\ \A j \in 1..n : batch'[c][j] = stream[j]
      /\ Len(stream') = Len(stream) - n
      /\ \A j \in 1..(Len(stream) - n) : stream'[j] = stream[n + j]
      /\ \A d \in Consumers : d # c => batch'[d] = batch[d]
  <2>1. batch'[c] = SubSeq(stream, 1, n) /\ \A d \in Consumers : d # c => batch'[d] = batch[d]
    BY <1>1, <1>3 DEF ConsumersOK
  <2>2. QED
    BY <1>3, <1>4, <1>5, <2>1, ReadPrefix
<1>7. \A f \in unsent' : Recorded(f)'
  BY <1>1, <1>2 DEF Placed, Recorded
<1>8. \A j \in 1..Len(stream) :
         /\ stream[j].type = "declared" =>
               history'[stream[j].incident] # << >> /\ stream[j].at = Head(history'[stream[j].incident])
         /\ stream[j].type = "declared" =>
               /\ stream[j] \notin unsent'
               /\ \A k \in 1..Len(stream) : stream[k] = stream[j] => k = j
               /\ \A d \in Consumers : \A k \in 1..Len(batch[d]) : batch[d][k] # stream[j]
  BY <1>1, <1>2 DEF Placed, Recorded
<1>9. \A d \in Consumers : \A j \in 1..Len(batch[d]) :
         /\ batch[d][j].type = "declared" =>
               history'[batch[d][j].incident] # << >> /\ batch[d][j].at = Head(history'[batch[d][j].incident])
         /\ batch[d][j].type = "declared" =>
               /\ batch[d][j] \notin unsent'
               /\ \A b \in Consumers : \A k \in 1..Len(batch[b]) :
                     batch[b][k] = batch[d][j] => b = d /\ k = j
  BY <1>1, <1>2 DEF Placed, Recorded
<1>10. ASSUME NEW j \in 1..Len(stream')
       PROVE  /\ Recorded(stream[j])'
              /\ stream'[j].type = "declared" =>
                    /\ stream'[j] \notin unsent'
                    /\ \A k \in 1..Len(stream') : stream'[k] = stream'[j] => k = j
                    /\ \A d \in Consumers : \A k \in 1..Len(batch'[d]) : batch'[d][k] # stream'[j]
  <2>1. PICK x \in 1..Len(stream) : x = n + j /\ stream'[j] = stream[x]
    BY <1>4, <1>5, <1>6
  <2>2. Recorded(stream[j])'
    BY <1>8, <2>1 DEF Recorded
  <2>3. ASSUME stream[x].type = "declared", NEW k \in 1..Len(stream'), stream'[k] = stream'[j]
        PROVE  k = j
    <3>1. n + k \in 1..Len(stream) /\ stream'[k] = stream[n + k]
      BY <1>4, <1>5, <1>6
    <3>2. n + k = n + j
      BY <1>8, <2>1, <2>3, <3>1
    <3>3. QED
      BY <1>4, <1>5, <1>6, <3>2
  <2>4. ASSUME stream[x].type = "declared", NEW d \in Consumers, NEW k \in 1..Len(batch'[d]),
               batch'[d][k] = stream'[j]
        PROVE  FALSE
    <3>1. CASE d = c
      <4>1. k \in 1..Len(stream) /\ k <= n /\ batch'[d][k] = stream[k]
        BY <1>4, <1>5, <1>6, <3>1
      <4>2. k = n + j
        BY <1>8, <2>1, <2>4, <4>1
      <4>3. QED
        BY <1>4, <1>5, <1>6, <4>1, <4>2
    <3>2. CASE d # c
      BY <1>6, <1>8, <2>1, <2>4, <3>2
    <3>3. QED
      BY <3>1, <3>2
  <2>5. QED
    BY <1>8, <2>1, <2>2, <2>3, <2>4
<1>11. ASSUME NEW d \in Consumers, NEW j \in 1..Len(batch'[d])
       PROVE  /\ Recorded(batch[d][j])'
              /\ batch'[d][j].type = "declared" =>
                    /\ batch'[d][j] \notin unsent'
                    /\ \A b \in Consumers : \A k \in 1..Len(batch'[b]) :
                          batch'[b][k] = batch'[d][j] => b = d /\ k = j
  <2>1. CASE d = c
    <3>1. j \in 1..Len(stream) /\ j \in 1..n /\ batch'[d][j] = stream[j]
      BY <1>4, <1>5, <1>6, <2>1
    <3>2. Recorded(batch[d][j])'
      BY <1>8, <3>1 DEF Recorded
    <3>3. ASSUME stream[j].type = "declared", NEW b \in Consumers, NEW k \in 1..Len(batch'[b]),
                 batch'[b][k] = batch'[d][j]
          PROVE  b = d /\ k = j
      <4>1. CASE b = c
        <5>1. k \in 1..Len(stream) /\ batch'[b][k] = stream[k]
          BY <1>4, <1>5, <1>6, <4>1
        <5>2. QED
          BY <1>8, <2>1, <3>1, <3>3, <4>1, <5>1
      <4>2. CASE b # c
        <5>1. k \in 1..Len(batch[b]) /\ batch[b][k] = stream[j]
          BY <1>6, <3>1, <3>3, <4>2
        <5>2. QED
          BY <1>8, <3>1, <3>3, <5>1
      <4>3. QED
        BY <4>1, <4>2
    <3>4. QED
      BY <1>8, <3>1, <3>2, <3>3
  <2>2. CASE d # c
    <3>1. j \in 1..Len(batch[d]) /\ batch'[d][j] = batch[d][j]
      BY <1>6, <2>2
    <3>2. Recorded(batch[d][j])'
      BY <1>9, <3>1 DEF Recorded
    <3>3. ASSUME batch[d][j].type = "declared", NEW b \in Consumers, NEW k \in 1..Len(batch'[b]),
                 batch'[b][k] = batch'[d][j]
          PROVE  b = d /\ k = j
      <4>1. CASE b = c
        <5>1. k \in 1..Len(stream) /\ batch'[b][k] = stream[k]
          BY <1>4, <1>5, <1>6, <4>1
        <5>2. stream[k] = batch[d][j] /\ stream[k].type = "declared"
          BY <3>1, <3>3, <5>1
        <5>3. QED
          BY <1>8, <3>1, <5>1, <5>2
      <4>2. CASE b # c
        BY <1>6, <1>9, <3>1, <3>3, <4>2
      <4>3. QED
        BY <4>1, <4>2
    <3>4. QED
      BY <1>9, <3>1, <3>2, <3>3
  <2>3. QED
    BY <2>1, <2>2
<1>12. QED
  BY <1>7, <1>10, <1>11 DEF Placed

\* A consumer that is done with an event, or with its batch.
LEMMA FinishPlaces ==
    ASSUME IInv, NEW c \in Consumers, Ack(c) \/ ConsumerStops(c)
    PROVE  Placed'
<1>1. ConsumersOK /\ TypeOK /\ Placed
  BY InvParts, TypeParts
<1>2. UNCHANGED <<history, unsent, stream>> /\ cpc[c] # "idle"
  BY DEF Ack, ConsumerStops, engine
<1>3. PICK n \in {0, 1} :
         /\ \A d \in Consumers : d # c => batch'[d] = batch[d]
         /\ \A j \in 1..Len(batch'[c]) : j + n \in 1..Len(batch[c]) /\ batch'[c][j] = batch[c][j + n]
  <2>1. CASE Ack(c)
    <3>1. batch' = [batch EXCEPT ![c] = Tail(batch[c])]
      BY <2>1 DEF Ack
    <3>2. /\ Len(batch[c]) \in Nat \ {0} /\ Len(batch'[c]) = Len(batch[c]) - 1
          /\ \A j \in 1..(Len(batch[c]) - 1) : batch'[c][j] = batch[c][j + 1]
          /\ \A d \in Consumers : d # c => batch'[d] = batch[d]
      BY <1>1, <1>2, <3>1, AtEvent DEF ConsumersOK
    <3>3. \A j \in 1..Len(batch'[c]) : j + 1 \in 1..Len(batch[c]) /\ batch'[c][j] = batch[c][j + 1]
      BY <3>2
    <3>4. QED
      BY <3>2, <3>3
  <2>2. CASE ConsumerStops(c)
    <3>1. batch'[c] = << >> /\ \A d \in Consumers : d # c => batch'[d] = batch[d]
      BY <1>1, <2>2 DEF ConsumerStops, ConsumersOK
    <3>2. Len(batch'[c]) = 0
      BY <3>1, EmptySeq
    <3>3. QED
      BY <3>1, <3>2
  <2>3. QED
    BY <2>1, <2>2
<1>4. ASSUME NEW d \in Consumers, NEW j \in 1..Len(batch'[d])
      PROVE  \E x \in 1..Len(batch[d]) :
                batch'[d][j] = batch[d][x] /\ x = IF d = c THEN j + n ELSE j
  BY <1>3
<1>5. \A f \in unsent' : Recorded(f)'
  BY <1>1, <1>2 DEF Placed, Recorded
<1>6. ASSUME NEW j \in 1..Len(stream)
      PROVE  /\ Recorded(stream[j])'
             /\ stream[j].type = "declared" =>
                   /\ stream[j] \notin unsent'
                   /\ \A k \in 1..Len(stream) : stream[k] = stream[j] => k = j
                   /\ \A d \in Consumers : \A k \in 1..Len(batch'[d]) : batch'[d][k] # stream[j]
  <2>1. Recorded(stream[j])'
    BY <1>1, <1>2 DEF Placed, Recorded
  <2>2. QED
    BY <1>1, <1>2, <1>4, <2>1 DEF Placed
<1>7. ASSUME NEW d \in Consumers, NEW j \in 1..Len(batch'[d])
      PROVE  /\ Recorded(batch[d][j])'
             /\ batch'[d][j].type = "declared" =>
                   /\ batch'[d][j] \notin unsent'
                   /\ \A b \in Consumers : \A k \in 1..Len(batch'[b]) :
                         batch'[b][k] = batch'[d][j] => b = d /\ k = j
  <2>1. PICK x \in 1..Len(batch[d]) : batch'[d][j] = batch[d][x] /\ x = IF d = c THEN j + n ELSE j
    BY <1>4
  <2>2. Recorded(batch[d][j])'
    BY <1>1, <1>2, <2>1 DEF Placed, Recorded
  <2>3. batch[d][x].type = "declared" =>
           /\ batch[d][x] \notin unsent
           /\ \A b \in Consumers : \A k \in 1..Len(batch[b]) :
                 batch[b][k] = batch[d][x] => b = d /\ k = x
    BY <1>1 DEF Placed
  <2>4. ASSUME batch[d][x].type = "declared", NEW b \in Consumers, NEW k \in 1..Len(batch'[b]),
               batch'[b][k] = batch'[d][j]
        PROVE  b = d /\ k = j
    <3>1. PICK y \in 1..Len(batch[b]) : batch'[b][k] = batch[b][y] /\ y = IF b = c THEN k + n ELSE k
      BY <1>4
    <3>2. b = d /\ y = x
      BY <2>1, <2>3, <2>4, <3>1
    <3>3. QED
      BY <1>3, <2>1, <3>1, <3>2
  <2>5. QED
    BY <1>2, <2>1, <2>2, <2>3, <2>4
<1>8. QED
  BY <1>2, <1>5, <1>6, <1>7 DEF Placed

LEMMA PlacedKept ==
    ASSUME IInv, [Next]_vars
    PROVE  Placed'
<1>1. Placed
  BY InvParts
<1>2. UNCHANGED <<history, unsent, stream, batch>> => Placed'
  BY <1>1 DEF Placed, Recorded
<1>3. ASSUME PublishFails
      PROVE  Placed'
  BY <1>1, <1>3 DEF PublishFails, Placed, Recorded, consumer
<1>4. ASSUME NEW p \in Policies, StorePolicy(p)
      PROVE  Placed'
  BY <1>2, <1>4 DEF StorePolicy, engine, consumer
<1>5. ASSUME NEW c \in Consumers, ConsumerStep(c) \/ ConsumerStops(c)
      PROVE  Placed'
  BY <1>2, <1>5, ConsumePlaces, FinishPlaces
     DEF ConsumerStep, FindPolicy, StoreState, Arm, DropState, Disarm, engine
<1>6. ASSUME NEW q \in Pollers, PollerStep(q) \/ LookupFails(q) \/ PollerStops(q)
      PROVE  Placed'
  BY <1>2, <1>6 DEF PollerStep, Poll, ReadState, Notify, PostEntry, Advance, Schedule, Expire,
     DropTimer, LookupFails, PollerStops, engine, consumer
<1>7. Tick \/ UNCHANGED vars => Placed'
  BY <1>2 DEF Tick, consumer, vars, engine
<1>8. QED
  BY <1>3, <1>4, <1>5, <1>6, <1>7, HappensPlaces, PublishPlaces DEF Next

-----------------------------------------------------------------------------
(* The declarations on their way *)

\* Nothing can be said of a declaration before it was handled, so at whatever a poller is
\* its declaration was.
LEMMA AtKnown ==
    ASSUME IInv, NEW q \in Pollers, qpc[q] # "idle"
    PROVE  /\ At(q) \in Incidents /\ ~Awaited(At(q)) /\ history[At(q)] # << >>
           /\ Ripe(At(q), now)
<1>1. PollersOK /\ Known /\ Polled
  BY InvParts, TypeParts
<1>2. At(q) \in Incidents /\ At(q) = due[q][1] /\ 1 \in 1..Len(due[q])
  BY <1>1, AtDue
<1>3. ~Awaited(At(q))
  BY <1>1, <1>2 DEF Known, Untouched
<1>4. history[At(q)] # << >>
  BY <1>3 DEF Awaited
<1>5. Ripe(At(q), now)
  BY <1>1, <1>2 DEF Polled, Reading
<1>6. QED
  BY <1>2, <1>3, <1>4, <1>5

\* A declaration that is awaited was awaited before.
LEMMA AwaitedBefore ==
    ASSUME IInv, [Next]_vars, NEW i \in Incidents, Awaited(i)'
    PROVE  Awaited(i)
<1>1. EngineOK /\ ConsumersOK /\ PollersOK /\ Onward
  BY InvParts, TypeParts, GoesOn
<1>2. history'[i] = << >> => Awaited(i)
  BY <1>1 DEF Onward, Awaited
<1>3. ASSUME UNCHANGED <<stream, batch, cpc>>, unsent' \subseteq unsent
      PROVE  Awaited(i)
  BY <1>2, <1>3 DEF Awaited
<1>4. ASSUME NEW j \in Incidents, Declare(j) \/ ChangeStatus(j)
      PROVE  Awaited(i)
  <2>1. PICK e : /\ unsent' = unsent \cup {e} /\ UNCHANGED <<stream, batch, cpc>>
                 /\ e.incident = j /\ (e.type = "declared" => history[j] = << >>)
    <3>1. PICK type : Happens(j, type) /\ (type = "declared" => history[j] = << >>)
      BY <1>4 DEF Declare, ChangeStatus
    <3>2. PICK e : e = [type |-> type, incident |-> j, at |-> now]
      OBVIOUS
    <3>3. e.incident = j /\ e.type = type
      BY <3>2
    <3>4. unsent' = unsent \cup {e} /\ UNCHANGED <<stream, batch, cpc>>
      BY <3>1, <3>2 DEF Happens, consumer
    <3>5. QED
      BY <3>1, <3>3, <3>4
  <2>2. Declares(e, i) => Awaited(i)
    BY <2>1 DEF Declares, Awaited
  <2>3. QED
    BY <1>2, <2>1, <2>2 DEF Awaited
<1>5. ASSUME Publish
      PROVE  Awaited(i)
  <2>1. PICK e \in unsent : /\ unsent' = unsent \ {e} /\ stream' = Append(stream, e)
                            /\ UNCHANGED <<batch, cpc>>
    BY <1>5 DEF Publish, consumer
  <2>2. /\ Len(stream) \in Nat /\ Len(stream') = Len(stream) + 1
        /\ \A j \in 1..Len(stream) : stream'[j] = stream[j]
        /\ stream'[Len(stream) + 1] = e
    <3>1. stream \in Seq(Event) /\ e \in Event
      BY <1>1, <2>1 DEF ConsumersOK, EngineOK
    <3>2. QED
      BY <2>1, <3>1, AppendOne
  <2>3. \A k \in 1..Len(stream') :
           stream'[k] = e \/ \E j \in 1..Len(stream) : stream'[k] = stream[j]
    BY <2>2
  <2>4. QED
    BY <1>2, <2>1, <2>3 DEF Awaited
<1>6. ASSUME NEW c \in Consumers, Consume(c)
      PROVE  Awaited(i)
  <2>1. PICK n : /\ n = IF Len(stream) < BatchMax THEN Len(stream) ELSE BatchMax
                 /\ batch' = [batch EXCEPT ![c] = SubSeq(stream, 1, n)]
                 /\ stream' = SubSeq(stream, n + 1, Len(stream))
                 /\ cpc' = [cpc EXCEPT ![c] = "handle"]
                 /\ stream # << >> /\ unsent' = unsent
    BY <1>6 DEF Consume, GotoC, engine
  <2>2. stream \in Seq(Event) /\ Len(stream) \in Nat \ {0}
    BY <1>1, <2>1, EmptySeq DEF ConsumersOK
  <2>3. n \in 1..Len(stream)
    BY <2>1, <2>2, EscalationAssumption
  <2>4. /\ Len(batch'[c]) = n /\ \A j \in 1..n : batch'[c][j] = stream[j]
        /\ Len(stream') = Len(stream) - n
        /\ \A j \in 1..(Len(stream) - n) : stream'[j] = stream[n + j]
        /\ \A d \in Consumers : d # c => batch'[d] = batch[d] /\ cpc'[d] = cpc[d]
    <3>1. batch'[c] = SubSeq(stream, 1, n) /\ \A d \in Consumers : d # c => batch'[d] = batch[d] /\ cpc'[d] = cpc[d]
      BY <1>1, <2>1 DEF ConsumersOK
    <3>2. /\ Len(SubSeq(stream, 1, n)) = n /\ \A j \in 1..n : SubSeq(stream, 1, n)[j] = stream[j]
          /\ Len(stream') = Len(stream) - n
          /\ \A j \in 1..(Len(stream) - n) : stream'[j] = stream[n + j]
      <4>1. PICK s \in Seq(Event) : s = stream
        BY <2>2
      <4>2. n \in 1..Len(s)
        BY <2>3, <4>1
      <4>3. /\ Len(SubSeq(s, 1, n)) = n /\ \A j \in 1..n : SubSeq(s, 1, n)[j] = s[j]
            /\ Len(SubSeq(s, n + 1, Len(s))) = Len(s) - n
            /\ \A j \in 1..(Len(s) - n) : SubSeq(s, n + 1, Len(s))[j] = s[n + j]
        BY <4>2, ReadPrefix
      <4>4. stream' = SubSeq(s, n + 1, Len(s))
        BY <2>1, <4>1
      <4>5. QED
        BY <4>1, <4>3, <4>4
    <3>3. QED
      BY <3>1, <3>2
  <2>5. \A k \in 1..Len(stream') : \E j \in 1..Len(stream) : stream'[k] = stream[j]
    <3>1. ASSUME NEW k \in 1..Len(stream')
          PROVE  \E j \in 1..Len(stream) : stream'[k] = stream[j]
      <4>1. n + k \in 1..Len(stream) /\ stream'[k] = stream[n + k]
        BY <2>2, <2>3, <2>4
      <4>2. QED
        BY <4>1
    <3>2. QED
      BY <3>1
  <2>6. \A k \in 1..Len(batch'[c]) : \E j \in 1..Len(stream) : batch'[c][k] = stream[j]
    <3>1. n <= Len(stream)
      BY <2>2, <2>3
    <3>2. QED
      BY <2>2, <2>3, <2>4, <3>1
  <2>7. ASSUME NEW k \in 1..Len(stream), Declares(stream[k], i)
        PROVE  Awaited(i)
    BY <2>7 DEF Awaited
  <2>8. ASSUME NEW d \in Consumers, NEW k \in 1..Len(batch'[d]), Declares(batch'[d][k], i),
               k = 1 => cpc'[d] \in {"handle", "store"}
        PROVE  Awaited(i)
    <3>1. CASE d = c
      BY <2>6, <2>7, <2>8, <3>1
    <3>2. CASE d # c
      BY <2>4, <2>8, <3>2 DEF Awaited
    <3>3. QED
      BY <3>1, <3>2
  <2>9. (\E k \in 1..Len(stream') : Declares(stream'[k], i)) => Awaited(i)
    BY <2>5, <2>7
  <2>10. (\E e \in unsent' : Declares(e, i)) => Awaited(i)
    BY <2>1 DEF Awaited
  <2>11. QED
    BY <1>2, <2>8, <2>9, <2>10 DEF Awaited
<1>7. ASSUME NEW c \in Consumers, NEW label \in {"store", "arm", "disarm", "ack"},
             cpc' = [cpc EXCEPT ![c] = label], UNCHANGED <<unsent, stream, batch>>,
             label = "store" => cpc[c] = "handle"
      PROVE  Awaited(i)
  <2>1. \A d \in Consumers : cpc'[d] \in {"handle", "store"} => cpc[d] \in {"handle", "store"}
    BY <1>1, <1>7 DEF ConsumersOK
  <2>2. QED
    BY <1>2, <1>7, <2>1 DEF Awaited
<1>8. ASSUME NEW c \in Consumers, Ack(c)
      PROVE  Awaited(i)
  <2>1. /\ batch' = [batch EXCEPT ![c] = Tail(batch[c])] /\ UNCHANGED <<unsent, stream>>
        /\ \A d \in Consumers : d # c => cpc'[d] = cpc[d]
    BY <1>1, <1>8 DEF Ack, GotoC, engine, ConsumersOK
  <2>2. /\ Len(batch[c]) \in Nat \ {0} /\ Len(batch'[c]) = Len(batch[c]) - 1
        /\ \A j \in 1..(Len(batch[c]) - 1) : batch'[c][j] = batch[c][j + 1]
        /\ \A d \in Consumers : d # c => batch'[d] = batch[d]
    BY <1>1, <1>8, <2>1, AtEvent DEF Ack, ConsumersOK
  <2>3. \A k \in 1..Len(batch'[c]) : k + 1 \in 1..Len(batch[c]) /\ k + 1 # 1 /\ batch'[c][k] = batch[c][k + 1]
    BY <2>2
  <2>4. ASSUME NEW d \in Consumers, NEW k \in 1..Len(batch'[d]), Declares(batch'[d][k], i),
               k = 1 => cpc'[d] \in {"handle", "store"}
        PROVE  \E b \in Consumers : \E x \in 1..Len(batch[b]) :
                  Declares(batch[b][x], i) /\ (x = 1 => cpc[b] \in {"handle", "store"})
    <3>1. CASE d = c
      BY <2>3, <2>4, <3>1
    <3>2. CASE d # c
      BY <2>1, <2>2, <2>4, <3>2
    <3>3. QED
      BY <3>1, <3>2
  <2>5. QED
    BY <1>2, <2>1, <2>4 DEF Awaited
<1>9. ASSUME NEW c \in Consumers, ConsumerStops(c)
      PROVE  Awaited(i)
  <2>1. /\ batch'[c] = << >> /\ UNCHANGED <<unsent, stream>>
        /\ \A d \in Consumers : d # c => cpc'[d] = cpc[d] /\ batch'[d] = batch[d]
    BY <1>1, <1>9 DEF ConsumerStops, GotoC, engine, ConsumersOK
  <2>2. Len(batch'[c]) = 0
    BY <2>1, EmptySeq
  <2>3. \A d \in Consumers : \A k \in 1..Len(batch'[d]) : d # c
    BY <2>2
  <2>4. QED
    BY <1>2, <2>1, <2>3 DEF Awaited
<1>10. ASSUME NEW c \in Consumers, ConsumerStep(c) \/ ConsumerStops(c)
       PROVE  Awaited(i)
  <2>1. FindPolicy(c) => Awaited(i)
    BY <1>7 DEF FindPolicy, GotoC, engine
  <2>2. StoreState(c) \/ Arm(c) \/ DropState(c) \/ Disarm(c) => Awaited(i)
    BY <1>7 DEF StoreState, Arm, DropState, Disarm, GotoC, engine
  <2>3. QED
    BY <1>6, <1>8, <1>9, <1>10, <2>1, <2>2 DEF ConsumerStep
<1>11. ASSUME NEW q \in Pollers, PollerStep(q) \/ LookupFails(q) \/ PollerStops(q)
       PROVE  Awaited(i)
  BY <1>3, <1>11 DEF PollerStep, Poll, ReadState, Notify, PostEntry, Advance, Schedule, Expire,
     DropTimer, LookupFails, PollerStops, engine, consumer
<1>12. \/ Tick \/ PublishFails \/ (\E p \in Policies : StorePolicy(p)) \/ UNCHANGED vars
       => Awaited(i)
  BY <1>3 DEF Tick, PublishFails, StorePolicy, vars, engine, consumer
<1>13. QED
  BY <1>4, <1>5, <1>10, <1>11, <1>12 DEF Next

\* Once the state of an escalation is being written its declaration has arrived.
LEMMA Arrived ==
    ASSUME IInv, NEW c \in Consumers, StoreState(c) \/ Arm(c)
    PROVE  \E i \in Incidents :
              /\ i = Current(c).incident /\ Current(c).type = "declared"
              /\ Current(c).at = Head(history[i])
              /\ ~Awaited(i)'
              /\ IF Arm(c) THEN ~Awaited(i) ELSE Awaited(i)
<1>1. ConsumersOK /\ Armed
  BY InvParts, TypeParts
<1>2. PICK i : i = Current(c).incident
  OBVIOUS
<1>3. /\ cpc[c] # "idle" /\ Current(c).type = "declared"
      /\ UNCHANGED <<history, unsent, stream, batch>>
      /\ cpc'[c] \notin {"handle", "store"}
      /\ IF Arm(c) THEN cpc[c] \notin {"handle", "store"} ELSE cpc[c] \in {"handle", "store"}
  BY <1>1 DEF Armed, StoreState, Arm, GotoC, engine, ConsumersOK
<1>4. /\ i \in Incidents /\ history[i] # << >> /\ Current(c).at = Head(history[i])
      /\ \A e \in unsent : ~Declares(e, i)
      /\ \A k \in 1..Len(stream) : ~Declares(stream[k], i)
      /\ \A d \in Consumers : \A k \in 1..Len(batch[d]) :
            Declares(batch[d][k], i) => d = c /\ k = 1
  BY <1>2, <1>3, OnlyHere
<1>5. ~Awaited(i)' /\ (Arm(c) => ~Awaited(i))
  BY <1>3, <1>4 DEF Awaited
<1>6. ~Arm(c) => Awaited(i)
  <2>1. 1 \in 1..Len(batch[c]) /\ Declares(batch[c][1], i)
    BY <1>1, <1>2, <1>3, AtEvent DEF Declares
  <2>2. QED
    BY <1>3, <2>1 DEF Awaited
<1>7. QED
  BY <1>2, <1>3, <1>4, <1>5, <1>6

-----------------------------------------------------------------------------
(* What is known of an incident *)

\* The steps that change the hash or the timer of an incident, or what was told of it.
LEMMA PollersTouchOwn ==
    ASSUME IInv, NEW q \in Pollers, PollerStep(q) \/ LookupFails(q) \/ PollerStops(q),
           NEW i \in Incidents, i # At(q)
    PROVE  hash'[i] = hash[i] /\ timers'[i] = timers[i] /\ notified'[i] = notified[i]
<1>1. EngineOK /\ RedisOK
  BY InvParts, TypeParts
<1>2. Notify(q) => notified'[i] = notified[i] /\ UNCHANGED <<hash, timers>>
  BY <1>1 DEF Notify, EngineOK
<1>3. Advance(q) => hash'[i] = hash[i] /\ UNCHANGED <<timers, notified>>
  BY <1>1 DEF Advance, RedisOK, told
<1>4. Expire(q) => hash'[i] = hash[i] /\ UNCHANGED <<timers, notified>>
  BY <1>1 DEF Expire, RedisOK, told
<1>5. Schedule(q) \/ DropTimer(q) => timers'[i] = timers[i] /\ UNCHANGED <<hash, notified>>
  BY <1>1 DEF Schedule, DropTimer, RedisOK, told
<1>6. Poll(q) \/ ReadState(q) \/ PostEntry(q) \/ LookupFails(q) \/ PollerStops(q)
         => UNCHANGED <<hash, timers, notified>>
  BY DEF Poll, ReadState, PostEntry, LookupFails, PollerStops, told
<1>7. QED
  BY <1>2, <1>3, <1>4, <1>5, <1>6 DEF PollerStep

LEMMA OthersTouchNothing ==
    ASSUME \/ Tick \/ Publish \/ PublishFails \/ UNCHANGED vars
           \/ \E i \in Incidents : Declare(i) \/ ChangeStatus(i)
           \/ \E p \in Policies : StorePolicy(p)
           \/ \E c \in Consumers : Consume(c) \/ FindPolicy(c) \/ Ack(c) \/ ConsumerStops(c)
    PROVE  UNCHANGED <<hash, timers, notified, due, seen, qpc>>
  BY DEF Tick, Publish, PublishFails, vars, Declare, ChangeStatus, Happens, StorePolicy, Consume,
     FindPolicy, Ack, ConsumerStops, poller, told

\* What a poller finds expired or goes on with.
LEMMA DueBefore ==
    ASSUME IInv, NEW q \in Pollers, PollerStep(q) \/ LookupFails(q) \/ PollerStops(q),
           NEW r \in Pollers, NEW k \in 1..Len(due'[r])
    PROVE  \/ \E j \in 1..Len(due[r]) : due'[r][k] = due[r][j]
           \/ due'[r][k] \in Expired
<1>1. PollersOK
  BY InvParts, TypeParts
<1>2. CASE due' = due
  BY <1>2
<1>3. ASSUME NextDue(q), qpc[q] # "idle"
      PROVE  \E j \in 1..Len(due[r]) : due'[r][k] = due[r][j]
  <2>1. /\ Len(due[q]) \in Nat \ {0} /\ Len(due'[q]) = Len(due[q]) - 1
        /\ \A j \in 1..(Len(due[q]) - 1) : due'[q][j] = due[q][j + 1]
        /\ \A p \in Pollers : p # q => due'[p] = due[p]
    BY <1>1, <1>3, AtDue DEF NextDue, PollersOK
  <2>2. CASE r = q
    <3>1. k + 1 \in 1..Len(due[r]) /\ due'[r][k] = due[r][k + 1]
      BY <2>1, <2>2
    <3>2. QED
      BY <3>1
  <2>3. CASE r # q
    BY <2>1, <2>3
  <2>4. QED
    BY <2>2, <2>3
<1>4. ASSUME PollerStops(q)
      PROVE  \E j \in 1..Len(due[r]) : due'[r][k] = due[r][j]
  <2>1. due'[q] = << >> /\ \A p \in Pollers : p # q => due'[p] = due[p]
    BY <1>1, <1>4 DEF PollerStops, PollersOK
  <2>2. Len(due'[q]) = 0
    BY <2>1, EmptySeq
  <2>3. r # q
    BY <2>2
  <2>4. QED
    BY <2>1, <2>3
<1>5. ASSUME Poll(q)
      PROVE  \/ \E j \in 1..Len(due[r]) : due'[r][k] = due[r][j]
             \/ due'[r][k] \in Expired
  <2>1. PICK s \in [1..Cardinality(Expired) -> Expired] : due' = [due EXCEPT ![q] = s]
    BY <1>5 DEF Poll
  <2>2. Expired \subseteq Incidents /\ IsFiniteSet(Expired)
    <3>1. Expired \subseteq Incidents
      BY DEF Expired
    <3>2. QED
      BY <3>1, EscalationAssumption, FS_Subset
  <2>3. Cardinality(Expired) \in Nat
    BY <2>2, FS_CardinalityType
  <2>4. Len(s) = Cardinality(Expired)
    BY <2>1, <2>2, <2>3, ListIsSeq
  <2>5. due'[q] = s /\ \A p \in Pollers : p # q => due'[p] = due[p]
    BY <1>1, <2>1 DEF PollersOK
  <2>6. CASE r = q
    BY <2>1, <2>4, <2>5, <2>6
  <2>7. CASE r # q
    BY <2>5, <2>7
  <2>8. QED
    BY <2>6, <2>7
<1>6. ReadState(q) \/ Notify(q) \/ PostEntry(q) \/ Advance(q) \/ Expire(q) \/ LookupFails(q)
         => due' = due
  BY DEF ReadState, Notify, PostEntry, Advance, Expire, LookupFails
<1>7. Schedule(q) \/ DropTimer(q) => NextDue(q) /\ qpc[q] # "idle"
  BY DEF Schedule, DropTimer
<1>8. QED
  BY <1>2, <1>3, <1>4, <1>5, <1>6, <1>7 DEF PollerStep

LEMMA KnownKept ==
    ASSUME IInv, [Next]_vars
    PROVE  Known'
<1>1. RedisOK /\ PollersOK /\ Known
  BY InvParts, TypeParts
<1> SUFFICES ASSUME NEW i \in Incidents, Awaited(i)'
             PROVE  /\ hash'[i].policy = 0 /\ timers'[i] = 0 /\ notified'[i] = {}
                    /\ \A r \in Pollers : \A k \in 1..Len(due'[r]) : due'[r][k] # i
  BY DEF Known, Untouched
<1>2. /\ hash[i].policy = 0 /\ timers[i] = 0 /\ notified[i] = {}
      /\ \A r \in Pollers : \A k \in 1..Len(due[r]) : due[r][k] # i
      /\ Awaited(i)
  BY <1>1, AwaitedBefore DEF Known, Untouched
<1>3. CASE UNCHANGED <<hash, timers, notified, due>>
  BY <1>2, <1>3
<1>4. ASSUME NEW c \in Consumers, StoreState(c) \/ Arm(c)
      PROVE  UNCHANGED <<notified, due>> /\ hash'[i] = hash[i] /\ timers'[i] = timers[i]
  <2>1. i # Current(c).incident
    BY <1>4, Arrived
  <2>2. QED
    BY <1>1, <1>4, <2>1 DEF StoreState, Arm, RedisOK, poller, told
<1>5. ASSUME NEW c \in Consumers, DropState(c) \/ Disarm(c)
      PROVE  /\ UNCHANGED <<notified, due>>
             /\ hash'[i] \in {hash[i], NoHash} /\ timers'[i] \in {timers[i], 0}
  BY <1>1, <1>5 DEF DropState, Disarm, RedisOK, poller, told
<1>6. ASSUME NEW q \in Pollers, PollerStep(q) \/ LookupFails(q) \/ PollerStops(q)
      PROVE  /\ hash'[i].policy = 0 /\ timers'[i] = 0 /\ notified'[i] = {}
             /\ \A r \in Pollers : \A k \in 1..Len(due'[r]) : due'[r][k] # i
  <2>1. i \notin Expired
    BY <1>2 DEF Expired
  <2>2. \A r \in Pollers : \A k \in 1..Len(due'[r]) : due'[r][k] # i
    BY <1>2, <1>6, <2>1, DueBefore
  <2>3. hash'[i] = hash[i] /\ timers'[i] = timers[i] /\ notified'[i] = notified[i]
    <3>1. CASE qpc[q] = "idle"
      BY <1>6, <3>1 DEF PollerStep, Poll, ReadState, Notify, PostEntry, Advance, Schedule, Expire,
         DropTimer, LookupFails, PollerStops, told
    <3>2. CASE qpc[q] # "idle"
      BY <1>2, <1>6, <3>2, AtKnown, PollersTouchOwn
    <3>3. QED
      BY <3>1, <3>2
  <2>4. QED
    BY <1>2, <2>2, <2>3
<1>7. QED
  BY <1>2, <1>3, <1>4, <1>5, <1>6, OthersTouchNothing DEF Next, ConsumerStep, NoHash

\* Incidents about which something is known keep their declaration.
LEMMA Declared ==
    ASSUME IInv, [Next]_vars, NEW i \in Incidents,
           \/ hash[i].policy # 0 \/ timers[i] # 0 \/ notified[i] # {}
           \/ \E q \in Pollers : \E k \in 1..Len(due[q]) : due[q][k] = i
    PROVE  history[i] # << >> /\ Head(history'[i]) = Head(history[i])
<1>1. ~Awaited(i)
  BY InvParts DEF Known, Untouched
<1>2. QED
  BY <1>1, GoesOn DEF Awaited, Onward

LEMMA RipeKept ==
    ASSUME Onward, NEW i \in Incidents, history[i] # << >>, NEW m, Ripe(i, m)
    PROVE  \E p \in policies' : m >= Head(history'[i]) + LevelAt(p, 0).after
  BY DEF Ripe, Onward

LEMMA TimedKept ==
    ASSUME IInv, [Next]_vars
    PROVE  Timed'
<1>1. EngineOK /\ RedisOK /\ ConsumersOK /\ PollersOK /\ Timed /\ Onward /\ Armed /\ Stored
  BY InvParts, TypeParts, GoesOn
<1> SUFFICES ASSUME NEW i \in Incidents, timers'[i] # 0
             PROVE  Ripe(i, timers[i])'
  BY DEF Timed
<1>2. CASE timers'[i] = timers[i]
  <2>1. Ripe(i, timers[i]) /\ history[i] # << >>
    BY <1>1, <1>2, Declared DEF Timed
  <2>2. \E p \in policies' : timers[i] >= Head(history'[i]) + LevelAt(p, 0).after
    BY <1>1, <2>1, RipeKept
  <2>3. QED
    BY <1>2, <2>2 DEF Ripe
<1>3. ASSUME NEW c \in Consumers, Arm(c), timers'[i] # timers[i]
      PROVE  Ripe(i, timers[i])'
  <2>1. /\ i = Current(c).incident /\ Current(c).at = Head(history[i])
        /\ timers'[i] = Current(c).at + LevelAt(chosen[c], 0).after
        /\ UNCHANGED <<history, policies>>
    BY <1>1, <1>3, Arrived DEF Arm, RedisOK, engine
  <2>2. chosen[c] \in policies' /\ Current(c).at \in Nat
    BY <1>1, <1>3, <2>1, AtEvent DEF Armed, Arm, Event
  <2>3. timers'[i] \in Nat \ {0}
    <3>1. PICK p : p = chosen[c]
      OBVIOUS
    <3>2. Accepts(LevelsOf[p])
      BY <1>1, <2>1, <2>2, <3>1 DEF Stored
    <3>3. QED
      BY <2>1, <2>2, <3>1, <3>2, AcceptedLevels, MomentIsNat
  <2>4. timers'[i] = Head(history'[i]) + LevelAt(chosen[c], 0).after
    BY <2>1
  <2>5. timers'[i] >= Head(history'[i]) + LevelAt(chosen[c], 0).after
    BY <2>3, <2>4
  <2>6. QED
    BY <2>2, <2>5 DEF Ripe
<1>4. ASSUME NEW q \in Pollers, Schedule(q), timers'[i] # timers[i]
      PROVE  Ripe(i, timers[i])'
  <2>1. PICK p, k : p = seen[q].policy /\ k = NextLevel(q)
    OBVIOUS
  <2>2. /\ i = At(q) /\ UNCHANGED <<history, policies>>
        /\ timers'[i] = seen[q].since + LevelAt(p, k).after
        /\ qpc[q] = "schedule"
    BY <1>1, <1>4, <2>1 DEF Schedule, RedisOK, engine
  <2>3. /\ p \in policies' /\ Accepts(LevelsOf[p])
        /\ seen[q].since = Head(history'[i]) /\ seen[q].since \in Nat
        /\ seen[q].level \in Nat /\ Len(LevelsOf[p]) \in Nat
    BY <2>1, <2>2, AtLevel, AcceptedLevels
  <2>4. k \in 0..(Len(LevelsOf[p]) - 1)
    <3>1. ~IsLast(q)
      BY <2>2, InvParts DEF Polled, Reading
    <3>2. QED
      BY <2>1, <2>3, <3>1 DEF IsLast, NextLevel
  <2>5. seen[q].since + LevelAt(p, k).after >= seen[q].since + LevelAt(p, 0).after
    BY <2>3, <2>4, LaterMoment
  <2>6. timers'[i] >= Head(history'[i]) + LevelAt(p, 0).after
    BY <2>2, <2>3, <2>5
  <2>7. QED
    BY <2>3, <2>6 DEF Ripe
<1>5. ASSUME NEW c \in Consumers, ConsumerStep(c), ~Arm(c)
      PROVE  timers'[i] \in {timers[i], 0}
  BY <1>1, <1>5 DEF ConsumerStep, Consume, FindPolicy, StoreState, DropState, Disarm, Ack, RedisOK
<1>6. ASSUME NEW q \in Pollers, PollerStep(q) \/ LookupFails(q) \/ PollerStops(q), ~Schedule(q)
      PROVE  timers'[i] \in {timers[i], 0}
  BY <1>1, <1>6 DEF PollerStep, Poll, ReadState, Notify, PostEntry, Advance, Expire, DropTimer,
     LookupFails, PollerStops, RedisOK
<1>7. \/ Tick \/ Publish \/ PublishFails \/ UNCHANGED vars
      \/ \E j \in Incidents : Declare(j) \/ ChangeStatus(j)
      \/ \E p \in Policies : StorePolicy(p)
      \/ \E c \in Consumers : ConsumerStops(c)
      => timers'[i] = timers[i]
  BY OthersTouchNothing
<1>8. QED
  BY <1>2, <1>3, <1>4, <1>5, <1>6, <1>7 DEF Next, PollerStep, ConsumerStep

\* Grounded, of a row that is given with what it refers to.
GroundedBy(row, start, stored, known) ==
    row.policy # 0 =>
        /\ row.policy \in stored /\ row.since = start
        /\ \A k \in 0..(row.level - 1) : \E n \in known : n.level = k
        /\ row.active => row.level < Len(LevelsOf[row.policy])

LEMMA GroundedIs ==
    /\ \A i : Grounded(hash[i], i) <=> GroundedBy(hash[i], Head(history[i]), policies, notified[i])
    /\ \A i : Grounded(hash[i], i)' <=> GroundedBy(hash'[i], Head(history'[i]), policies', notified'[i])
    /\ \A q : Grounded(seen[q], At(q))
                 <=> GroundedBy(seen[q], Head(history[At(q)]), policies, notified[At(q)])
  BY DEF Grounded, GroundedBy

LEMMA GroundedGrows ==
    ASSUME NEW row, NEW start, NEW stored, NEW known, GroundedBy(row, start, stored, known),
           NEW stored2, NEW known2, stored \subseteq stored2, known \subseteq known2
    PROVE  GroundedBy(row, start, stored2, known2)
  BY DEF GroundedBy

\* A poller's write to the hash leaves it with the policy it was armed with, or none.
LEMMA AdvanceGrounds ==
    ASSUME IInv, NEW q \in Pollers, Advance(q)
    PROVE  Grounded(hash[At(q)], At(q))'
<1>1. EngineOK /\ RedisOK /\ PollersOK /\ Sound /\ Polled
  BY InvParts, TypeParts
<1>2. PICK i, row, old, new :
         /\ i = At(q) /\ row = seen[q] /\ old = hash[i] /\ new = hash'[i]
  OBVIOUS
<1>3. /\ qpc[q] = "advance" /\ i \in Incidents /\ old \in Hash
      /\ UNCHANGED <<history, policies, notified, due>>
  BY <1>1, <1>2, AtDue DEF Advance, engine, told, RedisOK
<1>4. i = At(q)'
  BY <1>2, <1>3 DEF At
<1>5. /\ new = [old EXCEPT !.level = NextLevel(q), !.active = old.active /\ ~IsLast(q)]
      /\ new.policy = old.policy /\ new.since = old.since
      /\ new.level = row.level + 1
      /\ new.active => row.level + 1 < Len(LevelsOf[row.policy])
  <2>1. new = [old EXCEPT !.level = NextLevel(q), !.active = old.active /\ ~IsLast(q)]
    BY <1>1, <1>2, <1>3 DEF Advance, RedisOK, Hash
  <2>2. new.policy = old.policy /\ new.since = old.since
    BY <1>3, <2>1 DEF Hash
  <2>3. new.level = row.level + 1
    BY <1>2, <1>3, <2>1 DEF Hash, NextLevel
  <2>4. new.active => ~IsLast(q)
    BY <1>3, <2>1 DEF Hash
  <2>5. row.level \in Nat /\ Len(LevelsOf[row.policy]) \in Nat
    BY <1>2, <1>3, AtLevel, AcceptedLevels
  <2>6. ~IsLast(q) => row.level + 1 < Len(LevelsOf[row.policy])
    BY <1>2, <2>5 DEF IsLast, NextLevel
  <2>7. QED
    BY <2>1, <2>2, <2>3, <2>4, <2>6
<1>6. /\ GroundedBy(old, Head(history[i]), policies, notified[i])
      /\ GroundedBy(row, Head(history[i]), policies, notified[i])
      /\ row.policy # 0 /\ row.level \in Nat
      /\ old.policy \in {0, row.policy}
      /\ \E n \in notified[i] : n.level = row.level
  <2>1. Grounded(hash[i], i) /\ Grounded(seen[q], At(q)) /\ hash[At(q)].policy \in {0, seen[q].policy}
        /\ \E n \in notified[At(q)] : n.level = seen[q].level
    BY <1>1, <1>3 DEF Sound, Polled, Reading
  <2>2. seen[q].policy # 0 /\ seen[q].level \in Nat
    BY <1>3, AtLevel
  <2>3. QED
    BY <1>2, <2>1, <2>2, GroundedIs
<1>7. \A k \in 0..(new.level - 1) : \E n \in notified[i] : n.level = k
  <2>1. \A k \in 0..(new.level - 1) : k \in 0..(row.level - 1) \/ k = row.level
    BY <1>5, <1>6
  <2>2. QED
    BY <1>6, <2>1 DEF GroundedBy
<1>8. GroundedBy(new, Head(history[i]), policies, notified[i])
  BY <1>5, <1>6, <1>7 DEF GroundedBy
<1>9. Grounded(hash[i], i)'
  BY <1>2, <1>3, <1>8, GroundedIs
<1>10. QED
  BY <1>2, <1>3, <1>4, <1>8 DEF GroundedBy, Grounded

LEMMA StoreGrounds ==
    ASSUME IInv, NEW c \in Consumers, StoreState(c), NEW i \in Incidents, hash'[i] # hash[i]
    PROVE  Grounded(hash[i], i)'
<1>1. RedisOK /\ Armed /\ Stored /\ EngineOK
  BY InvParts, TypeParts
<1>2. /\ i = Current(c).incident /\ Current(c).at = Head(history[i])
      /\ hash'[i] = [policy |-> chosen[c], level |-> 0, since |-> Current(c).at, active |-> TRUE]
      /\ chosen[c] \in policies
      /\ UNCHANGED <<history, policies, notified>>
  BY <1>1, Arrived DEF StoreState, RedisOK, engine, told, Armed
<1>3. PICK p \in policies : p = chosen[c]
  BY <1>2
<1>4. Len(LevelsOf[p]) \in 1..10
  BY <1>1, AcceptedLevels DEF Stored
<1>5. GroundedBy(hash'[i], Head(history'[i]), policies', notified'[i])
  <2>1. /\ hash'[i].policy = p /\ hash'[i].level = 0 /\ hash'[i].since = Head(history'[i])
    BY <1>2, <1>3
  <2>2. 0 < Len(LevelsOf[p]) /\ 0..(0 - 1) = {}
    <3>1. \A n \in 1..10 : 0 < n
      OBVIOUS
    <3>2. 0..(0 - 1) = {}
      OBVIOUS
    <3>3. QED
      BY <1>4, <3>1, <3>2, Zenon
  <2>3. QED
    BY <1>2, <2>1, <2>2 DEF GroundedBy
<1>6. QED
  BY <1>5, GroundedIs

\* How a hash may change: it stays, it is written by the arrival of its declaration or by a
\* poller that advances, it is switched off, or it is deleted.
LEMMA HashMoves ==
    ASSUME IInv, [Next]_vars, NEW i \in Incidents
    PROVE  \/ hash'[i] = hash[i]
           \/ \E c \in Consumers : StoreState(c) /\ Awaited(i)
           \/ \E q \in Pollers : Advance(q) /\ i = At(q) /\ hash'[i].policy = hash[i].policy
           \/ /\ hash'[i].policy = hash[i].policy /\ hash'[i].since = hash[i].since
              /\ hash'[i].level = hash[i].level /\ ~hash'[i].active
           \/ hash'[i] = NoHash
<1>1. RedisOK /\ PollersOK /\ hash[i] \in Hash
  BY InvParts, TypeParts DEF RedisOK
<1>2. ASSUME NEW c \in Consumers, StoreState(c), hash'[i] # hash[i]
      PROVE  Awaited(i)
  <2>1. i = Current(c).incident /\ cpc[c] = "store"
    BY <1>1, <1>2 DEF StoreState, RedisOK
  <2>2. ~Arm(c)
    BY <2>1 DEF Arm
  <2>3. QED
    BY <1>2, <2>1, <2>2, Arrived
<1>3. ASSUME NEW c \in Consumers, ConsumerStep(c), ~StoreState(c)
      PROVE  hash'[i] = hash[i] \/ hash'[i] = NoHash
  BY <1>1, <1>3 DEF ConsumerStep, Consume, FindPolicy, Arm, DropState, Disarm, Ack, RedisOK
<1>4. ASSUME NEW q \in Pollers, Advance(q)
      PROVE  hash'[i] = hash[i] \/ (i = At(q) /\ hash'[i].policy = hash[i].policy)
  BY <1>1, <1>4 DEF Advance, RedisOK, Hash
<1>5. ASSUME NEW q \in Pollers, Expire(q)
      PROVE  \/ hash'[i] = hash[i]
             \/ /\ hash'[i].policy = hash[i].policy /\ hash'[i].since = hash[i].since
                /\ hash'[i].level = hash[i].level /\ ~hash'[i].active
  BY <1>1, <1>5 DEF Expire, RedisOK, Hash
<1>6. ASSUME NEW q \in Pollers, PollerStep(q) \/ LookupFails(q) \/ PollerStops(q),
             ~Advance(q), ~Expire(q)
      PROVE  hash' = hash
  BY <1>6 DEF PollerStep, Poll, ReadState, Notify, PostEntry, Schedule, DropTimer, LookupFails,
     PollerStops
<1>7. \/ Tick \/ Publish \/ PublishFails \/ UNCHANGED vars
      \/ \E j \in Incidents : Declare(j) \/ ChangeStatus(j)
      \/ \E p \in Policies : StorePolicy(p)
      \/ \E c \in Consumers : ConsumerStops(c)
      => hash' = hash
  BY OthersTouchNothing
<1>8. QED
  BY <1>2, <1>3, <1>4, <1>5, <1>6, <1>7 DEF Next

LEMMA SoundKept ==
    ASSUME IInv, [Next]_vars
    PROVE  Sound'
<1>1. Sound /\ Onward
  BY InvParts, GoesOn
<1> SUFFICES ASSUME NEW i \in Incidents
             PROVE  Grounded(hash[i], i)'
  BY DEF Sound
<1>2. GroundedBy(hash[i], Head(history[i]), policies, notified[i])
  BY <1>1, GroundedIs DEF Sound
<1>3. hash[i].policy # 0 => GroundedBy(hash[i], Head(history'[i]), policies', notified'[i])
  BY <1>1, <1>2, Declared, GroundedGrows DEF Onward
<1>4. CASE hash'[i] = hash[i]
  BY <1>3, <1>4, GroundedIs DEF GroundedBy
<1>5. CASE /\ hash'[i].policy = hash[i].policy /\ hash'[i].since = hash[i].since
           /\ hash'[i].level = hash[i].level /\ ~hash'[i].active
  <2>1. GroundedBy(hash'[i], Head(history'[i]), policies', notified'[i])
    BY <1>3, <1>5 DEF GroundedBy
  <2>2. QED
    BY <2>1, GroundedIs
<1>6. CASE hash'[i] = NoHash
  <2>1. GroundedBy(hash'[i], Head(history'[i]), policies', notified'[i])
    BY <1>6 DEF GroundedBy, NoHash
  <2>2. QED
    BY <2>1, GroundedIs
<1>7. ASSUME NEW q \in Pollers, Advance(q), i = At(q)
      PROVE  Grounded(hash[i], i)'
  <2>1. At(q)' = i
    BY <1>7 DEF Advance, At
  <2>2. QED
    BY <1>7, <2>1, AdvanceGrounds DEF Grounded
<1>8. QED
  BY <1>4, <1>5, <1>6, <1>7, HashMoves, StoreGrounds

-----------------------------------------------------------------------------
(* What the pollers have read *)

Deciding == {"policy", "post", "advance", "schedule", "expire"}

\* A poller that no step of its own moves.
LEMMA ReadingStays ==
    ASSUME IInv, [Next]_vars, NEW q \in Pollers,
           UNCHANGED <<due[q], seen[q], qpc[q]>>
    PROVE  Reading(q)'
<1>1. EngineOK /\ PollersOK /\ Polled /\ Onward
  BY InvParts, TypeParts, GoesOn
<1>2. \A k \in 1..Len(due'[q]) : Ripe(due[q][k], now)'
  <2> SUFFICES ASSUME NEW k \in 1..Len(due[q])
               PROVE  Ripe(due[q][k], now)'
    OBVIOUS
  <2>1. PICK i \in Incidents : i = due[q][k]
    <3>1. due[q] \in Seq(Incidents)
      BY <1>1 DEF PollersOK
    <3>2. QED
      BY <3>1, ElementOfSeq
  <2>2. Ripe(i, now) /\ history[i] # << >>
    BY <1>1, <2>1, Declared DEF Polled, Reading
  <2>3. PICK p \in policies : now >= Head(history[i]) + LevelAt(p, 0).after
    BY <2>2 DEF Ripe
  <2>4. p \in policies' /\ now <= now' /\ Head(history'[i]) = Head(history[i])
    BY <1>1, <2>2 DEF Onward
  <2>5. now' >= Head(history'[i]) + LevelAt(p, 0).after
    <3> DEFINE m == Head(history[i]) + LevelAt(p, 0).after
    <3>1. m \in Nat
      <4>1. history[i] \in Seq(0..MaxTime)
        BY <1>1 DEF EngineOK
      <4>2. Head(history[i]) \in 0..MaxTime
        BY <2>2, <4>1, DropFirst
      <4>3. PICK h \in Nat : h = Head(history[i])
        BY <4>2, EscalationAssumption
      <4>4. Accepts(LevelsOf[p])
        BY <2>3, InvParts DEF Stored
      <4>5. h + LevelAt(p, 0).after \in Nat
        BY <4>4, FirstMoment
      <4>6. QED
        BY <4>3, <4>5
    <3>2. now \in Nat /\ now' \in Nat
      <4>1. now' = now \/ now' = now + 1
        BY DEF Next, Tick, Publish, PublishFails, Declare, ChangeStatus, Happens, StorePolicy,
           ConsumerStep, Consume, FindPolicy, StoreState, Arm, DropState, Disarm, Ack, ConsumerStops,
           PollerStep, Poll, ReadState, Notify, PostEntry, Advance, Schedule, Expire, DropTimer,
           LookupFails, PollerStops, vars, engine
      <4>2. QED
        BY <1>1, <4>1, EscalationAssumption DEF EngineOK
    <3>3. now >= m
      BY <2>3
    <3>4. now' >= m
      <4> HIDE DEF m
      <4>1. QED
        BY <2>4, <3>1, <3>2, <3>3
    <3>5. QED
      BY <2>4, <3>4
  <2>6. QED
    BY <2>1, <2>4, <2>5 DEF Ripe
<1>3. ASSUME qpc[q] \in Deciding
      PROVE  /\ Live(seen[q])' /\ Grounded(seen[q], At(q))'
             /\ hash'[At(q)].policy \in {0, seen[q].policy}
             /\ At(q)' = At(q)
  <2>1. PICK i : i = At(q) /\ i = At(q)'
    BY DEF At
  <2>2. i \in Incidents /\ ~Awaited(i) /\ history[i] # << >>
    BY <1>3, <2>1, AtKnown DEF Deciding
  <2>3. Live(seen[q]) /\ Grounded(seen[q], i) /\ hash[i].policy \in {0, seen[q].policy}
    BY <1>1, <1>3, <2>1 DEF Polled, Reading, Deciding
  <2>4. hash'[i].policy \in {0, seen[q].policy}
    BY <2>2, <2>3, HashMoves DEF NoHash
  <2>5. Head(history'[i]) = Head(history[i]) /\ policies \subseteq policies' /\ notified[i] \subseteq notified'[i]
    BY <1>1, <2>2 DEF Onward
  <2>6. GroundedBy(seen[q], Head(history'[i]), policies', notified'[i])
    <3>1. GroundedBy(seen[q], Head(history[i]), policies, notified[i])
      BY <2>3 DEF Grounded, GroundedBy
    <3>2. QED
      BY <2>5, <3>1, GroundedGrows
  <2>7. Grounded(seen[q], At(q))'
    BY <2>1, <2>6 DEF Grounded, GroundedBy
  <2>8. QED
    BY <2>1, <2>3, <2>4, <2>7 DEF Live
<1>4. qpc[q] \in {"post", "advance"} => \E n \in notified'[At(q)] : n.level = seen[q].level
  BY <1>1, <1>3, AtKnown DEF Polled, Reading, Deciding, Onward
<1>5. qpc[q] = "schedule" => ~IsLast(q)'
  BY <1>1 DEF Polled, Reading, IsLast, NextLevel
<1>6. QED
  BY <1>2, <1>3, <1>4, <1>5 DEF Reading, Deciding

\* A poller at its own steps.
LEMMA ReadingMoves ==
    ASSUME IInv, [Next]_vars, NEW q \in Pollers, PollerStep(q) \/ LookupFails(q) \/ PollerStops(q)
    PROVE  Reading(q)'
<1>1. EngineOK /\ RedisOK /\ PollersOK /\ Polled /\ Sound /\ Timed /\ Known /\ Reading(q)
  BY InvParts, TypeParts DEF Polled
<1>2. UNCHANGED <<now, history, policies>>
  BY DEF PollerStep, Poll, ReadState, Notify, PostEntry, Advance, Schedule, Expire, DropTimer,
     LookupFails, PollerStops, engine
<1>3. \A k \in 1..Len(due'[q]) : Ripe(due[q][k], now)'
  <2> SUFFICES ASSUME NEW k \in 1..Len(due'[q])
               PROVE  Ripe(due'[q][k], now)
    BY <1>2 DEF Ripe
  <2>1. CASE \E j \in 1..Len(due[q]) : due'[q][k] = due[q][j]
    BY <1>1, <2>1 DEF Reading
  <2>2. CASE due'[q][k] \in Expired
    <3>1. PICK i \in Incidents : i = due'[q][k] /\ timers[i] \in 1..now
      BY <2>2 DEF Expired
    <3>2. now \in Nat /\ timers[i] \in Nat /\ timers[i] # 0 /\ timers[i] <= now
      BY <1>1, <3>1, EscalationAssumption DEF EngineOK, RedisOK
    <3>3. PICK p \in policies : timers[i] >= Head(history[i]) + LevelAt(p, 0).after
      BY <1>1, <3>2 DEF Timed, Ripe
    <3> DEFINE m == Head(history[i]) + LevelAt(p, 0).after
    <3>4. m \in Nat
      <4>1. history[i] \in Seq(0..MaxTime) /\ history[i] # << >>
        BY <1>1, <3>2 DEF EngineOK, Known, Untouched, Awaited
      <4>2. Head(history[i]) \in 0..MaxTime
        BY <4>1, DropFirst
      <4>3. PICK h \in Nat : h = Head(history[i])
        BY <4>2, EscalationAssumption
      <4>4. Accepts(LevelsOf[p])
        BY <3>3, InvParts DEF Stored
      <4>5. h + LevelAt(p, 0).after \in Nat
        BY <4>4, FirstMoment
      <4>6. QED
        BY <4>3, <4>5
    <3>5. timers[i] >= m
      BY <3>3
    <3>6. now >= m
      <4> HIDE DEF m
      <4>1. QED
        BY <3>2, <3>4, <3>5
    <3>7. QED
      BY <3>1, <3>6 DEF Ripe
  <2>3. QED
    BY <2>1, <2>2, DueBefore
<1>4. ASSUME ReadState(q), qpc'[q] \in Deciding
      PROVE  Reading(q)'
  <2>1. PICK i : i = At(q) /\ i = At(q)'
    BY <1>4 DEF ReadState, At
  <2>2. i \in Incidents /\ seen'[q] = hash[i] /\ Live(hash[i]) /\ qpc'[q] = "policy"
        /\ UNCHANGED <<hash, notified>>
    BY <1>1, <1>4, <2>1, AtDue DEF ReadState, GotoQ, PollersOK, Deciding, told
  <2>3. Grounded(hash[i], i)
    BY <1>1, <2>2 DEF Sound
  <2>4. Live(seen[q])' /\ Grounded(seen[q], At(q))' /\ hash'[At(q)'].policy \in {0, seen'[q].policy}
    BY <1>2, <2>1, <2>2, <2>3 DEF Live, Grounded
  <2>5. QED
    BY <1>3, <2>2, <2>4 DEF Reading
<1>5. ASSUME qpc[q] \in Deciding, UNCHANGED <<due, seen>>, notified[At(q)] \subseteq notified'[At(q)],
             hash'[At(q)].policy = hash[At(q)].policy
      PROVE  /\ Live(seen[q])' /\ Grounded(seen[q], At(q))' /\ At(q)' = At(q)
             /\ hash'[At(q)'].policy \in {0, seen'[q].policy}
  <2>1. PICK i : i = At(q) /\ i = At(q)'
    BY <1>5 DEF At
  <2>2. Live(seen[q]) /\ Grounded(seen[q], i) /\ hash[i].policy \in {0, seen[q].policy}
    BY <1>1, <1>5, <2>1 DEF Reading, Deciding
  <2>3. GroundedBy(seen[q], Head(history[i]), policies, notified[i])
    BY <2>2 DEF Grounded, GroundedBy
  <2>4. GroundedBy(seen[q], Head(history[i]), policies, notified'[i])
    BY <1>5, <2>1, <2>3, GroundedGrows
  <2>5. Grounded(seen[q], At(q))'
    BY <1>2, <1>5, <2>1, <2>4 DEF Grounded, GroundedBy
  <2>6. QED
    BY <1>5, <2>1, <2>2, <2>5 DEF Live
<1>6. ASSUME Notify(q)
      PROVE  Reading(q)'
  <2>1. /\ qpc[q] = "policy" /\ qpc'[q] = "post" /\ At(q) \in Incidents /\ UNCHANGED <<due, seen, hash>>
        /\ notified' = [notified EXCEPT ![At(q)] = @ \cup {[level |-> seen[q].level, at |-> now]}]
    BY <1>1, <1>6, AtDue DEF Notify, GotoQ, PollersOK
  <2>2. /\ notified[At(q)] \subseteq notified'[At(q)]
        /\ \E n \in notified'[At(q)] : n.level = seen[q].level
    <3>1. PICK i \in Incidents : i = At(q)
      BY <2>1
    <3>2. PICK x : x = [level |-> seen[q].level, at |-> now]
      OBVIOUS
    <3>3. x.level = seen[q].level
      BY <3>2
    <3>4. notified'[i] = notified[i] \cup {x}
      BY <1>1, <2>1, <3>1, <3>2 DEF EngineOK
    <3>5. QED
      BY <3>1, <3>3, <3>4
  <2>3. QED
    BY <1>3, <1>5, <2>1, <2>2 DEF Reading, Deciding
<1>7. ASSUME LookupFails(q) \/ PostEntry(q)
      PROVE  Reading(q)'
  <2>1. /\ UNCHANGED <<due, seen, hash, notified>>
        /\ \/ qpc[q] = "policy" /\ qpc'[q] = "expire"
           \/ qpc[q] = "post" /\ qpc'[q] = "advance"
    BY <1>1, <1>7 DEF LookupFails, PostEntry, GotoQ, PollersOK, told
  <2>2. qpc[q] = "post" => \E n \in notified'[At(q)] : n.level = seen[q].level
    BY <1>1, <2>1 DEF Reading
  <2>3. QED
    BY <1>3, <1>5, <2>1, <2>2 DEF Reading, Deciding
<1>8. ASSUME Advance(q)
      PROVE  Reading(q)'
  <2>1. /\ UNCHANGED <<due, seen, notified>> /\ qpc[q] = "advance"
        /\ \/ IsLast(q) /\ qpc'[q] = "remove"
           \/ ~IsLast(q) /\ qpc'[q] = "schedule"
    BY <1>1, <1>8 DEF Advance, GotoQ, PollersOK, told
  <2>2. hash'[At(q)].policy = hash[At(q)].policy
    BY <1>1, <1>8, AtDue DEF Advance, RedisOK, Hash
  <2>3. IsLast(q)' = IsLast(q)
    BY <2>1 DEF IsLast, NextLevel
  <2>4. QED
    BY <1>3, <1>5, <2>1, <2>2, <2>3 DEF Reading, Deciding
<1>9. ASSUME qpc'[q] \in {"idle", "read", "remove"}
      PROVE  Reading(q)'
  BY <1>3, <1>9 DEF Reading
<1>10. Poll(q) \/ Schedule(q) \/ Expire(q) \/ DropTimer(q) \/ PollerStops(q)
         => qpc'[q] \in {"idle", "read", "remove"}
  BY <1>1 DEF Poll, Schedule, Expire, DropTimer, PollerStops, NextDue, GotoQ, PollersOK
<1>11. ReadState(q) => qpc'[q] \in {"policy", "remove"}
  BY <1>1 DEF ReadState, GotoQ, PollersOK
<1>12. QED
  BY <1>4, <1>6, <1>7, <1>8, <1>9, <1>10, <1>11 DEF PollerStep, Deciding

LEMMA PollersMoveAlone ==
    ASSUME IInv, NEW q \in Pollers, PollerStep(q) \/ LookupFails(q) \/ PollerStops(q),
           NEW r \in Pollers, r # q
    PROVE  UNCHANGED <<due[r], seen[r], qpc[r]>>
<1>1. PollersOK
  BY InvParts, TypeParts
<1>2. QED
  BY <1>1 DEF PollersOK, PollerStep, Poll, ReadState, Notify, PostEntry, Advance, Schedule, Expire,
     DropTimer, LookupFails, PollerStops, NextDue, GotoQ

LEMMA PolledKept ==
    ASSUME IInv, [Next]_vars
    PROVE  Polled'
<1> SUFFICES ASSUME NEW r \in Pollers
             PROVE  Reading(r)'
  BY DEF Polled
<1>1. ASSUME NEW q \in Pollers, PollerStep(q) \/ LookupFails(q) \/ PollerStops(q)
      PROVE  Reading(r)'
  BY <1>1, ReadingMoves, ReadingStays, PollersMoveAlone
<1>2. ASSUME NEW c \in Consumers, ConsumerStep(c) \/ ConsumerStops(c)
      PROVE  UNCHANGED <<due, seen, qpc>>
  BY <1>2 DEF ConsumerStep, Consume, FindPolicy, StoreState, Arm, DropState, Disarm, Ack,
     ConsumerStops, poller
<1>3. QED
  BY <1>1, <1>2, ReadingStays, OthersTouchNothing DEF Next

-----------------------------------------------------------------------------
(* The inductive invariant *)

LEMMA StoredKept ==
    ASSUME IInv, [Next]_vars
    PROVE  Stored'
<1>1. Stored
  BY InvParts
<1>2. policies' = policies \/ \E p \in Policies : StorePolicy(p)
  BY DEF Next, vars, Tick, Publish, PublishFails, Declare, ChangeStatus, Happens, ConsumerStep,
     Consume, FindPolicy, StoreState, Arm, DropState, Disarm, Ack, ConsumerStops, PollerStep, Poll,
     ReadState, Notify, PostEntry, Advance, Schedule, Expire, DropTimer, LookupFails, PollerStops
<1> SUFFICES ASSUME NEW p \in policies'
             PROVE  Accepts(LevelsOf[p])
  BY DEF Stored, Accepts
<1>3. QED
  BY <1>1, <1>2 DEF Stored, StorePolicy

\* A consumer that no step of its own moves.
LEMMA ConsumersMoveAlone ==
    ASSUME IInv, NEW c \in Consumers, ConsumerStep(c) \/ ConsumerStops(c),
           NEW d \in Consumers, d # c
    PROVE  UNCHANGED <<batch[d], chosen[d], cpc[d]>>
<1>1. ConsumersOK
  BY InvParts, TypeParts
<1>2. QED
  BY <1>1 DEF ConsumersOK, ConsumerStep, Consume, FindPolicy, StoreState, Arm, DropState, Disarm,
     Ack, ConsumerStops, GotoC

LEMMA ArmedKept ==
    ASSUME IInv, [Next]_vars
    PROVE  Armed'
<1>1. ConsumersOK /\ Armed
  BY InvParts, TypeParts
<1>2. policies \subseteq policies'
  BY GoesOn DEF Onward
<1> SUFFICES ASSUME NEW d \in Consumers, cpc'[d] \in {"store", "arm"}
             PROVE  Current(d)'.type = "declared" /\ chosen'[d] \in policies'
  BY DEF Armed
<1>3. CASE UNCHANGED <<batch[d], chosen[d], cpc[d]>>
  BY <1>1, <1>2, <1>3 DEF Armed, Current
<1>4. ASSUME ConsumerStep(d) \/ ConsumerStops(d)
      PROVE  Current(d)'.type = "declared" /\ chosen'[d] \in policies'
  <2>1. (FindPolicy(d) /\ cpc'[d] = "store") \/ StoreState(d)
    BY <1>1, <1>4 DEF ConsumersOK, ConsumerStep, Consume, FindPolicy, StoreState, Arm, DropState,
       Disarm, Ack, ConsumerStops, GotoC
  <2>2. CASE FindPolicy(d) /\ cpc'[d] = "store"
    <3>1. Current(d)'.type = "declared"
      BY <2>2 DEF FindPolicy, Current
    <3>2. PICK p \in policies : chosen' = [chosen EXCEPT ![d] = p]
      BY <1>1, <2>2 DEF FindPolicy, GotoC, ConsumersOK
    <3>3. QED
      BY <1>1, <1>2, <3>1, <3>2 DEF ConsumersOK
  <2>3. CASE StoreState(d)
    BY <1>1, <1>2, <2>3 DEF StoreState, Armed, Current
  <2>4. QED
    BY <2>1, <2>2, <2>3
<1>5. ASSUME NEW q \in Pollers, PollerStep(q) \/ LookupFails(q) \/ PollerStops(q)
      PROVE  UNCHANGED <<batch, chosen, cpc>>
  BY <1>5 DEF PollerStep, Poll, ReadState, Notify, PostEntry, Advance, Schedule, Expire, DropTimer,
     LookupFails, PollerStops, consumer
<1>6. ASSUME \/ Tick \/ Publish \/ PublishFails \/ UNCHANGED vars
             \/ \E i \in Incidents : Declare(i) \/ ChangeStatus(i)
             \/ \E p \in Policies : StorePolicy(p)
      PROVE  UNCHANGED <<batch, chosen, cpc>>
  BY <1>6 DEF Tick, Publish, PublishFails, Declare, ChangeStatus, Happens, StorePolicy, vars, consumer
<1>7. QED
  BY <1>3, <1>4, <1>5, <1>6, ConsumersMoveAlone DEF Next

\* What was told before stays true of the policies and histories that go on.  A level 0 that
\* is told now is told to an incident some policy's first level is due for.
LEMMA FirstLevelKept ==
    ASSUME IInv, [Next]_vars
    PROVE  FirstLevelWhenDue'
<1>1. FirstLevelWhenDue /\ Onward /\ EngineOK
  BY InvParts, TypeParts, GoesOn
<1> SUFFICES ASSUME NEW i \in Incidents, NEW n \in notified'[i], n.level = 0
             PROVE  \E p \in policies' : n.at >= Head(history'[i]) + LevelAt(p, 0).after
  BY DEF FirstLevelWhenDue, LevelAt
<1>2. CASE n \in notified[i]
  <2>1. PICK m : m = n.at
    OBVIOUS
  <2>2. Ripe(i, m)
    BY <1>1, <1>2, <2>1 DEF FirstLevelWhenDue, Ripe
  <2>3. history[i] # << >>
    BY <1>2, Declared
  <2>4. QED
    BY <1>1, <2>1, <2>2, <2>3, RipeKept
<1>3. ASSUME NEW q \in Pollers, Notify(q), n \notin notified[i]
      PROVE  \E p \in policies' : n.at >= Head(history'[i]) + LevelAt(p, 0).after
  <2>1. PICK x : x = [level |-> seen[q].level, at |-> now]
    OBVIOUS
  <2>2. x.at = now
    BY <2>1
  <2>3. notified' = [notified EXCEPT ![At(q)] = @ \cup {x}] /\ qpc[q] # "idle"
    BY <1>3, <2>1 DEF Notify
  <2>4. i = At(q) /\ n = x
    BY <1>1, <1>3, <2>3 DEF EngineOK
  <2>5. Ripe(i, now) /\ history[i] # << >>
    BY <2>3, <2>4, AtKnown
  <2>6. QED
    BY <1>1, <2>2, <2>4, <2>5, RipeKept
<1>4. notified' = notified \/ \E q \in Pollers : Notify(q)
  BY DEF Next, vars, Tick, Publish, PublishFails, Declare, ChangeStatus, Happens, StorePolicy,
     ConsumerStep, Consume, FindPolicy, StoreState, Arm, DropState, Disarm, Ack, ConsumerStops,
     PollerStep, Poll, ReadState, Notify, PostEntry, Advance, Schedule, Expire, DropTimer,
     LookupFails, PollerStops, told
<1>5. QED
  BY <1>2, <1>3, <1>4

LEMMA TypesKept ==
    ASSUME IInv, [Next]_vars
    PROVE  TypeOK'
<1>1. CASE UNCHANGED vars
  BY <1>1 DEF IInv, TypeOK, vars, engine, consumer, poller, told
<1>2. QED
  BY <1>1, EngineTypes, ConsumerTypes, PollerTypes DEF Next

\* Nothing was declared, so nothing was sent, handled, found expired or told.
LEMMA InitInv ==
    ASSUME Init
    PROVE  IInv
<1>1. TypeOK
  BY EscalationAssumption DEF Init, TypeOK, Hash, NoHash
<1>2. Placed
  BY DEF Init, Placed
<1>3. Stored /\ Armed /\ FirstLevelWhenDue
  BY DEF Init, Stored, Armed, FirstLevelWhenDue
<1>4. Known
  BY DEF Init, Known, Untouched, NoHash
<1>5. Sound /\ Timed
  BY DEF Init, Sound, Timed, Grounded, NoHash
<1>6. Polled
  BY DEF Init, Polled, Reading
<1>7. QED
  BY <1>1, <1>2, <1>3, <1>4, <1>5, <1>6, InvParts

\* The inductive invariant: where the declarations are, what each hash, timer and poller
\* may say of an incident, and what was told of it.
THEOREM InductiveInvariant == Spec => []IInv
<1>1. Init => IInv
  BY InitInv
<1>2. IInv /\ [Next]_vars => IInv'
  BY TypesKept, PlacedKept, StoredKept, ArmedKept, KnownKept, SoundKept, TimedKept, PolledKept,
     FirstLevelKept, InvParts
<1>3. QED
  BY <1>1, <1>2, PTL DEF Spec

\* Every variable keeps its type, for any number of incidents, policies and polls.
THEOREM TypeCorrect == Spec => []TypeOK
<1>1. IInv => TypeOK
  BY DEF IInv
<1>2. QED
  BY <1>1, InductiveInvariant, PTL

\* Any two levels of a stored policy are in strictly increasing order, though the
\* validation compares neighbours only.
THEOREM LevelsIncreaseHolds == Spec => []LevelsIncrease
<1>1. IInv => LevelsIncrease
  BY InvParts, AcceptedIncrease DEF Stored, LevelsIncrease
<1>2. QED
  BY <1>1, InductiveInvariant, PTL

\* However polls overlap and whatever fails, no incident is told a first level before one
\* of the policies has it due.
THEOREM FirstLevelWhenDueHolds == Spec => []FirstLevelWhenDue
<1>1. IInv => FirstLevelWhenDue
  BY DEF IInv
<1>2. QED
  BY <1>1, InductiveInvariant, PTL

-----------------------------------------------------------------------------
(* The contract *)

LevelsTold(i) == {n.level : n \in notified[i]}

\* Steps that tell nothing and arm nothing keep the contract when they do not revive an
\* escalation.
LEMMA NothingRevived ==
    ASSUME IInv, [Next]_vars,
           \A i \in Incidents : Underway(i)' = Underway(i) /\ LevelsTold(i)' = LevelsTold(i),
           \A i \in Incidents : Live(hash'[i]) => Live(hash[i])
    PROVE  Contract!Next \/ UNCHANGED Contract!vars
<1>1. \A i \in Incidents : Phase(i)' # Phase(i) => Phase(i) # "stopped" /\ Phase(i)' = "stopped"
  <2> SUFFICES ASSUME NEW i \in Incidents
               PROVE  Phase(i)' # Phase(i) => Phase(i) # "stopped" /\ Phase(i)' = "stopped"
    OBVIOUS
  <2>1. Live(hash[i]) => ~Awaited(i)
    BY InvParts DEF Known, Untouched, Live
  <2>2. Awaited(i)' => Awaited(i)
    BY AwaitedBefore
  <2>3. Phase(i) = IF Live(hash[i]) THEN "live" ELSE IF Awaited(i) THEN "new" ELSE "stopped"
    BY DEF Phase
  <2>4. Phase(i)' = IF Live(hash'[i]) THEN "live" ELSE IF Awaited(i)' THEN "new" ELSE "stopped"
    BY DEF Phase, Live
  <2>5. QED
    BY <2>1, <2>2, <2>3, <2>4
<1> DEFINE dead == {i \in Incidents : Phase(i)' # Phase(i)}
<1>2. Contract!Stop(dead)
  BY <1>1 DEF Contract!Stop, LevelsTold
<1>3. QED
  BY <1>2 DEF Contract!Next

\* Only the arrival of its declaration makes an escalation live.
LEMMA RevivedByArrival ==
    ASSUME IInv, [Next]_vars, NEW i \in Incidents, Live(hash'[i]), ~Live(hash[i])
    PROVE  \E c \in Consumers : StoreState(c)
<1>1. RedisOK /\ PollersOK
  BY InvParts, TypeParts
<1>2. ASSUME NEW q \in Pollers, Advance(q), i = At(q), hash'[i].policy = hash[i].policy
      PROVE  FALSE
  BY <1>1, <1>2 DEF Advance, RedisOK, Hash, Live
<1>3. QED
  BY <1>2, HashMoves DEF Live, NoHash

\* The declaration that arrives arms its escalation, and no other.
LEMMA StoreArms ==
    ASSUME IInv, [Next]_vars, NEW c \in Consumers, StoreState(c)
    PROVE  Contract!Next
<1>1. ConsumersOK /\ RedisOK /\ Armed /\ Known /\ EngineOK
  BY InvParts, TypeParts
<1>2. PICK i \in Incidents : i = Current(c).incident /\ ~Awaited(i)' /\ Awaited(i)
  <2>1. ~Arm(c)
    BY DEF StoreState, Arm
  <2>2. QED
    BY <2>1, Arrived
<1>3. Live(hash'[i]) /\ ~Live(hash[i])
  <2>1. chosen[c] \in policies /\ chosen[c] # 0
    BY <1>1, EscalationAssumption DEF StoreState, Armed, EngineOK
  <2>2. hash'[i].policy = chosen[c] /\ hash'[i].active
    BY <1>1, <1>2 DEF StoreState, RedisOK
  <2>3. QED
    BY <1>1, <1>2, <2>1, <2>2 DEF Live, Known, Untouched
<1>4. ASSUME NEW j \in Incidents, j # i
      PROVE  hash'[j] = hash[j] /\ Awaited(j)' = Awaited(j)
  <2>1. hash'[j] = hash[j]
    BY <1>1, <1>2, <1>4 DEF StoreState, RedisOK
  <2>2. UNCHANGED <<history, unsent, stream, batch>> /\ cpc' = [cpc EXCEPT ![c] = "arm"] /\ cpc[c] = "store"
    BY DEF StoreState, engine, GotoC
  <2>3. Awaited(j) => Awaited(j)'
    <3>1. ASSUME NEW d \in Consumers, NEW k \in 1..Len(batch[d]), Declares(batch[d][k], j),
                 k = 1 => cpc[d] \in {"handle", "store"}
          PROVE  k = 1 => cpc'[d] \in {"handle", "store"}
      <4>1. CASE d = c
        <5>1. Current(c) = batch[c][1]
          BY <1>1, <2>2, AtEvent
        <5>2. QED
          BY <1>2, <1>4, <3>1, <4>1, <5>1 DEF Declares
      <4>2. CASE d # c
        BY <1>1, <2>2, <3>1, <4>2 DEF ConsumersOK
      <4>3. QED
        BY <4>1, <4>2
    <3>2. QED
      BY <2>2, <3>1 DEF Awaited, Declares
  <2>4. Awaited(j)' => Awaited(j)
    BY AwaitedBefore
  <2>5. QED
    BY <2>1, <2>3, <2>4 DEF Awaited
<1>5. \A j \in Incidents : Phase(j)' = IF j = i THEN "live" ELSE Phase(j)
  BY <1>3, <1>4 DEF Phase, Live
<1>6. Phase(i) = "new"
  BY <1>2, <1>3 DEF Phase
<1>7. UNCHANGED <<due, seen, qpc, notified>>
  BY DEF StoreState, poller, told
<1>8. \A j \in Incidents : Underway(j)' = Underway(j) /\ LevelsTold(j)' = LevelsTold(j)
  BY <1>7 DEF Underway, At, LevelsTold
<1>9. Contract!Arm(i)
  BY <1>5, <1>6, <1>8 DEF Contract!Arm, LevelsTold
<1>10. QED
  BY <1>9 DEF Contract!Next

\* The levels a poller does not begin or end are under way as before.
LEMMA UnderwayElsewhere ==
    ASSUME IInv, NEW q \in Pollers, \A r \in Pollers \ {q} : UNCHANGED <<due[r], seen[r], qpc[r]>>,
           NEW i \in Incidents
    PROVE  /\ (qpc[q] = "policy" /\ At(q) = i => seen[q].level \in Underway(i))
           /\ (qpc'[q] = "policy" /\ At(q)' = i => seen'[q].level \in Underway(i)')
           /\ \A n : n \in Underway(i) => n \in Underway(i)' \/ (qpc[q] = "policy" /\ At(q) = i /\ n = seen[q].level)
           /\ \A n : n \in Underway(i)' => n \in Underway(i) \/ (qpc'[q] = "policy" /\ At(q)' = i /\ n = seen'[q].level)
  BY DEF Underway, At

\* Nothing but the pollers' own progress changes while the phases stay.
LEMMA PhasesStay ==
    ASSUME UNCHANGED <<history, unsent, stream, hash, batch, cpc>>
    PROVE  \A i \in Incidents : Phase(i)' = Phase(i)
BY DEF Phase, Live, Awaited, Declares

\* A poller that finds an escalation live begins the level the hash is at: every level
\* before it was told.
LEMMA ReadBegins ==
    ASSUME IInv, [Next]_vars, NEW q \in Pollers, ReadState(q)
    PROVE  Contract!Next \/ UNCHANGED Contract!vars
<1>1. PollersOK /\ RedisOK /\ Sound /\ Stored
  BY InvParts, TypeParts
<1>2. UNCHANGED <<history, unsent, stream, hash, batch, cpc, notified, due>>
  BY DEF ReadState, engine, consumer, told
<1>3. \A i \in Incidents : Phase(i)' = Phase(i) /\ LevelsTold(i)' = LevelsTold(i)
  BY <1>2, PhasesStay DEF LevelsTold
<1>4. \A r \in Pollers \ {q} : UNCHANGED <<due[r], seen[r], qpc[r]>>
  BY PollersMoveAlone DEF PollerStep
<1>5. PICK i \in Incidents : i = At(q) /\ i = At(q)'
  BY <1>1, <1>2, AtDue DEF ReadState, At
<1>6. qpc[q] = "read" /\ seen'[q] = hash[i] /\ qpc'[q] = IF Live(hash[i]) THEN "policy" ELSE "remove"
  BY <1>1, <1>5 DEF ReadState, GotoQ, PollersOK
<1>7. CASE ~Live(hash[i])
  <2>1. \A j \in Incidents : Underway(j)' = Underway(j)
    BY <1>4, <1>6, <1>7, UnderwayElsewhere
  <2>2. QED
    BY <1>3, <2>1 DEF Contract!vars, LevelsTold
<1>8. CASE Live(hash[i])
  <2>1. PICK k : k = hash[i].level
    OBVIOUS
  <2>2. \A j \in Incidents : Underway(j)' = IF j = i THEN Underway(j) \cup {k} ELSE Underway(j)
    <3> SUFFICES ASSUME NEW j \in Incidents
                 PROVE  Underway(j)' = IF j = i THEN Underway(j) \cup {k} ELSE Underway(j)
      OBVIOUS
    <3>1. /\ (j = i => k \in Underway(j)')
          /\ \A n : n \in Underway(j) => n \in Underway(j)'
          /\ \A n : n \in Underway(j)' => n \in Underway(j) \/ (j = i /\ n = k)
      BY <1>4, <1>5, <1>6, <1>8, <2>1, UnderwayElsewhere
    <3>2. QED
      BY <3>1
  <2>3. k \in 0..9 /\ \A j \in 0..9 : j < k => j \in LevelsTold(i)
    <3>1. PICK p : p = hash[i].policy
      OBVIOUS
    <3>2. p \in policies /\ k < Len(LevelsOf[p]) /\ k \in Nat
          /\ \A j \in 0..(k - 1) : \E n \in notified[i] : n.level = j
      BY <1>1, <1>8, <2>1, <3>1 DEF Sound, Grounded, Live, RedisOK, Hash
    <3>3. Len(LevelsOf[p]) \in 1..10
      BY <1>1, <3>2, AcceptedLevels DEF Stored
    <3>4. \A j \in 0..9 : j < k => j \in 0..(k - 1)
      BY <3>2
    <3>5. k \in 0..9
      <4>1. PICK n : n = Len(LevelsOf[p])
        OBVIOUS
      <4>2. n \in 1..10 /\ k < n /\ k \in Nat
        BY <3>2, <3>3, <4>1
      <4>3. QED
        BY <4>2
    <3>6. QED
      BY <3>2, <3>4, <3>5 DEF LevelsTold
  <2>4. Phase(i) = "live"
    BY <1>8 DEF Phase
  <2>5. Contract!Begin(i, k)
    BY <1>3, <2>2, <2>3, <2>4 DEF Contract!Begin, LevelsTold, Levels
  <2>6. QED
    BY <2>3, <2>5 DEF Contract!Next, Levels
<1>9. QED
  BY <1>7, <1>8

\* A poller that leaves a level it had begun, told or not.
LEMMA LevelLeft ==
    ASSUME IInv, NEW q \in Pollers, qpc[q] = "policy", qpc'[q] # "policy",
           \A r \in Pollers \ {q} : UNCHANGED <<due[r], seen[r], qpc[r]>>
    PROVE  \E i \in Incidents : \E k \in Levels :
              /\ i = At(q) /\ k = seen[q].level /\ k \in Underway(i)
              /\ \A j \in Incidents : j # i => Underway(j)' = Underway(j)
              /\ Underway(i)' = Underway(i) \/ Underway(i)' = Underway(i) \ {k}
<1>1. PICK i \in Incidents : i = At(q)
  BY AtKnown
<1>2. PICK k : k = seen[q].level
  OBVIOUS
<1>3. k \in Levels
  <2>1. Accepts(LevelsOf[seen[q].policy]) /\ k \in 0..(Len(LevelsOf[seen[q].policy]) - 1)
    BY <1>2, AtLevel
  <2>2. PICK n : n = Len(LevelsOf[seen[q].policy])
    OBVIOUS
  <2>3. n \in 1..10 /\ k \in 0..(n - 1)
    BY <2>1, <2>2, AcceptedLevels
  <2>4. QED
    BY <2>3 DEF Levels
<1>4. k \in Underway(i)
  BY <1>1, <1>2, UnderwayElsewhere
<1>5. ASSUME NEW j \in Incidents, j # i
      PROVE  Underway(j)' = Underway(j)
  <2>1. \A n : n \in Underway(j) <=> n \in Underway(j)'
    BY <1>1, <1>5, UnderwayElsewhere
  <2>2. QED
    BY <2>1
<1>6. Underway(i)' = Underway(i) \/ Underway(i)' = Underway(i) \ {k}
  <2>1. \A n : n \in Underway(i)' => n \in Underway(i)
    BY <1>1, UnderwayElsewhere
  <2>2. \A n : n \in Underway(i) => n \in Underway(i)' \/ n = k
    BY <1>1, <1>2, UnderwayElsewhere
  <2>3. QED
    BY <2>1, <2>2
<1>7. QED
  BY <1>1, <1>2, <1>3, <1>4, <1>5, <1>6

\* The level that is told is the one the poller had begun.
LEMMA NotifyTells ==
    ASSUME IInv, [Next]_vars, NEW q \in Pollers, Notify(q)
    PROVE  Contract!Next
<1>1. PollersOK /\ EngineOK
  BY InvParts, TypeParts
<1>2. UNCHANGED <<history, unsent, stream, hash, batch, cpc>> /\ qpc[q] = "policy" /\ qpc'[q] = "post"
  BY <1>1 DEF Notify, GotoQ, engine, consumer, PollersOK
<1>3. \A r \in Pollers \ {q} : UNCHANGED <<due[r], seen[r], qpc[r]>>
  BY PollersMoveAlone DEF PollerStep
<1>4. PICK i \in Incidents, k \in Levels :
              /\ i = At(q) /\ k = seen[q].level /\ k \in Underway(i)
              /\ \A j \in Incidents : j # i => Underway(j)' = Underway(j)
              /\ Underway(i)' = Underway(i) \/ Underway(i)' = Underway(i) \ {k}
  BY <1>2, <1>3, LevelLeft
<1>5. PICK x : x = [level |-> seen[q].level, at |-> now]
  OBVIOUS
<1>6. x.level = k
  BY <1>4, <1>5
<1>7. notified' = [notified EXCEPT ![i] = @ \cup {x}]
  BY <1>4, <1>5 DEF Notify
<1>8. \A j \in Incidents : notified'[j] = IF j = i THEN notified[j] \cup {x} ELSE notified[j]
  BY <1>1, <1>7 DEF EngineOK
<1>9. \A j \in Incidents : LevelsTold(j)' = IF j = i THEN LevelsTold(j) \cup {k} ELSE LevelsTold(j)
  BY <1>8, <1>6 DEF LevelsTold
<1>10. \A j \in Incidents : Phase(j)' = Phase(j)
  BY <1>2, PhasesStay
<1>11. Contract!Tell(i, k)
  <2>1. \/ \A j \in Incidents : Underway(j)' = Underway(j)
        \/ \A j \in Incidents : Underway(j)' = IF j = i THEN Underway(j) \ {k} ELSE Underway(j)
    BY <1>4
  <2>2. QED
    BY <1>4, <1>9, <1>10, <2>1 DEF Contract!Tell, LevelsTold
<1>12. QED
  BY <1>11 DEF Contract!Next

\* A lookup that fails, or a pod that dies, loses the level it had begun at most.
LEMMA LevelLost ==
    ASSUME IInv, [Next]_vars, NEW q \in Pollers, LookupFails(q) \/ PollerStops(q)
    PROVE  Contract!Next \/ UNCHANGED Contract!vars
<1>1. PollersOK
  BY InvParts, TypeParts
<1>2. UNCHANGED <<history, unsent, stream, hash, batch, cpc, notified>> /\ qpc'[q] # "policy"
  BY <1>1 DEF LookupFails, PollerStops, GotoQ, engine, consumer, told, PollersOK
<1>3. \A r \in Pollers \ {q} : UNCHANGED <<due[r], seen[r], qpc[r]>>
  BY PollersMoveAlone
<1>4. \A j \in Incidents : Phase(j)' = Phase(j) /\ LevelsTold(j)' = LevelsTold(j)
  BY <1>2, PhasesStay DEF LevelsTold
<1>5. CASE qpc[q] # "policy"
  <2>1. \A j \in Incidents : \A n : n \in Underway(j) <=> n \in Underway(j)'
    BY <1>2, <1>3, <1>5, UnderwayElsewhere
  <2>2. \A j \in Incidents : Underway(j)' = Underway(j)
    BY <2>1
  <2>3. QED
    BY <1>4, <2>2 DEF Contract!vars, LevelsTold
<1>6. CASE qpc[q] = "policy"
  <2>1. PICK i \in Incidents, k \in Levels :
              /\ \A j \in Incidents : j # i => Underway(j)' = Underway(j)
              /\ Underway(i)' = Underway(i) \/ Underway(i)' = Underway(i) \ {k}
    BY <1>2, <1>3, <1>6, LevelLeft
  <2>2. CASE \A j \in Incidents : Underway(j)' = Underway(j)
    BY <1>4, <2>2 DEF Contract!vars, LevelsTold
  <2>3. CASE \A j \in Incidents : Underway(j)' = IF j = i THEN Underway(j) \ {k} ELSE Underway(j)
    <3>1. Contract!Lose(i, k)
      BY <1>4, <2>3 DEF Contract!Lose, LevelsTold
    <3>2. QED
      BY <3>1 DEF Contract!Next
  <2>4. QED
    BY <2>1, <2>2, <2>3
<1>7. QED
  BY <1>5, <1>6

\* Every other step of a poller neither begins nor ends a level.
LEMMA PollerGoesOn ==
    ASSUME IInv, [Next]_vars, NEW q \in Pollers,
           \/ Poll(q) \/ PostEntry(q) \/ Advance(q) \/ Schedule(q) \/ Expire(q) \/ DropTimer(q)
    PROVE  \A i \in Incidents : Underway(i)' = Underway(i) /\ LevelsTold(i)' = LevelsTold(i)
<1>1. PollersOK
  BY InvParts, TypeParts
<1>2. notified' = notified /\ qpc[q] # "policy" /\ qpc'[q] # "policy"
  BY <1>1 DEF Poll, PostEntry, Advance, Schedule, Expire, DropTimer, NextDue, GotoQ, told, PollersOK
<1>3. \A r \in Pollers \ {q} : UNCHANGED <<due[r], seen[r], qpc[r]>>
  BY PollersMoveAlone DEF PollerStep
<1>4. \A i \in Incidents : \A n : n \in Underway(i) <=> n \in Underway(i)'
  BY <1>2, <1>3, UnderwayElsewhere
<1>5. QED
  BY <1>2, <1>4 DEF LevelsTold

\* However polls overlap and whatever fails, the timers keep the contract of an escalation:
\* no level is skipped, and one that has stopped begins no level again.
THEOREM TimersImplementContract == Spec => ImplementsContract
<1>1. Init => Contract!Init
  <2> SUFFICES ASSUME Init
               PROVE  Contract!Init
    OBVIOUS
  <2>1. \A i \in Incidents : Phase(i) = "new"
    BY DEF Init, Phase, Live, NoHash, Awaited
  <2>2. \A i \in Incidents : Underway(i) = {}
    BY DEF Init, Underway
  <2>3. \A i \in Incidents : {n.level : n \in notified[i]} = {}
    BY DEF Init
  <2>4. QED
    BY <2>1, <2>2, <2>3 DEF Contract!Init
<1>2. IInv /\ [Next]_vars => [Contract!Next]_(Contract!vars)
  <2> SUFFICES ASSUME IInv, [Next]_vars
               PROVE  Contract!Next \/ UNCHANGED Contract!vars
    OBVIOUS
  <2>1. ASSUME NEW q \in Pollers, PollerStep(q) \/ LookupFails(q) \/ PollerStops(q)
        PROVE  Contract!Next \/ UNCHANGED Contract!vars
    <3>1. \A c \in Consumers : ~StoreState(c)
      BY <2>1, InvParts, TypeParts DEF StoreState, poller, PollerStep, Poll, ReadState, Notify,
         PostEntry, Advance, Schedule, Expire, DropTimer, LookupFails, PollerStops, GotoC, consumer,
         ConsumersOK
    <3>2. CASE Poll(q) \/ PostEntry(q) \/ Advance(q) \/ Schedule(q) \/ Expire(q) \/ DropTimer(q)
      BY <3>1, <3>2, PollerGoesOn, RevivedByArrival, NothingRevived
    <3>3. QED
      BY <2>1, <3>2, ReadBegins, NotifyTells, LevelLost DEF PollerStep
  <2>2. ASSUME UNCHANGED <<due, seen, qpc, notified>>, \A c \in Consumers : ~StoreState(c)
        PROVE  Contract!Next \/ UNCHANGED Contract!vars
    <3>1. \A i \in Incidents : Underway(i)' = Underway(i) /\ LevelsTold(i)' = LevelsTold(i)
      BY <2>2 DEF Underway, At, LevelsTold
    <3>2. QED
      BY <2>2, <3>1, RevivedByArrival, NothingRevived
  <2>3. ASSUME NEW c \in Consumers, StoreState(c)
        PROVE  Contract!Next \/ UNCHANGED Contract!vars
    BY <2>3, StoreArms
  <2>4. \/ \E q \in Pollers : PollerStep(q) \/ LookupFails(q) \/ PollerStops(q)
        \/ UNCHANGED <<due, seen, qpc, notified>>
    BY DEF Next, vars, Tick, Publish, PublishFails, Declare, ChangeStatus, Happens, StorePolicy,
       ConsumerStep, Consume, FindPolicy, StoreState, Arm, DropState, Disarm, Ack, ConsumerStops,
       poller, told
  <2>5. QED
    BY <2>1, <2>2, <2>3, <2>4
<1>3. QED
  BY <1>1, <1>2, InductiveInvariant, PTL DEF Spec, ImplementsContract, Contract!Spec

=============================================================================
