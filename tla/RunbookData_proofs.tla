-------------------------- MODULE RunbookData_proofs --------------------------
(***************************************************************************)
(* Lemmas about RunbookData, for every runbook: the stored steps, sorted   *)
(* by their order, are a list of the same steps, and what it means for     *)
(* results to follow a list.                                               *)
(***************************************************************************)
EXTENDS RunbookData, FiniteSetTheorems, Queues_proofs

LEMMA FirstNumbers ==
    ASSUME NEW n \in Nat
    PROVE  IsFiniteSet(1..n) /\ Cardinality(1..n) = n
<1>1. IsFiniteSet(1..n) /\ Cardinality(1..n) = IF 1 > n THEN 0 ELSE n - 1 + 1
  BY FS_Interval
<1>2. QED
  BY <1>1

\* The indices of the steps that come before one of the given order.
Before(steps, order) == {j \in 1..Len(steps) : steps[j].order < order}

LEMMA StepFields ==
    ASSUME NEW s \in RunbookStep
    PROVE  s.order \in Int /\ s.type \in {"manual", "automated"} /\ s.retries \in 0..10
  BY DEF RunbookStep

LEMMA Stored ==
    ASSUME NEW steps, Listed(steps)
    PROVE  /\ Len(steps) \in Nat
           /\ \A j \in 1..Len(steps) : steps[j] \in RunbookStep /\ steps[j].order \in Int
           /\ \A j, k \in 1..Len(steps) : steps[j].order = steps[k].order => j = k
  BY ElementOfSeq, LenProperties, StepFields DEF Listed

\* Fewer steps come before a step than there are steps.
LEMMA BeforeCount ==
    ASSUME NEW steps, Listed(steps), NEW k \in 1..Len(steps)
    PROVE  Cardinality(Before(steps, steps[k].order)) \in 0..(Len(steps) - 1)
<1> DEFINE n == Len(steps)
           B == Before(steps, steps[k].order)
<1>1. n \in Nat /\ k \in 1..n /\ steps[k].order \in Int
  BY Stored
<1>2. IsFiniteSet(1..n) /\ Cardinality(1..n) = n
  BY <1>1, FirstNumbers
<1>3. IsFiniteSet((1..n) \ {k}) /\ Cardinality((1..n) \ {k}) = n - 1
  BY <1>1, <1>2, FS_RemoveElement
<1>4. B \in SUBSET ((1..n) \ {k})
  BY <1>1 DEF Before
<1>5. IsFiniteSet(B) /\ Cardinality(B) <= n - 1
  BY <1>3, <1>4, FS_Subset
<1>6. Cardinality(B) \in Nat
  BY <1>5, FS_CardinalityType
<1>7. QED
  BY <1>1, <1>5, <1>6

\* More steps come before a later step.
LEMMA BeforeGrows ==
    ASSUME NEW steps, Listed(steps), NEW j \in 1..Len(steps), NEW k \in 1..Len(steps)
    PROVE  steps[j].order < steps[k].order <=>
               Cardinality(Before(steps, steps[j].order)) < Cardinality(Before(steps, steps[k].order))
<1> DEFINE n == Len(steps)
           B(i) == Before(steps, steps[i].order)
<1>1. n \in Nat /\ \A i \in 1..n : steps[i].order \in Int
  BY Stored
<1>2. ASSUME NEW i \in 1..n
      PROVE  IsFiniteSet(B(i)) /\ Cardinality(B(i)) \in Nat
  <2>1. IsFiniteSet(1..n)
    BY <1>1, FS_Interval
  <2>2. B(i) \in SUBSET (1..n)
    BY DEF Before
  <2>3. IsFiniteSet(B(i))
    BY <2>1, <2>2, FS_Subset
  <2>4. QED
    BY <2>3, FS_CardinalityType
<1>3. ASSUME steps[j].order < steps[k].order
      PROVE  Cardinality(B(j)) < Cardinality(B(k))
  <2>1. B(j) \in SUBSET B(k) /\ j \in B(k) /\ j \notin B(j)
    BY <1>1, <1>3 DEF Before
  <2>2. Cardinality(B(j)) <= Cardinality(B(k)) /\ Cardinality(B(j)) # Cardinality(B(k))
    BY <1>2, <2>1, FS_Subset
  <2>3. QED
    BY <1>2, <2>2
<1>4. ASSUME ~(steps[j].order < steps[k].order)
      PROVE  ~(Cardinality(B(j)) < Cardinality(B(k)))
  <2>1. B(k) \in SUBSET B(j)
    BY <1>1, <1>4 DEF Before
  <2>2. Cardinality(B(k)) <= Cardinality(B(j))
    BY <1>2, <2>1, FS_Subset
  <2>3. QED
    BY <1>2, <2>2
<1>5. QED
  BY <1>3, <1>4

\* For every place there is a step that comes there: no two share a place, so none of the
\* places stays empty.
LEMMA PlaceTaken ==
    ASSUME NEW steps, Listed(steps), NEW k \in 1..Len(steps)
    PROVE  \E j \in 1..Len(steps) : Cardinality(Before(steps, steps[j].order)) = k - 1
<1> DEFINE n == Len(steps)
           rank == [j \in 1..n |-> Cardinality(Before(steps, steps[j].order))]
           places == (0..(n - 1)) \ {k - 1}
<1>1. n \in Nat /\ k \in 1..n
  BY Stored
<1>2. SUFFICES ASSUME \A j \in 1..n : rank[j] # k - 1
               PROVE  FALSE
  OBVIOUS
<1>3. rank \in [1..n -> places]
  BY <1>2, BeforeCount
<1>4. IsFiniteSet(1..n) /\ Cardinality(1..n) = n
  BY <1>1, FirstNumbers
<1>5. IsFiniteSet(0..(n - 1)) /\ Cardinality(0..(n - 1)) = n
  <2>1. n - 1 \in Int /\ ~(0 > n - 1) /\ (n - 1) - 0 + 1 = n
    BY <1>1
  <2>2. QED
    BY <2>1, FS_Interval
<1>6. IsFiniteSet(places) /\ Cardinality(places) = n - 1
  <2>1. k - 1 \in 0..(n - 1)
    BY <1>1
  <2>2. QED
    BY <1>5, <2>1, FS_RemoveElement
<1>7. Cardinality(places) < Cardinality(1..n)
  BY <1>1, <1>4, <1>6
<1> HIDE DEF places, rank
<1>8. PICK i, j \in 1..n : i # j /\ rank[i] = rank[j]
  BY <1>3, <1>4, <1>6, <1>7, FS_PigeonHole
<1>9. steps[i].order < steps[j].order \/ steps[j].order < steps[i].order
  BY <1>8, Stored
<1>10. rank[i] < rank[j] \/ rank[j] < rank[i]
  BY <1>9, BeforeGrows DEF rank
<1>11. rank[i] \in Nat /\ rank[j] \in Nat
  BY <1>1, BeforeCount DEF rank
<1>12. QED
  BY <1>8, <1>10, <1>11

\* The sorted list holds the stored steps, in rising order.
LEMMA AscendingSorts ==
    ASSUME NEW steps, Listed(steps)
    PROVE  /\ Ascending(steps) \in Seq(RunbookStep)
           /\ Len(Ascending(steps)) = Len(steps)
           /\ \A k \in 1..Len(steps) : \E j \in 1..Len(steps) : Ascending(steps)[k] = steps[j]
           /\ \A k, l \in 1..Len(steps) : k < l => Ascending(steps)[k].order < Ascending(steps)[l].order
<1> DEFINE n == Len(steps)
           at(k) == CHOOSE s \in {steps[j] : j \in 1..n} : Cardinality(Before(steps, s.order)) = k - 1
<1>1. n \in Nat /\ \A j \in 1..n : steps[j] \in RunbookStep
  BY Stored
<1>2. Ascending(steps) = [k \in 1..n |-> at(k)]
  BY DEF Ascending, Before
<1>3. ASSUME NEW k \in 1..n
      PROVE  \E j \in 1..n : at(k) = steps[j] /\ Cardinality(Before(steps, steps[j].order)) = k - 1
  <2>1. \E s \in {steps[j] : j \in 1..n} : Cardinality(Before(steps, s.order)) = k - 1
    BY PlaceTaken
  <2>2. at(k) \in {steps[j] : j \in 1..n} /\ Cardinality(Before(steps, at(k).order)) = k - 1
    BY <2>1
  <2>3. QED
    BY <2>2
<1> HIDE DEF at
<1>4. \A k \in 1..n : at(k) \in RunbookStep
  BY <1>1, <1>3
<1>5. Ascending(steps) \in Seq(RunbookStep) /\ Len(Ascending(steps)) = n
  <2>1. Ascending(steps) \in [1..n -> RunbookStep]
    BY <1>2, <1>4
  <2>2. QED
    BY <1>1, <2>1, LenProperties, IsASeq
<1>6. ASSUME NEW k \in 1..n, NEW l \in 1..n, k < l
      PROVE  at(k).order < at(l).order
  <2>1. PICK i \in 1..n : at(k) = steps[i] /\ Cardinality(Before(steps, steps[i].order)) = k - 1
    BY <1>3
  <2>2. PICK j \in 1..n : at(l) = steps[j] /\ Cardinality(Before(steps, steps[j].order)) = l - 1
    BY <1>3
  <2>3. QED
    BY <1>1, <1>6, <2>1, <2>2, BeforeGrows
<1>7. QED
  BY <1>2, <1>3, <1>5, <1>6

\* Backwards they are in falling order.
LEMMA DescendingSorts ==
    ASSUME NEW steps, Listed(steps)
    PROVE  /\ Descending(steps) \in Seq(RunbookStep)
           /\ Len(Descending(steps)) = Len(steps)
           /\ \A k \in 1..Len(steps) : \E j \in 1..Len(steps) : Descending(steps)[k] = steps[j]
           /\ \A k, l \in 1..Len(steps) : k < l => Descending(steps)[k].order > Descending(steps)[l].order
<1> DEFINE n == Len(steps)
           a == Ascending(steps)
<1>1. n \in Nat
  BY Stored
<1>2. /\ \A k \in 1..n : \E j \in 1..n : a[k] = steps[j]
      /\ \A k, l \in 1..n : k < l => a[k].order < a[l].order
  BY AscendingSorts
<1>3. \A k \in 1..n : a[k] \in RunbookStep /\ a[k].order \in Int
  BY <1>2, Stored
<1>4. Descending(steps) = [k \in 1..n |-> a[n + 1 - k]]
  BY DEF Descending
<1> HIDE DEF n, a
<1>5. \A k \in 1..n : n + 1 - k \in 1..n
  BY <1>1
<1>6. Descending(steps) \in Seq(RunbookStep) /\ Len(Descending(steps)) = n
  <2>1. Descending(steps) \in [1..n -> RunbookStep]
    BY <1>3, <1>4, <1>5
  <2>2. QED
    BY <1>1, <2>1, LenProperties, IsASeq
<1>7. \A k \in 1..n : \E j \in 1..n : Descending(steps)[k] = steps[j]
  <2> TAKE k \in 1..n
  <2>1. \E j \in 1..n : a[n + 1 - k] = steps[j]
    BY <1>2, <1>5
  <2>2. QED
    BY <1>4, <2>1
<1>8. ASSUME NEW k \in 1..n, NEW l \in 1..n, k < l
      PROVE  Descending(steps)[k].order > Descending(steps)[l].order
  <2>1. n + 1 - l \in 1..n /\ n + 1 - k \in 1..n /\ n + 1 - l < n + 1 - k
    BY <1>1, <1>8
  <2>2. a[n + 1 - l].order < a[n + 1 - k].order
    BY <1>2, <2>1
  <2>3. QED
    BY <1>3, <1>4, <2>1, <2>2
<1>9. QED
  BY <1>6, <1>7, <1>8 DEF n

\* What every execution runs: its steps in rising order and its rollback steps in falling
\* order.
LEMMA Plans ==
    ASSUME NEW e \in Executions
    PROVE  /\ Forward[e] \in Seq(RunbookStep) /\ Len(Forward[e]) = Len(StepsOf[e])
           /\ Len(StepsOf[e]) \in Nat \ {0}
           /\ \A k \in 1..Len(Forward[e]) : \E j \in 1..Len(StepsOf[e]) : Forward[e][k] = StepsOf[e][j]
           /\ \A k, l \in 1..Len(Forward[e]) : k < l => Forward[e][k].order < Forward[e][l].order
           /\ Backward[e] \in Seq(RunbookStep) /\ Len(Backward[e]) = Len(RollbackOf[e])
           /\ \A k \in 1..Len(Backward[e]) : \E j \in 1..Len(RollbackOf[e]) : Backward[e][k] = RollbackOf[e][j]
           /\ \A k, l \in 1..Len(Backward[e]) : k < l => Backward[e][k].order > Backward[e][l].order
<1>1. Listed(StepsOf[e]) /\ Listed(RollbackOf[e]) /\ StepsOf[e] # << >>
  BY PlanAssumption
<1>2. Forward[e] = Ascending(StepsOf[e]) /\ Backward[e] = Descending(RollbackOf[e])
  BY DEF Forward, Backward
<1>3. Len(StepsOf[e]) \in Nat \ {0}
  BY <1>1, DropFirst DEF Listed
<1> DEFINE s == StepsOf[e]
           u == RollbackOf[e]
<1> HIDE DEF s, u
<1>4. Listed(s) /\ Listed(u)
  BY <1>1 DEF s, u
<1>5. /\ Ascending(s) \in Seq(RunbookStep) /\ Len(Ascending(s)) = Len(s)
      /\ \A k \in 1..Len(s) : \E j \in 1..Len(s) : Ascending(s)[k] = s[j]
      /\ \A k, l \in 1..Len(s) : k < l => Ascending(s)[k].order < Ascending(s)[l].order
  BY <1>4, AscendingSorts
<1>6. /\ Descending(u) \in Seq(RunbookStep) /\ Len(Descending(u)) = Len(u)
      /\ \A k \in 1..Len(u) : \E j \in 1..Len(u) : Descending(u)[k] = u[j]
      /\ \A k, l \in 1..Len(u) : k < l => Descending(u)[k].order > Descending(u)[l].order
  BY <1>4, DescendingSorts
<1>7. QED
  BY <1>2, <1>3, <1>5, <1>6 DEF s, u

-----------------------------------------------------------------------------
(* Results *)

\* What a step may record is a result.
LEMMA OutcomeTypes ==
    ASSUME NEW s \in RunbookStep, NEW x \in OutcomesOf(s)
    PROVE  x \in Result
<1>1. s.order \in Int /\ s.retries \in Nat
  BY StepFields
<1>2. QED
  BY <1>1 DEF OutcomesOf, Outcome, Result

LEMMA NoResults ==
    /\ ~AnyBad(<< >>)
    /\ \A steps \in Seq(RunbookStep) : Follows(<< >>, steps)
  BY EmptySeq, LenProperties DEF AnyBad, Follows

\* The next result.
LEMMA OneMoreResult ==
    ASSUME NEW r \in Seq(Result), NEW x \in Result
    PROVE  /\ Append(r, x) \in Seq(Result) /\ Len(Append(r, x)) = Len(r) + 1 /\ Len(r) \in Nat
           /\ AnyBad(Append(r, x)) <=> AnyBad(r) \/ Bad(x)
<1> DEFINE t == Append(r, x)
<1>1. /\ t \in Seq(Result) /\ Len(r) \in Nat /\ Len(t) = Len(r) + 1
      /\ \A j \in 1..Len(r) : t[j] = r[j]
      /\ t[Len(r) + 1] = x
  BY AppendOne
<1> HIDE DEF t
<1>2. ASSUME AnyBad(r)
      PROVE  AnyBad(t)
  BY <1>1, <1>2 DEF AnyBad
<1>3. ASSUME Bad(x)
      PROVE  AnyBad(t)
  <2>1. Len(r) + 1 \in 1..Len(t)
    BY <1>1
  <2>2. QED
    BY <1>1, <1>3, <2>1 DEF AnyBad
<1>4. ASSUME AnyBad(t), ~Bad(x)
      PROVE  AnyBad(r)
  <2>1. PICK k \in 1..Len(t) : Bad(t[k])
    BY <1>4 DEF AnyBad
  <2>2. k # Len(r) + 1
    BY <1>1, <1>4, <2>1
  <2>3. k \in 1..Len(r)
    BY <1>1, <2>1, <2>2
  <2>4. QED
    BY <1>1, <2>1, <2>3 DEF AnyBad
<1>5. QED
  BY <1>1, <1>2, <1>3, <1>4 DEF t

LEMMA FollowsOn ==
    ASSUME NEW r \in Seq(Result), NEW steps \in Seq(RunbookStep), Follows(r, steps), Len(r) < Len(steps),
           NEW x \in OutcomesOf(steps[Len(r) + 1])
    PROVE  x \in Result /\ Follows(Append(r, x), steps)
<1>1. Len(r) \in Nat /\ Len(steps) \in Nat /\ Len(r) + 1 \in 1..Len(steps)
  BY LenProperties
<1>2. steps[Len(r) + 1] \in RunbookStep
  BY <1>1, ElementOfSeq
<1>3. x \in Result
  BY <1>2, OutcomeTypes
<1> DEFINE t == Append(r, x)
<1>4. /\ Len(t) = Len(r) + 1 /\ t[Len(r) + 1] = x
      /\ \A j \in 1..Len(r) : t[j] = r[j]
  BY <1>3, AppendOne
<1> HIDE DEF t
<1>5. ASSUME NEW k \in 1..Len(t)
      PROVE  t[k] \in OutcomesOf(steps[k])
  <2>1. CASE k = Len(r) + 1
    BY <1>4, <2>1
  <2>2. CASE k # Len(r) + 1
    <3>1. k \in 1..Len(r)
      BY <1>1, <1>4, <2>2
    <3>2. QED
      BY <1>4, <3>1 DEF Follows
  <2>3. QED
    BY <2>1, <2>2
<1>6. QED
  BY <1>1, <1>3, <1>4, <1>5 DEF Follows, t
=============================================================================
