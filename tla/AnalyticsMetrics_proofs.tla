----------------------- MODULE AnalyticsMetrics_proofs -----------------------
(***************************************************************************)
(* Proofs about AnalyticsMetrics, for every table, every number of         *)
(* requests, replicas and faults, every pool and time to live: what the    *)
(* calendar gives on every day, the inductive invariant IInv, *)
(* and that every frequency and every trend that is answered is true.      *)
(***************************************************************************)
EXTENDS AnalyticsMetrics, FiniteSetTheorems, WellFoundedInduction, TLAPS

-----------------------------------------------------------------------------
(* The calendar *)

\* A year has 365 or 366 days.
LEMMA Years ==
    ASSUME NEW y \in Int, NEW k \in Nat
    PROVE  /\ YearStart(y) \in Int
           /\ YearStart(y + k) - YearStart(y) \in (365 * k)..(366 * k)
           /\ YearStart(y + 1) - YearStart(y) \in {365, 366}
           /\ YearStart(1970) = 0
BY DEF YearStart

\* The year of a day within one.
About(d) == 1970 + (400 * d) \div 146097

YearHas(y, d) == YearStart(y) <= d /\ d < YearStart(y + 1)

\* Every day lies in a year, and the year that is found has it.
LEMMA YearExists ==
    ASSUME NEW d \in Int
    PROVE  About(d) \in Int /\ \E y \in (About(d) - 1)..(About(d) + 1) : YearHas(y, d)
<1> DEFINE g == About(d)
<1>1. g \in Int
  BY DEF About
<1>2. YearStart(g - 1) <= d /\ d < YearStart(g + 2)
  BY DEF YearStart, About
<1>3. PICK y \in (g - 1)..(g + 1) : YearStart(y) <= d /\ d < YearStart(y + 1)
  <2> HIDE DEF g
  <2>1. /\ YearStart(g - 1) \in Int /\ YearStart(g) \in Int /\ YearStart(g + 1) \in Int /\ YearStart(g + 2) \in Int
    BY <1>1 DEF YearStart
  <2>2. /\ (g - 1) + 1 = g /\ (g + 1) + 1 = g + 2 /\ g - 1 \in Int /\ g + 1 \in Int
    BY <1>1
  <2>3. CASE d < YearStart(g)
    BY <1>2, <2>1, <2>2, <2>3
  <2>4. CASE ~(d < YearStart(g)) /\ d < YearStart(g + 1)
    BY <1>1, <1>2, <2>1, <2>2, <2>4
  <2>5. CASE ~(d < YearStart(g + 1))
    BY <1>2, <2>1, <2>2, <2>5
  <2>6. QED
    BY <2>3, <2>4, <2>5
<1>4. QED
  BY <1>1, <1>3 DEF YearHas

LEMMA YearFound ==
    ASSUME NEW d \in Int
    PROVE  /\ YearOf[d] \in Int /\ YearStart(YearOf[d]) <= d /\ d < YearStart(YearOf[d] + 1)
<1> DEFINE R == (About(d) - 1)..(About(d) + 1)
<1>1. YearOf[d] = CHOOSE y \in R : YearHas(y, d)
  BY DEF YearOf, About, YearHas
<1>2. (\E y \in R : YearHas(y, d)) /\ R \subseteq Int
  <2>1. \A g \in Int : (g - 1)..(g + 1) \subseteq Int
    OBVIOUS
  <2>2. QED
    BY <2>1, YearExists
<1>3. PICK year : year = YearOf[d]
  OBVIOUS
<1> HIDE DEF R
<1>4. year \in R /\ YearHas(year, d)
  BY <1>1, <1>2, <1>3
<1>5. year \in Int
  BY <1>2, <1>4
<1>6. YearStart(year) <= d /\ d < YearStart(year + 1)
  BY <1>4 DEF YearHas
<1>7. QED
  BY <1>3, <1>5, <1>6

\* No other year has the day.
LEMMA YearUnique ==
    ASSUME NEW y \in Int, NEW z \in Int, NEW d \in Int,
           YearStart(y) <= d, d < YearStart(y + 1), YearStart(z) <= d, d < YearStart(z + 1)
    PROVE  y = z
BY DEF YearStart

LEMMA YearType == \A y \in Int : YearStart(y) \in Int
BY DEF YearStart

\* The days before each month of a year that has 365.
Before == <<0, 31, 59, 90, 120, 151, 181, 212, 243, 273, 304, 334>>

\* Month n begins within its year.
FirstIn(y, m) == YearStart(y) + Before[m + 1]
                   + (IF m > 1 /\ YearStart(y + 1) - YearStart(y) = 366 THEN 1 ELSE 0)

LEMMA FirstIs ==
    ASSUME NEW n \in Int
    PROVE  FirstOfMonth[n] = FirstIn(n \div 12, n % 12)
BY DEF FirstOfMonth, FirstIn, Before

LEMMA Days == /\ \A m \in 0..11 : Before[m + 1] \in Nat /\ Before[m + 1] <= 334
              /\ \A m \in 0..10 : Before[m + 2] - Before[m + 1] \in 28..31
              /\ Before[1] = 0 /\ Before[12] = 334 /\ Before[3] - Before[2] = 28
BY DEF Before

\* A month has 28 days at least, and 31 at most, and it lies in its year.
LEMMA Months ==
    ASSUME NEW n \in Int
    PROVE  /\ FirstOfMonth[n] \in Int
           /\ FirstOfMonth[n + 1] - FirstOfMonth[n] \in 28..31
           /\ YearStart(n \div 12) <= FirstOfMonth[n]
           /\ FirstOfMonth[n + 1] <= YearStart(n \div 12 + 1)
           /\ n % 12 = 0 => FirstOfMonth[n] = YearStart(n \div 12)
           /\ n % 12 = 11 => FirstOfMonth[n + 1] = YearStart(n \div 12 + 1)
<1>1. PICK y \in Int, m \in 0..11 : n \div 12 = y /\ n % 12 = m /\ n = 12 * y + m
  OBVIOUS
<1>2. /\ YearStart(y) \in Int /\ YearStart(y + 1) \in Int /\ YearStart(y + 1 + 1) \in Int
      /\ YearStart(y + 1) - YearStart(y) \in {365, 366}
  <2>1. y \in Int /\ y + 1 \in Int /\ y + 1 + 1 \in Int /\ 0 \in Nat
    OBVIOUS
  <2>2. QED
    BY <2>1, YearType, Years
<1>3. FirstOfMonth[n] = YearStart(y) + Before[m + 1]
          + (IF m > 1 /\ YearStart(y + 1) - YearStart(y) = 366 THEN 1 ELSE 0)
  <2>1. FirstOfMonth[n] = FirstIn(y, m)
    BY <1>1, FirstIs
  <2>2. QED
    BY <2>1 DEF FirstIn
<1>4. /\ Before[m + 1] \in Nat /\ Before[m + 1] <= 334
      /\ (m <= 10 => Before[m + 2] - Before[m + 1] \in 28..31)
      /\ Before[1] = 0 /\ Before[12] = 334 /\ (m = 1 => Before[m + 2] - Before[m + 1] = 28)
      /\ m <= 10 => Before[m + 2] \in Nat /\ Before[m + 2] <= 334
  <2>1. m <= 10 => m \in 0..10 /\ m + 1 \in 0..11 /\ (m + 1) + 1 = m + 2
    OBVIOUS
  <2>2. m <= 10 => /\ Before[(m + 1) + 1] \in Nat /\ Before[(m + 1) + 1] <= 334
                   /\ Before[m + 2] - Before[m + 1] \in 28..31
    <3>1. m <= 10 => Before[(m + 1) + 1] \in Nat /\ Before[(m + 1) + 1] <= 334
      BY <2>1, Days
    <3>2. m <= 10 => Before[m + 2] - Before[m + 1] \in 28..31
      BY <2>1, Days
    <3>3. QED
      BY <3>1, <3>2
  <2>3. m = 1 => Before[m + 2] - Before[m + 1] = 28
    BY Days
  <2>4. QED
    BY <2>1, <2>2, <2>3, Days
<1>5. CASE m <= 10
  <2>1. n + 1 \in Int /\ m + 1 \in 0..11 /\ (n + 1) \div 12 = y /\ (n + 1) % 12 = m + 1 /\ (m + 1) + 1 = m + 2
    BY <1>1, <1>5
  <2>2. FirstOfMonth[n + 1] = YearStart(y) + Before[(m + 1) + 1]
          + (IF m + 1 > 1 /\ YearStart(y + 1) - YearStart(y) = 366 THEN 1 ELSE 0)
    <3>1. FirstOfMonth[n + 1] = FirstIn(y, m + 1)
      BY <2>1, FirstIs
    <3>2. QED
      BY <3>1 DEF FirstIn
  <2>3. Before[(m + 1) + 1] = Before[m + 2]
    BY <2>1
  <2>4. PICK b, c, s, e : b = Before[m + 1] /\ c = Before[m + 2] /\ s = YearStart(y) /\ e = YearStart(y + 1)
    OBVIOUS
  <2>5. FirstOfMonth[n] = s + b + (IF m > 1 /\ e - s = 366 THEN 1 ELSE 0)
    BY <1>3, <2>4
  <2>6. FirstOfMonth[n + 1] = s + c + (IF m + 1 > 1 /\ e - s = 366 THEN 1 ELSE 0)
    BY <2>2, <2>3, <2>4
  <2>7. /\ b \in Nat /\ b <= 334 /\ c \in Nat /\ c <= 334
        /\ c - b \in 28..31 /\ (m = 1 => c - b = 28) /\ (m = 0 => b = 0)
        /\ e - s \in {365, 366} /\ s \in Int /\ e \in Int
    BY <1>2, <1>4, <1>5, <2>4
  <2>8. /\ FirstOfMonth[n] \in Int /\ FirstOfMonth[n + 1] - FirstOfMonth[n] \in 28..31
        /\ s <= FirstOfMonth[n] /\ FirstOfMonth[n + 1] <= e /\ (m = 0 => FirstOfMonth[n] = s)
    BY <1>5, <2>5, <2>6, <2>7
  <2>9. QED
    BY <1>1, <1>5, <2>4, <2>8
<1>6. CASE m = 11
  <2>1. n + 1 \in Int /\ 0 \in 0..11 /\ y + 1 \in Int /\ (n + 1) \div 12 = y + 1 /\ (n + 1) % 12 = 0
    BY <1>1, <1>6
  <2>2. FirstOfMonth[n + 1] = YearStart(y + 1) + Before[0 + 1]
          + (IF 0 > 1 /\ YearStart(y + 1 + 1) - YearStart(y + 1) = 366 THEN 1 ELSE 0)
    <3>1. FirstOfMonth[n + 1] = FirstIn(y + 1, 0)
      BY <2>1, FirstIs
    <3>2. QED
      BY <3>1 DEF FirstIn
  <2>3. Before[0 + 1] = 0 /\ Before[m + 1] = 334
    BY <1>6, Days
  <2>4. QED
    BY <1>1, <1>2, <1>3, <1>4, <1>6, <2>2, <2>3
<1>7. QED
  BY <1>5, <1>6

\* The months follow each other.
LEMMA MonthsRise ==
    ASSUME NEW n \in Int, NEW k \in Int, n < k
    PROVE  FirstOfMonth[n + 1] <= FirstOfMonth[k]
<1>1. PICK y \in Int, z \in Int : y = n \div 12 /\ z = k \div 12 /\ y <= z
  OBVIOUS
<1>2. CASE y < z
  <2>1. FirstOfMonth[n + 1] <= YearStart(y + 1) /\ YearStart(z) <= FirstOfMonth[k]
    BY <1>1, Months
  <2>2. YearStart(y + 1) <= YearStart(z)
    BY <1>1, <1>2 DEF YearStart
  <2>3. YearStart(y + 1) \in Int /\ YearStart(z) \in Int /\ FirstOfMonth[n + 1] \in Int /\ FirstOfMonth[k] \in Int
    <3>1. n + 1 \in Int /\ y + 1 \in Int
      OBVIOUS
    <3>2. QED
      BY <3>1, YearType, Months
  <2>4. QED
    BY <2>1, <2>2, <2>3
<1>3. CASE y = z
  <2> DEFINE G(j) == FirstOfMonth[n + 1] <= FirstOfMonth[n + j]
  <2>1. ASSUME NEW j \in 1..10
        PROVE  G(j) => G(j + 1)
    <3>1. n + j \in Int /\ n + 1 \in Int /\ n + (j + 1) = (n + j) + 1 /\ (n + j) + 1 \in Int
      OBVIOUS
    <3>2. FirstOfMonth[n + 1] \in Int /\ FirstOfMonth[n + j] \in Int /\ FirstOfMonth[(n + j) + 1] \in Int
      BY <3>1, Months
    <3>3. FirstOfMonth[(n + j) + 1] - FirstOfMonth[n + j] \in 28..31
      BY <3>1, Months
    <3>4. QED
      BY <3>1, <3>2, <3>3
  <2>2. G(1)
    <3>1. FirstOfMonth[n + 1] \in Int
      BY Months
    <3>2. QED
      BY <3>1
  <2> HIDE DEF G
  <2>3. G(2) /\ G(3) /\ G(4)
    BY <2>1, <2>2
  <2>4. G(5) /\ G(6) /\ G(7)
    BY <2>1, <2>3
  <2>5. G(8) /\ G(9) /\ G(10) /\ G(11)
    BY <2>1, <2>4
  <2>6. PICK j \in 1..11 : k = n + j
    BY <1>1, <1>3
  <2>7. G(j)
    BY <2>2, <2>3, <2>4, <2>5
  <2>8. QED
    BY <2>6, <2>7 DEF G
<1>4. QED
  BY <1>1, <1>2, <1>3

\* Every day lies in one month.
LEMMA MonthExists ==
    ASSUME NEW y \in Int, NEW d \in Int, YearStart(y) <= d, d < YearStart(y + 1)
    PROVE  \E n \in (12 * y)..(12 * y + 11) : FirstOfMonth[n] <= d /\ d < FirstOfMonth[n + 1]
<1>1. \A j \in (12 * y)..(12 * y + 12) : FirstOfMonth[j] \in Int
  BY Months
<1>2. FirstOfMonth[12 * y] = YearStart(y)
  <2>1. 12 * y \in Int /\ (12 * y) \div 12 = y /\ (12 * y) % 12 = 0
    OBVIOUS
  <2>2. QED
    BY <2>1, Months
<1>3. FirstOfMonth[12 * y + 12] = YearStart(y + 1)
  <2>1. 12 * y + 11 \in Int /\ (12 * y + 11) \div 12 = y /\ (12 * y + 11) % 12 = 11 /\ (12 * y + 11) + 1 = 12 * y + 12
    OBVIOUS
  <2>2. QED
    BY <2>1, Months
<1>4. SUFFICES ASSUME \A n \in (12 * y)..(12 * y + 11) : FirstOfMonth[n] <= d => ~(d < FirstOfMonth[n + 1])
               PROVE  FALSE
  OBVIOUS
<1>5. \A j \in 0..11 : FirstOfMonth[12 * y + j] <= d => FirstOfMonth[12 * y + (j + 1)] <= d
  BY <1>1, <1>4
<1> DEFINE F(j) == FirstOfMonth[12 * y + j] <= d
<1>6. F(0) /\ ~F(12)
  BY <1>1, <1>2, <1>3
<1>7. \A j \in 0..11 : F(j) => F(j + 1)
  BY <1>5
<1> HIDE DEF F
<1>8. F(1) /\ F(2) /\ F(3)
  BY <1>6, <1>7
<1>9. F(4) /\ F(5) /\ F(6)
  BY <1>7, <1>8
<1>10. F(7) /\ F(8) /\ F(9)
  BY <1>7, <1>9
<1>11. F(10) /\ F(11) /\ F(12)
  BY <1>7, <1>10
<1>12. QED
  BY <1>6, <1>11

LEMMA MonthFound ==
    ASSUME NEW d \in Int
    PROVE  /\ MonthOf[d] \in (12 * YearOf[d])..(12 * YearOf[d] + 11) /\ MonthOf[d] \in Int
           /\ FirstOfMonth[MonthOf[d]] <= d /\ d < FirstOfMonth[MonthOf[d] + 1]
<1>1. PICK year \in Int : year = YearOf[d] /\ YearStart(year) <= d /\ d < YearStart(year + 1)
  BY YearFound
<1> DEFINE R == (12 * year)..(12 * year + 11)
           Q(n) == FirstOfMonth[n] <= d /\ d < FirstOfMonth[n + 1]
<1>2. MonthOf[d] = CHOOSE n \in R : Q(n)
  BY <1>1 DEF MonthOf
<1>3. (\E n \in R : Q(n)) /\ R \subseteq Int
  <2>1. \E n \in R : Q(n)
    BY <1>1, MonthExists
  <2>2. QED
    BY <1>1, <2>1
<1>4. PICK month : month = MonthOf[d]
  OBVIOUS
<1> HIDE DEF R, Q
<1>5. month \in R /\ Q(month)
  BY <1>2, <1>3, <1>4
<1>6. month \in Int
  BY <1>3, <1>5
<1>7. month \in (12 * year)..(12 * year + 11) /\ FirstOfMonth[month] <= d /\ d < FirstOfMonth[month + 1]
  BY <1>5 DEF Q, R
<1>8. QED
  BY <1>1, <1>4, <1>6, <1>7

\* No other month has the day.
LEMMA MonthIs ==
    ASSUME NEW d \in Int, NEW n \in Int, FirstOfMonth[n] <= d, d < FirstOfMonth[n + 1]
    PROVE  MonthOf[d] = n
<1>1. PICK m \in Int : m = MonthOf[d] /\ FirstOfMonth[m] <= d /\ d < FirstOfMonth[m + 1]
  BY MonthFound
<1>2. /\ FirstOfMonth[m] \in Int /\ FirstOfMonth[n] \in Int
      /\ FirstOfMonth[m + 1] \in Int /\ FirstOfMonth[n + 1] \in Int
  <2>1. m + 1 \in Int /\ n + 1 \in Int
    OBVIOUS
  <2>2. QED
    BY <2>1, Months
<1>3. ~(m < n) /\ ~(n < m)
  BY <1>1, <1>2, MonthsRise
<1>4. QED
  BY <1>1, <1>3

-----------------------------------------------------------------------------
(* Buckets *)

\* Buckets are the truncated days of a range, in order, and nothing else.
Divides(interval, first, last, buckets, n) ==
    /\ n \in Nat \ {0} /\ n <= 366 /\ DOMAIN buckets = 1..n /\ \A k \in 1..n : buckets[k] \in Int
    /\ buckets[1] = Truncated(interval, first) /\ buckets[n] = Truncated(interval, last)
    /\ \A k \in 2..n : Truncated(interval, buckets[k] - 1) = buckets[k - 1]
    /\ \A d \in first..last : \A k \in 1..n :
          Truncated(interval, d) = buckets[k] <=> d >= buckets[k] /\ (k < n => d < buckets[k + 1])

LEMMA DaysOf ==
    ASSUME NEW start \in Int, NEW end \in Int, ValidRange(start, end)
    PROVE  Day(start) \in Int /\ Day(end) \in Int /\ 0 <= Day(end) - Day(start) /\ Day(end) - Day(start) <= 365
BY DEF Day, DayTicks, ValidRange

LEMMA DailyDivides ==
    ASSUME NEW first \in Int, NEW last \in Int, first <= last, last - first <= 365
    PROVE  Divides("daily", first, last, EverySo(1, first, last), last - first + 1)
<1>1. (last - first) \div 1 + 1 = last - first + 1
  OBVIOUS
<1>2. EverySo(1, first, last) = [k \in 1..(last - first + 1) |-> first + 1 * (k - 1)]
  BY <1>1 DEF EverySo
<1>3. \A d : Truncated("daily", d) = d
  BY DEF Truncated
<1> DEFINE b == EverySo(1, first, last)
<1>4. /\ last - first + 1 \in Nat \ {0} /\ last - first + 1 <= 366
      /\ DOMAIN b = 1..(last - first + 1)
      /\ \A k \in 1..(last - first + 1) : b[k] = first + (k - 1)
  BY <1>2
<1> HIDE DEF b
<1>5. b[1] = first /\ b[last - first + 1] = last /\ \A k \in 1..(last - first + 1) : b[k] \in Int
  BY <1>4
<1>6. \A k \in 2..(last - first + 1) : b[k] - 1 = b[k - 1]
  <2>1. \A k \in 2..(last - first + 1) : /\ k \in 1..(last - first + 1) /\ k - 1 \in 1..(last - first + 1)
                                         /\ (first + (k - 1)) - 1 = first + ((k - 1) - 1)
    OBVIOUS
  <2>2. QED
    BY <1>4, <2>1
<1>7. ASSUME NEW d \in first..last, NEW k \in 1..(last - first + 1)
      PROVE  d = b[k] <=> d >= b[k] /\ (k < last - first + 1 => d < b[k + 1])
  <2>1. b[k] = first + (k - 1) /\ (k < last - first + 1 => b[k + 1] = first + k)
    <3>1. k < last - first + 1 => k + 1 \in 1..(last - first + 1) /\ first + ((k + 1) - 1) = first + k
      OBVIOUS
    <3>2. QED
      BY <1>4, <3>1
  <2>2. QED
    BY <2>1
<1>8. Divides("daily", first, last, b, last - first + 1)
  BY <1>3, <1>4, <1>5, <1>6, <1>7 DEF Divides
<1>9. QED
  BY <1>8 DEF b

\* A week begins on its Monday.
LEMMA Mondays ==
    ASSUME NEW d \in Int
    PROVE  /\ Truncated("weekly", d) \in (d - 6)..d
           /\ (Truncated("weekly", d) + 3) % 7 = 0
           /\ d + (IF WeekDay(d) = 0 THEN -6 ELSE 1 - WeekDay(d)) = Truncated("weekly", d)
<1>1. PICK w \in 0..6 : w = WeekDay(d) /\ w = (d + 4) % 7
  BY DEF WeekDay
<1>2. Truncated("weekly", d) = d + 1 - (IF w = 0 THEN 7 ELSE w)
  BY <1>1 DEF Truncated, FromMonday
<1>3. d + (IF WeekDay(d) = 0 THEN -6 ELSE 1 - WeekDay(d)) = d + 1 - (IF w = 0 THEN 7 ELSE w)
  BY <1>1
<1>4. QED
  BY <1>1, <1>2, <1>3

\* The weeks follow each other seven days apart.
LEMMA Sevens ==
    ASSUME NEW w \in Int, (w + 3) % 7 = 0
    PROVE  /\ \A j \in Int : (w + 7 * j + 3) % 7 = 0
           /\ \A v \in Int : (v + 3) % 7 = 0 => \E q \in Int : v = w + 7 * q
<1>1. PICK a \in Int : w + 3 = 7 * a
  OBVIOUS
<1>2. ASSUME NEW j \in Int
      PROVE  (w + 7 * j + 3) % 7 = 0
  <2>1. PICK b \in Int : b = a + j
    OBVIOUS
  <2>2. w + 7 * j + 3 = 7 * b /\ (7 * b) % 7 = 0
    BY <1>1, <2>1
  <2>3. QED
    BY <2>2
<1>3. ASSUME NEW v \in Int, (v + 3) % 7 = 0
      PROVE  \E q \in Int : v = w + 7 * q
  <2>1. PICK b \in Int : v + 3 = 7 * b
    BY <1>3
  <2>2. PICK q \in Int : q = b - a
    OBVIOUS
  <2>3. v = w + 7 * q
    BY <1>1, <2>1, <2>2
  <2>4. QED
    BY <2>3
<1>4. QED
  BY <1>2, <1>3

\* A week is the seven days from its Monday.
LEMMA WeekHas ==
    ASSUME NEW w \in Int, (w + 3) % 7 = 0, NEW d \in Int
    PROVE  Truncated("weekly", d) = w <=> d >= w /\ d < w + 7
<1>1. PICK t \in Int : t = Truncated("weekly", d) /\ t \in (d - 6)..d /\ (t + 3) % 7 = 0
  BY Mondays
<1>2. PICK q \in Int : t = w + 7 * q
  BY <1>1, Sevens
<1>3. t <= d /\ d <= t + 6
  BY <1>1
<1>4. t = w <=> d >= w /\ d < w + 7
  <2>1. CASE q = 0
    BY <1>2, <1>3, <2>1
  <2>2. CASE q >= 1
    BY <1>2, <1>3, <2>2
  <2>3. CASE q <= -1
    BY <1>2, <1>3, <2>3
  <2>4. QED
    BY <2>1, <2>2, <2>3
<1>5. QED
  BY <1>1, <1>4

LEMMA WeeklyDivides ==
    ASSUME NEW first \in Int, NEW last \in Int, first <= last, last - first <= 365
    PROVE  LET monday == Truncated("weekly", first)
           IN  Divides("weekly", first, last, EverySo(7, monday, last), (last - monday) \div 7 + 1)
<1>1. PICK monday \in Int : monday = Truncated("weekly", first) /\ monday \in (first - 6)..first
                              /\ (monday + 3) % 7 = 0
  BY Mondays
<1>2. PICK n \in Nat \ {0} : n <= 366 /\ n = (last - monday) \div 7 + 1
  BY <1>1
<1>3. EverySo(7, monday, last) = [k \in 1..n |-> monday + 7 * (k - 1)]
  BY <1>2 DEF EverySo
<1>4. ASSUME NEW d \in Int, NEW k \in 1..n
      PROVE  Truncated("weekly", d) = monday + 7 * (k - 1)
                <=> d >= monday + 7 * (k - 1) /\ d < monday + 7 * k
  <2>1. PICK w \in Int : w = monday + 7 * (k - 1)
    OBVIOUS
  <2>2. (w + 3) % 7 = 0
    <3>1. k - 1 \in Int
      OBVIOUS
    <3>2. (monday + 7 * (k - 1) + 3) % 7 = 0
      BY <1>1, <3>1, Sevens
    <3>3. QED
      BY <2>1, <3>2
  <2>3. Truncated("weekly", d) = w <=> d >= w /\ d < w + 7
    BY <2>2, WeekHas
  <2>4. w + 7 = monday + 7 * k
    BY <2>1
  <2>5. QED
    BY <2>1, <2>3, <2>4
<1>5. ASSUME NEW k \in 2..n
      PROVE  Truncated("weekly", monday + 7 * (k - 1) - 1) = monday + 7 * ((k - 1) - 1)
  <2>1. PICK d \in Int, i \in 1..n : d = monday + 7 * (k - 1) - 1 /\ i = k - 1
    OBVIOUS
  <2>2. d >= monday + 7 * (i - 1) /\ d < monday + 7 * i
    BY <2>1
  <2>3. Truncated("weekly", d) = monday + 7 * (i - 1)
    BY <1>4, <2>2
  <2>4. QED
    BY <2>1, <2>3
<1>6. Truncated("weekly", last) = monday + 7 * (n - 1)
  <2>1. last \in Int /\ n \in 1..n /\ last >= monday + 7 * (n - 1) /\ last < monday + 7 * n
    BY <1>1, <1>2
  <2>2. QED
    BY <1>4, <2>1
<1>7. ASSUME NEW d \in first..last
      PROVE  d < monday + 7 * n
  BY <1>1, <1>2
<1> DEFINE b == EverySo(7, monday, last)
<1>8. DOMAIN b = 1..n /\ \A k \in 1..n : b[k] = monday + 7 * (k - 1)
  BY <1>3
<1> HIDE DEF b
<1>9. Divides("weekly", first, last, b, n)
  <2>1. b[1] = Truncated("weekly", first) /\ b[n] = Truncated("weekly", last) /\ \A k \in 1..n : b[k] \in Int
    <3>1. 1 \in 1..n /\ n \in 1..n /\ monday + 7 * (1 - 1) = monday
      OBVIOUS
    <3>2. b[1] = monday
      BY <1>8, <3>1
    <3>3. b[n] = Truncated("weekly", last)
      BY <1>6, <1>8, <3>1
    <3>4. \A k \in 1..n : monday + 7 * (k - 1) \in Int
      OBVIOUS
    <3>5. QED
      BY <1>1, <1>8, <3>2, <3>3, <3>4
  <2>2. ASSUME NEW k \in 2..n
        PROVE  Truncated("weekly", b[k] - 1) = b[k - 1]
    <3>1. k \in 1..n /\ k - 1 \in 1..n
      OBVIOUS
    <3>2. b[k] = monday + 7 * (k - 1) /\ b[k - 1] = monday + 7 * ((k - 1) - 1)
      BY <1>8, <3>1
    <3>3. QED
      BY <1>5, <3>2
  <2>3. ASSUME NEW d \in first..last, NEW k \in 1..n
        PROVE  Truncated("weekly", d) = b[k] <=> d >= b[k] /\ (k < n => d < b[k + 1])
    <3>1. b[k] = monday + 7 * (k - 1) /\ (k < n => b[k + 1] = monday + 7 * k)
      <4>1. k < n => k + 1 \in 1..n /\ monday + 7 * ((k + 1) - 1) = monday + 7 * k
        BY <1>1
      <4>2. QED
        BY <1>8, <4>1
    <3>2. d < monday + 7 * n
      BY <1>7
    <3>3. QED
      BY <1>1, <1>4, <3>1, <3>2
  <2>4. QED
    BY <1>2, <1>8, <2>1, <2>2, <2>3 DEF Divides
<1>10. QED
  BY <1>1, <1>2, <1>9 DEF b

\* No two months begin on one day.
LEMMA FirstDiffers ==
    ASSUME NEW n \in Int, NEW m \in Int, FirstOfMonth[n] = FirstOfMonth[m]
    PROVE  n = m
<1>1. \A i \in Int, j \in Int : i < j => FirstOfMonth[i] < FirstOfMonth[j]
  <2> SUFFICES ASSUME NEW i \in Int, NEW j \in Int, i < j
               PROVE  FirstOfMonth[i] < FirstOfMonth[j]
    OBVIOUS
  <2>1. FirstOfMonth[i + 1] <= FirstOfMonth[j]
    BY MonthsRise
  <2>2. FirstOfMonth[i] \in Int /\ FirstOfMonth[j] \in Int /\ FirstOfMonth[i + 1] - FirstOfMonth[i] \in 28..31
    BY Months
  <2>3. i + 1 \in Int
    OBVIOUS
  <2>4. FirstOfMonth[i + 1] \in Int
    BY <2>3, Months
  <2>5. QED
    BY <2>1, <2>2, <2>4
<1>2. FirstOfMonth[n] \in Int
  BY Months
<1>3. QED
  BY <1>1, <1>2

LEMMA MonthlyDivides ==
    ASSUME NEW first \in Int, NEW last \in Int, first <= last, last - first <= 365
    PROVE  LET n == MonthOf[last] - MonthOf[first] + 1
           IN  Divides("monthly", first, last, [k \in 1..n |-> FirstOfMonth[MonthOf[first] + k - 1]], n)
<1>1. PICK f \in Int : f = MonthOf[first] /\ FirstOfMonth[f] <= first /\ first < FirstOfMonth[f + 1]
  BY MonthFound
<1>2. PICK l \in Int : l = MonthOf[last] /\ FirstOfMonth[l] <= last /\ last < FirstOfMonth[l + 1]
  BY MonthFound
<1>3. \A m \in Int : /\ FirstOfMonth[m] \in Int /\ FirstOfMonth[m + 1] \in Int
                     /\ FirstOfMonth[m] < FirstOfMonth[m + 1]
  <2> SUFFICES ASSUME NEW m \in Int
               PROVE  /\ FirstOfMonth[m] \in Int /\ FirstOfMonth[m + 1] \in Int
                      /\ FirstOfMonth[m] < FirstOfMonth[m + 1]
    OBVIOUS
  <2>1. m + 1 \in Int
    OBVIOUS
  <2>2. FirstOfMonth[m] \in Int /\ FirstOfMonth[m + 1] \in Int
    BY <2>1, Months
  <2>3. FirstOfMonth[m + 1] - FirstOfMonth[m] \in 28..31
    BY Months
  <2>4. QED
    BY <2>2, <2>3
<1>4. f <= l
  <2>1. SUFFICES ASSUME l < f
                 PROVE  FALSE
    BY <1>1, <1>2
  <2>2. FirstOfMonth[l + 1] <= FirstOfMonth[f]
    BY <2>1, MonthsRise
  <2>3. QED
    BY <1>1, <1>2, <1>3, <2>2
<1>5. PICK n \in Nat \ {0} : n <= 366 /\ n = l - f + 1
  <2>1. PICK y \in Int : y = YearOf[first] /\ YearStart(y) <= first /\ first < YearStart(y + 1)
    BY YearFound
  <2>2. PICK z \in Int : z = YearOf[last] /\ YearStart(z) <= last /\ last < YearStart(z + 1)
    BY YearFound
  <2>3. z - y <= 2
    BY <2>1, <2>2 DEF YearStart
  <2>4. f \in (12 * y)..(12 * y + 11) /\ l \in (12 * z)..(12 * z + 11)
    BY <1>1, <1>2, <2>1, <2>2, MonthFound
  <2>5. QED
    BY <1>4, <2>3, <2>4
<1>6. \A d : Truncated("monthly", d) = FirstOfMonth[MonthOf[d]]
  BY DEF Truncated
<1> DEFINE b == [k \in 1..n |-> FirstOfMonth[f + k - 1]]
<1>7. DOMAIN b = 1..n /\ \A k \in 1..n : b[k] = FirstOfMonth[f + k - 1]
  OBVIOUS
<1> HIDE DEF b
<1>8. ASSUME NEW k \in 1..n
      PROVE  \E m \in Int : /\ m = f + k - 1 /\ b[k] = FirstOfMonth[m]
                            /\ k < n => b[k + 1] = FirstOfMonth[m + 1]
                            /\ k = n => m = l
                            /\ first < FirstOfMonth[m + 1]
  <2>1. PICK m \in Int : m = f + k - 1
    OBVIOUS
  <2>2. b[k] = FirstOfMonth[m]
    BY <1>7, <2>1
  <2>3. k < n => b[k + 1] = FirstOfMonth[m + 1]
    <3>1. f + (k + 1) - 1 = m + 1
      BY <2>1
    <3>2. k < n => k + 1 \in 1..n
      OBVIOUS
    <3>3. k < n => b[k + 1] = FirstOfMonth[f + (k + 1) - 1]
      BY <1>7, <3>2
    <3>4. QED
      BY <3>1, <3>3
  <2>4. k = n => m = l
    BY <1>5, <2>1
  <2>5. first < FirstOfMonth[m + 1]
    <3>1. CASE m = f
      BY <1>1, <3>1
    <3>2. CASE f < m
      <4>1. FirstOfMonth[f + 1] <= FirstOfMonth[m]
        BY <3>2, MonthsRise
      <4>2. QED
        BY <1>1, <1>3, <4>1
    <3>3. QED
      BY <2>1, <3>1, <3>2
  <2>6. QED
    BY <2>1, <2>2, <2>3, <2>4, <2>5
<1>9. b[1] = Truncated("monthly", first)
  <2>1. 1 \in 1..n /\ f + 1 - 1 = f
    OBVIOUS
  <2>2. b[1] = FirstOfMonth[f + 1 - 1]
    BY <1>7, <2>1
  <2>3. QED
    BY <1>1, <1>6, <2>1, <2>2
<1>10. b[n] = Truncated("monthly", last)
  BY <1>2, <1>6, <1>8
<1>11. ASSUME NEW k \in 2..n
       PROVE  Truncated("monthly", b[k] - 1) = b[k - 1]
  <2>1. PICK j \in 1..n : j = k - 1 /\ j < n /\ j + 1 = k
    OBVIOUS
  <2>2. PICK m \in Int : /\ b[j] = FirstOfMonth[m] /\ b[j + 1] = FirstOfMonth[m + 1]
                         /\ first < FirstOfMonth[m + 1]
    BY <1>8, <2>1
  <2>3. PICK d \in Int : d = FirstOfMonth[m + 1] - 1 /\ FirstOfMonth[m] <= d /\ d < FirstOfMonth[m + 1]
    BY <1>3, <2>2
  <2>4. MonthOf[d] = m
    BY <2>3, MonthIs
  <2>5. QED
    BY <1>6, <2>1, <2>2, <2>3, <2>4
<1>12. ASSUME NEW d \in first..last, NEW k \in 1..n
       PROVE  Truncated("monthly", d) = b[k] <=> d >= b[k] /\ (k < n => d < b[k + 1])
  <2>1. d \in Int
    OBVIOUS
  <2>2. PICK m \in Int : /\ b[k] = FirstOfMonth[m] /\ (k < n => b[k + 1] = FirstOfMonth[m + 1])
                         /\ (k = n => m = l)
    BY <1>8
  <2>3. PICK c \in Int : c = MonthOf[d] /\ FirstOfMonth[c] <= d /\ d < FirstOfMonth[c + 1]
    BY <2>1, MonthFound
  <2>4. ASSUME Truncated("monthly", d) = b[k]
        PROVE  d >= b[k] /\ (k < n => d < b[k + 1])
    <3>1. c = m
      BY <1>6, <2>2, <2>3, <2>4, FirstDiffers
    <3>2. QED
      BY <1>3, <2>1, <2>2, <2>3, <3>1
  <2>5. ASSUME d >= b[k], k < n => d < b[k + 1]
        PROVE  Truncated("monthly", d) = b[k]
    <3>1. d < FirstOfMonth[m + 1]
      <4>1. CASE k < n
        BY <2>2, <2>5, <4>1
      <4>2. CASE k = n
        BY <1>2, <1>3, <2>1, <2>2, <4>2
      <4>3. QED
        BY <4>1, <4>2
    <3>2. FirstOfMonth[m] <= d
      BY <1>3, <2>1, <2>2, <2>5
    <3>3. MonthOf[d] = m
      BY <2>1, <3>1, <3>2, MonthIs
    <3>4. QED
      BY <1>6, <2>2, <3>3
  <2>6. QED
    BY <2>4, <2>5
<1>13. \A k \in 1..n : b[k] \in Int
  BY <1>3, <1>8
<1>14. Divides("monthly", first, last, b, n)
  BY <1>5, <1>7, <1>9, <1>10, <1>11, <1>12, <1>13 DEF Divides
<1>15. QED
  BY <1>1, <1>2, <1>5, <1>14 DEF b

-----------------------------------------------------------------------------
(* The pools *)

\* A set that gains or loses one element.
LEMMA OneMore ==
    ASSUME NEW S, IsFiniteSet(S), NEW x, x \notin S
    PROVE  IsFiniteSet(S \cup {x}) /\ Cardinality(S \cup {x}) = Cardinality(S) + 1
                                   /\ Cardinality(S) \in Nat
BY FS_AddElement, FS_CardinalityType

LEMMA OneLess ==
    ASSUME NEW S, IsFiniteSet(S), NEW x \in S
    PROVE  IsFiniteSet(S \ {x}) /\ Cardinality(S \ {x}) = Cardinality(S) - 1
                                /\ Cardinality(S) \in Nat \ {0}
<1>1. IsFiniteSet(S \ {x}) /\ Cardinality(S \ {x}) = Cardinality(S) - 1
  BY FS_RemoveElement
<1>2. Cardinality(S) \in Nat /\ Cardinality(S \ {x}) \in Nat
  BY <1>1, FS_CardinalityType
<1>3. QED
  BY <1>1, <1>2

TypesOK == /\ clock \in 0..MaxClock /\ writes \in 0..MaxWrites /\ faults \in 0..MaxFaults
           /\ host \in [Requests -> Replicas] /\ host \in Hosts /\ query \in Workloads
           /\ incidents \subseteq Row /\ IsFiniteSet(incidents) /\ Keyed(incidents)
           /\ pc \in [Requests -> {"new", "lookup", "connect", "query", "store", "done"}]
           /\ DOMAIN computed = Requests /\ DOMAIN answer = Requests /\ DOMAIN today = Requests

PoolsOK == /\ clients \in [Replicas -> 0..PoolMax]
           /\ \A p \in Replicas : IsFiniteSet(Holders(p))
           /\ \A p \in Replicas : clients[p] + Cardinality(Holders(p)) = PoolMax

AnswersOK == \A r \in Requests : answer[r].status = 0 <=> pc[r] # "done"

StoredOK == /\ \A q \in DOMAIN cache : Sane(cache[q], q) /\ Fresh(cache[q])
            /\ \A r \in Requests :
                  /\ At(r, "query") => today[r] \in Int
                  /\ At(r, "store") => Sane(computed[r], query[r])

AcceptedOK == \A r \in Requests :
    pc[r] \in {"lookup", "connect", "query", "store"} \/ answer[r].status = 200 => Acceptable(query[r])

ServedOK == \A r \in Requests :
    answer[r].status = 200 => Sane(answer[r].entry, query[r]) /\ answer[r].age < TTL

LEMMA Parts ==
    IInv => /\ TypesOK /\ PoolsOK /\ AnswersOK /\ StoredOK /\ AcceptedOK /\ ServedOK
            /\ \A i \in incidents : i.id < NewIds + writes
<1>1. host \in Hosts => host \in [Requests -> Replicas]
  BY MetricsAssumption
<1>2. QED
  BY <1>1, Zenon DEF IInv, TypeOK, TypesOK, PoolsOK, AnswersOK, StoredOK, AcceptedOK, ServedOK

LEMMA Together ==
    ASSUME TypesOK, PoolsOK, AnswersOK, StoredOK, AcceptedOK, ServedOK,
           \A i \in incidents : i.id < NewIds + writes
    PROVE  IInv
BY Zenon DEF IInv, TypeOK, TypesOK, PoolsOK, AnswersOK, StoredOK, AcceptedOK, ServedOK

LEMMA TogetherNext ==
    ASSUME TypesOK', PoolsOK', AnswersOK', StoredOK', AcceptedOK', ServedOK',
           \A i \in incidents' : i.id < NewIds + writes'
    PROVE  IInv'
BY Zenon DEF IInv, TypeOK, TypesOK, PoolsOK, AnswersOK, StoredOK, AcceptedOK, ServedOK

\* The steps by what they do to the clients: taking one, giving one back, or neither.
Takes(r) == /\ pc[r] \notin {"query", "store"} /\ pc' = [pc EXCEPT ![r] = "query"]
            /\ clients[host[r]] > 0 /\ clients' = [clients EXCEPT ![host[r]] = @ - 1]

Gives(r) == /\ pc[r] \in {"query", "store"} /\ pc' = [pc EXCEPT ![r] = "done"]
            /\ clients' = [clients EXCEPT ![host[r]] = @ + 1]

Keeps(r) == /\ clients' = clients
            /\ \/ pc' = pc
               \/ \E label \in {"lookup", "connect", "done"} :
                     pc[r] \notin {"query", "store"} /\ pc' = [pc EXCEPT ![r] = label]
               \/ pc[r] = "query" /\ pc' = [pc EXCEPT ![r] = "store"]

\* A client taken is one the pool is short of, and one given back is one it has again.
LEMMA PoolsKept ==
    ASSUME TypesOK, PoolsOK, NEW r \in Requests, UNCHANGED host, Takes(r) \/ Gives(r) \/ Keeps(r)
    PROVE  PoolsOK'
<1>1. /\ PoolMax \in Nat /\ host[r] \in Replicas
      /\ \A p \in Replicas : clients[p] \in 0..PoolMax
  BY MetricsAssumption DEF TypesOK, PoolsOK
<1>2. \A p \in Replicas : Holders(p)' = {c \in Requests : host[c] = p /\ pc'[c] \in {"query", "store"}}
  BY DEF Holders
<1>3. CASE Takes(r)
  <2>1. r \notin Holders(host[r]) /\ Holders(host[r])' = Holders(host[r]) \cup {r}
    BY <1>1, <1>2, <1>3 DEF Takes, Holders, TypesOK
  <2>2. \A p \in Replicas \ {host[r]} : Holders(p)' = Holders(p) /\ clients'[p] = clients[p]
    BY <1>1, <1>2, <1>3 DEF Takes, Holders, TypesOK, PoolsOK
  <2>3. /\ IsFiniteSet(Holders(host[r])') /\ Cardinality(Holders(host[r])') = Cardinality(Holders(host[r])) + 1
        /\ Cardinality(Holders(host[r])) \in Nat
    BY <1>1, <2>1, OneMore DEF PoolsOK
  <2>4. clients'[host[r]] = clients[host[r]] - 1 /\ clients[host[r]] > 0
    BY <1>1, <1>3 DEF Takes, PoolsOK
  <2>5. clients' \in [Replicas -> 0..PoolMax]
    BY <1>1, <1>3 DEF Takes, PoolsOK
  <2>6. QED
    BY <1>1, <2>2, <2>3, <2>4, <2>5 DEF PoolsOK
<1>4. CASE Gives(r)
  <2>1. r \in Holders(host[r]) /\ Holders(host[r])' = Holders(host[r]) \ {r}
    BY <1>1, <1>2, <1>4 DEF Gives, Holders, TypesOK
  <2>2. \A p \in Replicas \ {host[r]} : Holders(p)' = Holders(p) /\ clients'[p] = clients[p]
    BY <1>1, <1>2, <1>4 DEF Gives, Holders, TypesOK, PoolsOK
  <2>3. /\ IsFiniteSet(Holders(host[r])') /\ Cardinality(Holders(host[r])') = Cardinality(Holders(host[r])) - 1
        /\ Cardinality(Holders(host[r])) \in Nat \ {0}
    <3>1. IsFiniteSet(Holders(host[r]))
      BY <1>1 DEF PoolsOK
    <3>2. QED
      BY <2>1, <3>1, OneLess
  <2>4. clients'[host[r]] = clients[host[r]] + 1 /\ clients[host[r]] < PoolMax
    BY <1>1, <1>4, <2>3 DEF Gives, PoolsOK
  <2>5. clients' \in [Replicas -> 0..PoolMax]
    BY <1>1, <1>4, <2>4 DEF Gives, PoolsOK
  <2>6. QED
    BY <1>1, <2>2, <2>3, <2>4, <2>5 DEF PoolsOK
<1>5. CASE Keeps(r)
  <2>1. \A p \in Replicas : Holders(p)' = Holders(p)
    BY <1>1, <1>2, <1>5 DEF Keeps, Holders, TypesOK
  <2>2. QED
    BY <1>5, <2>1 DEF Keeps, PoolsOK
<1>6. QED
  BY <1>3, <1>4, <1>5

-----------------------------------------------------------------------------
(* The steps *)

Serves(r) == Ask(r) \/ Handler(r) \/ LookupFails(r) \/ ConnectFails(r) \/ QueryFails(r) \/ StoreFails(r)

\* A handler takes a client before its query and gives it back when it answers.
LEMMA Moves ==
    ASSUME TypesOK, NEW r \in Requests, Serves(r)
    PROVE  /\ UNCHANGED <<arrivals, clock, incidents, writes>>
           /\ Takes(r) \/ Gives(r) \/ Keeps(r)
<1>1. CASE Ask(r)
  BY <1>1 DEF Ask, At, Goto, Reply, Keeps, arrivals, database
<1>2. CASE Lookup(r)
  BY <1>2 DEF Lookup, At, Goto, ReplyWith, Keeps, arrivals, database
<1>3. CASE LookupFails(r)
  BY <1>3 DEF LookupFails, At, Goto, Keeps, arrivals, database
<1>4. CASE Connect(r)
  BY <1>4 DEF Connect, At, Goto, Takes, arrivals, database
<1>5. CASE ConnectFails(r)
  BY <1>5 DEF ConnectFails, At, Goto, Reply, Keeps, arrivals, database
<1>6. CASE Query(r)
  BY <1>6 DEF Query, At, Goto, Keeps, arrivals, database
<1>7. CASE QueryFails(r)
  BY <1>7 DEF QueryFails, At, Goto, Reply, Release, Gives, arrivals, database
<1>8. CASE Store(r)
  BY <1>8 DEF Store, At, Goto, ReplyWith, Release, Gives, arrivals, database
<1>9. CASE StoreFails(r)
  BY <1>9 DEF StoreFails, At, Goto, ReplyWith, Release, Gives, arrivals, database
<1>10. QED
  BY <1>1, <1>2, <1>3, <1>4, <1>5, <1>6, <1>7, <1>8, <1>9 DEF Serves, Handler

LEMMA TypesKept ==
    ASSUME TypesOK, NEW r \in Requests, Serves(r)
    PROVE  TypesOK'
<1>1. UNCHANGED <<host, query, clock, incidents, writes>>
  BY Moves DEF arrivals
<1>2. faults' \in 0..MaxFaults
  <2>1. faults' = faults \/ (faults < MaxFaults /\ faults' = faults + 1)
    BY DEF Serves, Handler, Ask, Lookup, LookupFails, Connect, ConnectFails, Query, QueryFails, Store,
       StoreFails, Fault
  <2>2. QED
    BY <2>1, MetricsAssumption DEF TypesOK
<1>3. pc' \in [Requests -> {"new", "lookup", "connect", "query", "store", "done"}]
  BY Moves DEF TypesOK, Takes, Gives, Keeps
<1>4. DOMAIN computed' = Requests /\ DOMAIN answer' = Requests /\ DOMAIN today' = Requests
  <2>1. DOMAIN computed' = Requests /\ DOMAIN today' = Requests
    BY DEF Serves, Handler, Ask, Lookup, LookupFails, Connect, ConnectFails, Query, QueryFails, Store,
       StoreFails, TypesOK
  <2>2. DOMAIN answer' = Requests
    BY DEF Serves, Handler, Ask, Lookup, LookupFails, Connect, ConnectFails, Query, QueryFails, Store,
       StoreFails, Reply, ReplyWith, TypesOK
  <2>3. QED
    BY <2>1, <2>2
<1>5. QED
  BY <1>1, <1>2, <1>3, <1>4 DEF TypesOK, Keyed

\* An answer is given when the handler is done, and not before; it names a status.
LEMMA AnswersKept ==
    ASSUME TypesOK, AnswersOK, NEW r \in Requests, Serves(r)
    PROVE  AnswersOK'
<1>1. ASSUME NEW status \in {400, 503}, Reply(r, status)
      PROVE  AnswersOK'
  BY <1>1 DEF Reply, Goto, TypesOK, AnswersOK
<1>2. ASSUME NEW entry, ReplyWith(r, entry)
      PROVE  AnswersOK'
  <2>1. answer'[r].status = 200
    BY <1>2 DEF ReplyWith, TypesOK
  <2>2. \A c \in Requests \ {r} : answer'[c] = answer[c] /\ pc'[c] = pc[c]
    BY <1>2 DEF ReplyWith, Goto, TypesOK
  <2>3. pc'[r] = "done"
    BY <1>2 DEF ReplyWith, Goto, TypesOK
  <2>4. QED
    BY <2>1, <2>2, <2>3 DEF AnswersOK
<1>3. ASSUME NEW label \in {"lookup", "connect", "query", "store"}, Goto(r, label), UNCHANGED answer,
             pc[r] # "done"
      PROVE  AnswersOK'
  BY <1>3 DEF Goto, TypesOK, AnswersOK
<1>4. QED
  BY <1>1, <1>2, <1>3 DEF Serves, Handler, Ask, Lookup, LookupFails, Connect, ConnectFails, Query,
     QueryFails, Store, StoreFails, At

\* What is computed from the table, and what of it is put into the cache, is of the query.
LEMMA StoredKept ==
    ASSUME TypesOK, StoredOK, NEW r \in Requests, Serves(r)
    PROVE  StoredOK'
<1>1. UNCHANGED <<query, clock>> /\ clock \in Nat /\ TTL \in Nat \ {0} /\ FirstDay \in Int
  BY Moves, MetricsAssumption DEF arrivals, TypesOK
<1>2. ASSUME NEW q \in DOMAIN cache'
      PROVE  Sane(cache'[q], q) /\ Fresh(cache[q])'
  <2>1. CASE cache' = cache
    BY <1>1, <1>2, <2>1 DEF StoredOK, Fresh
  <2>2. CASE Store(r)
    <3>1. /\ cache' = [k \in DOMAIN cache \cup {query[r]} |-> IF k = query[r] THEN Entry(r) ELSE cache[k]]
          /\ pc[r] = "store"
      BY <2>2 DEF Store, At, KeyOf
    <3>2. CASE q = query[r]
      <4>1. cache'[q] = Entry(r)
        BY <3>1, <3>2
      <4>2. Sane(computed[r], q)
        BY <3>1, <3>2 DEF StoredOK, At
      <4>3. QED
        BY <1>1, <4>1, <4>2 DEF Sane, Fresh, Entry
    <3>3. CASE q # query[r]
      <4>1. q \in DOMAIN cache /\ cache'[q] = cache[q]
        BY <1>2, <3>1, <3>3
      <4>2. QED
        BY <1>1, <4>1 DEF StoredOK, Fresh
    <3>4. QED
      BY <3>2, <3>3
  <2>3. QED
    BY <2>1, <2>2 DEF Serves, Handler, Ask, Lookup, LookupFails, Connect, ConnectFails, Query,
       QueryFails, StoreFails
<1>3. ASSUME NEW c \in Requests, pc'[c] = "query"
      PROVE  today'[c] \in Int
  <2>1. CASE Connect(r) /\ c = r
    <3>1. today'[r] = Now
      BY <2>1 DEF Connect, TypesOK
    <3>2. Now \in Int
      BY <1>1 DEF Now
    <3>3. QED
      BY <2>1, <3>1, <3>2
  <2>2. CASE ~(Connect(r) /\ c = r)
    <3>1. pc[c] = "query" /\ today'[c] = today[c]
      BY <1>3, <2>2 DEF Serves, Handler, Ask, Lookup, LookupFails, Connect, ConnectFails, Query,
         QueryFails, Store, StoreFails, Reply, ReplyWith, Goto, At, TypesOK
    <3>2. QED
      BY <3>1 DEF StoredOK, At
  <2>3. QED
    BY <2>1, <2>2
<1>4. ASSUME NEW c \in Requests, pc'[c] = "store"
      PROVE  Sane(computed'[c], query[c])
  <2>1. CASE Query(r) /\ c = r
    <3>1. computed'[r] = [value |-> Compute(query[r], incidents, today[r]), table |-> incidents,
                          day |-> today[r], status |-> 0]
      BY <2>1 DEF Query, TypesOK
    <3>2. today[r] \in Int
      BY <2>1 DEF Query, At, StoredOK
    <3>3. QED
      BY <2>1, <3>1, <3>2 DEF Sane, TypesOK
  <2>2. CASE ~(Query(r) /\ c = r)
    <3>1. pc[c] = "store" /\ computed'[c] = computed[c]
      BY <1>4, <2>2 DEF Serves, Handler, Ask, Lookup, LookupFails, Connect, ConnectFails, Query,
         QueryFails, Store, StoreFails, Reply, ReplyWith, Goto, At, TypesOK
    <3>2. QED
      BY <3>1 DEF StoredOK, At
  <2>3. QED
    BY <2>1, <2>2
<1>5. QED
  BY <1>1, <1>2, <1>3, <1>4 DEF StoredOK, At

\* What is answered is what was stored or cached, and what is asked for is acceptable.
LEMMA AnswersMove ==
    ASSUME TypesOK, StoredOK, NEW r \in Requests, Serves(r)
    PROVE  \/ answer' = answer
           \/ \E status \in {400, 503} : answer' = [answer EXCEPT ![r] = [status |-> status]]
           \/ /\ pc[r] \in {"lookup", "store"}
              /\ \E entry : ReplyWith(r, entry) /\ Sane(entry, query[r]) /\ Fresh(entry)
<1>1. CASE Ask(r) \/ ConnectFails(r) \/ QueryFails(r)
  BY <1>1 DEF Ask, ConnectFails, QueryFails, Reply
<1>2. CASE Connect(r) \/ Query(r) \/ LookupFails(r)
  BY <1>2 DEF Connect, Query, LookupFails
<1>3. CASE Store(r) \/ StoreFails(r)
  <2>1. ReplyWith(r, Entry(r)) /\ pc[r] = "store"
    BY <1>3 DEF Store, StoreFails, At
  <2>2. Sane(computed[r], query[r])
    BY <2>1 DEF StoredOK, At
  <2>3. Sane(Entry(r), query[r]) /\ Fresh(Entry(r))
    BY <2>2, MetricsAssumption DEF Sane, Fresh, Entry, TypesOK
  <2>4. QED
    BY <2>1, <2>3
<1>4. CASE Lookup(r)
  BY <1>4 DEF Lookup, KeyOf, At, StoredOK
<1>5. QED
  BY <1>1, <1>2, <1>3, <1>4 DEF Serves, Handler

LEMMA ServedKept ==
    ASSUME TypesOK, StoredOK, ServedOK, NEW r \in Requests, Serves(r)
    PROVE  ServedOK'
<1>1. UNCHANGED query /\ clock \in Nat /\ TTL \in Nat \ {0}
  BY Moves, MetricsAssumption DEF arrivals, TypesOK
<1>2. CASE answer' = answer
  BY <1>1, <1>2 DEF ServedOK
<1>3. ASSUME NEW status \in {400, 503}, answer' = [answer EXCEPT ![r] = [status |-> status]]
      PROVE  ServedOK'
  BY <1>1, <1>3 DEF TypesOK, ServedOK
<1>4. ASSUME NEW entry, ReplyWith(r, entry), Sane(entry, query[r]), Fresh(entry)
      PROVE  ServedOK'
  <2>1. answer'[r] = [entry |-> entry, age |-> clock - entry.stored, status |-> 200]
    BY <1>4 DEF ReplyWith, TypesOK
  <2>2. answer'[r].entry = entry /\ answer'[r].age = clock - entry.stored
    BY <2>1
  <2>3. answer'[r].age < TTL
    BY <1>1, <1>4, <2>2 DEF Fresh
  <2>4. \A c \in Requests \ {r} : answer'[c] = answer[c]
    BY <1>4 DEF ReplyWith, TypesOK
  <2>5. QED
    BY <1>1, <1>4, <2>2, <2>3, <2>4 DEF ServedOK
<1>5. QED
  BY <1>2, <1>3, <1>4, AnswersMove

LEMMA AcceptedKept ==
    ASSUME TypesOK, StoredOK, AcceptedOK, NEW r \in Requests, Serves(r)
    PROVE  AcceptedOK'
<1>1. UNCHANGED query
  BY Moves DEF arrivals
<1>2. \A c \in Requests \ {r} : pc'[c] = pc[c]
  BY Moves DEF Takes, Gives, Keeps, TypesOK
<1>3. \A c \in Requests \ {r} : answer'[c] = answer[c]
  BY AnswersMove DEF ReplyWith, TypesOK
<1>4. pc'[r] \in {"lookup", "connect", "query", "store"} => Acceptable(query[r])
  BY DEF Serves, Handler, Ask, Lookup, LookupFails, Connect, ConnectFails, Query, QueryFails, Store,
     StoreFails, Reply, ReplyWith, Goto, At, TypesOK, AcceptedOK
<1>5. answer'[r].status = 200 => Acceptable(query[r])
  <2>1. CASE answer' = answer
    BY <2>1 DEF AcceptedOK
  <2>2. ASSUME NEW status \in {400, 503}, answer' = [answer EXCEPT ![r] = [status |-> status]]
        PROVE  answer'[r].status # 200
    BY <2>2 DEF TypesOK
  <2>3. CASE pc[r] \in {"lookup", "store"}
    BY <2>3 DEF AcceptedOK
  <2>4. QED
    BY <2>1, <2>2, <2>3, AnswersMove
<1>6. QED
  BY <1>1, <1>2, <1>3, <1>4, <1>5 DEF AcceptedOK

-----------------------------------------------------------------------------
(* The inductive invariant *)

LEMMA Begins == Init => IInv
<1> SUFFICES ASSUME Init
             PROVE  IInv
  OBVIOUS
<1>1. TypesOK
  BY MetricsAssumption DEF Init, TypesOK, Keyed
<1>2. PoolsOK
  <2>1. \A p \in Replicas : Holders(p) = {}
    BY DEF Init, Holders
  <2>2. clients \in [Replicas -> 0..PoolMax] /\ \A p \in Replicas : clients[p] = PoolMax
    BY MetricsAssumption DEF Init
  <2>3. IsFiniteSet({}) /\ Cardinality({}) = 0
    BY FS_EmptySet
  <2>4. \A p \in Replicas : IsFiniteSet(Holders(p)) /\ Cardinality(Holders(p)) = 0
    BY <2>1, <2>3
  <2>5. PoolMax \in Nat
    BY MetricsAssumption
  <2>6. QED
    BY <2>2, <2>4, <2>5 DEF PoolsOK
<1>3. AnswersOK /\ StoredOK /\ AcceptedOK /\ ServedOK
  BY DEF Init, AnswersOK, StoredOK, AcceptedOK, ServedOK, None, At
<1>4. \A i \in incidents : i.id < NewIds + writes
  BY MetricsAssumption DEF Init, NewIds, Row
<1>5. QED
  BY <1>1, <1>2, <1>3, <1>4, Together

\* The table keeps its key; nothing of a handler depends on the row that changes.
LEMMA TableKept ==
    ASSUME IInv, Declare \/ Resolve
    PROVE  /\ incidents' \subseteq Row /\ IsFiniteSet(incidents') /\ Keyed(incidents') /\ writes' \in 0..MaxWrites
           /\ \A i \in incidents' : i.id < NewIds + writes'
<1>1. /\ incidents \subseteq Row /\ IsFiniteSet(incidents) /\ Keyed(incidents) /\ writes \in 0..MaxWrites
      /\ \A i \in incidents : i.id < NewIds + writes
      /\ clock \in Nat /\ MaxWrites \in Nat /\ FirstDay \in Int
  BY Parts, MetricsAssumption DEF TypesOK
<1>2. writes < MaxWrites /\ writes' = writes + 1
  BY DEF Declare, Resolve, Write
<1>3. CASE Declare
  <2>1. PICK s \in Arriving : incidents' = incidents \cup {[id |-> NewIds + writes, severity |-> s,
                                   declared |-> Now * DayTicks, minutes |-> 0, resolved |-> FALSE]}
    BY <1>3 DEF Declare
  <2>2. PICK new : new = [id |-> NewIds + writes, severity |-> s, declared |-> Now * DayTicks,
                          minutes |-> 0, resolved |-> FALSE]
    OBVIOUS
  <2>3. Now * DayTicks \in Int /\ s \in Severities
    BY <1>1, MetricsAssumption DEF Now, DayTicks
  <2>4. new \in Row /\ new.id = NewIds + writes
    BY <1>1, <2>2, <2>3 DEF Row, NewIds
  <2>5. incidents' = incidents \cup {new}
    BY <2>1, <2>2
  <2>6. \A i \in incidents : i.id \in Nat
    BY <1>1 DEF Row
  <2>7. IsFiniteSet(incidents')
    BY <1>1, <2>5, FS_AddElement
  <2>8. QED
    BY <1>1, <1>2, <2>4, <2>5, <2>6, <2>7 DEF Keyed, NewIds
<1>4. CASE Resolve
  <2>1. PICK i \in incidents : incidents' = (incidents \ {i}) \cup {[i EXCEPT !.resolved = TRUE]}
    BY <1>4 DEF Resolve
  <2>2. PICK new : new = [i EXCEPT !.resolved = TRUE]
    OBVIOUS
  <2>3. new \in Row /\ new.id = i.id
    BY <1>1, <2>1, <2>2 DEF Row
  <2>4. incidents' = (incidents \ {i}) \cup {new}
    BY <2>1, <2>2
  <2>5. \A j \in incidents : j.id \in Nat
    BY <1>1 DEF Row
  <2>6. IsFiniteSet(incidents')
    BY <1>1, <2>4, FS_AddElement, FS_RemoveElement
  <2>7. QED
    BY <1>1, <1>2, <2>3, <2>4, <2>5, <2>6 DEF Keyed, NewIds
<1>5. QED
  BY <1>3, <1>4

LEMMA Induction == IInv /\ [Next]_vars => IInv'
<1> SUFFICES ASSUME IInv, [Next]_vars
             PROVE  IInv'
  OBVIOUS
<1>1. TypesOK /\ PoolsOK /\ AnswersOK /\ StoredOK /\ AcceptedOK /\ ServedOK
  BY Parts
<1>2. \A i \in incidents : i.id < NewIds + writes
  BY Parts
<1>3. clock \in Nat /\ TTL \in Nat \ {0} /\ MaxClock \in Nat
  BY <1>1, MetricsAssumption DEF TypesOK
<1>4. CASE Declare \/ Resolve
  <2>1. UNCHANGED <<host, query, clock, cache, clients, pc, today, computed, answer, faults>>
    BY <1>4 DEF Declare, Resolve, arrivals
  <2>2. TypesOK'
    BY <1>1, <1>4, <2>1, TableKept DEF TypesOK, Keyed
  <2>3. PoolsOK' /\ AnswersOK' /\ AcceptedOK' /\ ServedOK'
    BY <1>1, <2>1 DEF PoolsOK, AnswersOK, AcceptedOK, ServedOK, Holders
  <2>4. StoredOK'
    BY <1>1, <2>1 DEF StoredOK, Fresh, At
  <2>5. QED
    BY <1>4, <2>2, <2>3, <2>4, TableKept, TogetherNext
<1>5. CASE Tick
  <2>1. /\ UNCHANGED <<host, query, incidents, writes, clients, pc, today, computed, answer, faults>>
        /\ clock' = clock + 1 /\ clock < MaxClock
    BY <1>5 DEF Tick, arrivals, database
  <2>2. TypesOK'
    BY <1>1, <1>3, <2>1 DEF TypesOK, Keyed
  <2>3. PoolsOK' /\ AnswersOK' /\ AcceptedOK' /\ ServedOK'
    BY <1>1, <2>1 DEF PoolsOK, AnswersOK, AcceptedOK, ServedOK, Holders
  <2>4. ASSUME NEW q \in DOMAIN cache'
        PROVE  Sane(cache'[q], q) /\ Fresh(cache[q])'
    <3>1. q \in DOMAIN cache /\ cache'[q] = cache[q] /\ cache[q].stored + TTL > clock'
      BY <1>5, <2>4 DEF Tick, Restrict
    <3>2. QED
      BY <1>1, <1>3, <2>1, <3>1 DEF StoredOK, Fresh
  <2>5. StoredOK'
    BY <1>1, <2>1, <2>4 DEF StoredOK, At
  <2>6. QED
    BY <1>2, <2>1, <2>2, <2>3, <2>5, TogetherNext
<1>6. ASSUME NEW r \in Requests, Serves(r)
      PROVE  IInv'
  <2>1. UNCHANGED <<host, query, clock, incidents, writes>>
    BY <1>1, <1>6, Moves DEF arrivals
  <2>2. TypesOK' /\ AnswersOK' /\ StoredOK'
    BY <1>1, <1>6, TypesKept, AnswersKept, StoredKept
  <2>3. AcceptedOK' /\ ServedOK'
    BY <1>1, <1>6, AcceptedKept, ServedKept
  <2>4. PoolsOK'
    BY <1>1, <1>6, <2>1, Moves, PoolsKept
  <2>5. QED
    BY <1>2, <2>1, <2>2, <2>3, <2>4, TogetherNext
<1>7. CASE UNCHANGED vars
  <2>1. UNCHANGED <<host, query, clock, incidents, writes, cache, clients, pc, today, computed, answer, faults>>
    BY <1>7 DEF vars
  <2>2. TypesOK' /\ PoolsOK' /\ AnswersOK' /\ AcceptedOK' /\ ServedOK'
    BY <1>1, <2>1 DEF TypesOK, PoolsOK, AnswersOK, AcceptedOK, ServedOK, Holders, Keyed
  <2>3. StoredOK'
    BY <1>1, <2>1 DEF StoredOK, Fresh, At
  <2>4. QED
    BY <1>2, <2>1, <2>2, <2>3, TogetherNext
<1>8. QED
  BY <1>4, <1>5, <1>6, <1>7 DEF Next, Serves

\* Whatever fails and however the replicas overtake each other, IInv holds.
THEOREM InductiveInvariant == Spec => []IInv
BY Begins, Induction, PTL DEF Spec

\* Every variable keeps its type; no pool lends more clients than it has, and it gets each
\* of them back.
THEOREM TypeCorrect == Spec => []TypeOK
<1>1. IInv => TypeOK
  BY DEF IInv
<1>2. QED
  BY <1>1, InductiveInvariant, PTL

\* No answer is older than its time to live, and each is of the query that was asked and of
\* one state of the table.
THEOREM ServedWhileValidHolds == Spec => []ServedWhileValid
<1>1. IInv => ServedWhileValid
  BY DEF IInv, Sane, ServedWhileValid
<1>2. QED
  BY <1>1, InductiveInvariant, PTL

-----------------------------------------------------------------------------
(* The frequencies *)

\* Whatever the interval, the buckets divide the days of an acceptable range.
LEMMA BucketsDivide ==
    ASSUME NEW interval \in {"daily", "weekly", "monthly"}, NEW start \in Int, NEW end \in Int,
           ValidRange(start, end)
    PROVE  \E n \in Int : Divides(interval, Day(start), Day(end), Buckets(interval, start, end), n)
<1>1. PICK first \in Int, last \in Int : /\ first = Day(start) /\ last = Day(end)
                                         /\ first <= last /\ last - first <= 365
  BY DaysOf
<1>2. CASE interval = "daily"
  <2>1. Buckets(interval, start, end) = EverySo(1, first, last)
    BY <1>1, <1>2 DEF Buckets, DailyBuckets
  <2>2. last - first + 1 \in Int
    BY <1>1
  <2>3. QED
    BY <1>1, <1>2, <2>1, <2>2, DailyDivides
<1>3. CASE interval = "weekly"
  <2>1. PICK monday \in Int : monday = Truncated("weekly", first) /\ monday \in (first - 6)..first
            /\ monday = first + (IF WeekDay(first) = 0 THEN -6 ELSE 1 - WeekDay(first))
    BY Mondays
  <2>2. Buckets(interval, start, end) = EverySo(7, monday, last)
    BY <1>1, <1>3, <2>1 DEF Buckets, WeeklyBuckets
  <2>3. (last - monday) \div 7 + 1 \in Int
    BY <1>1, <2>1
  <2>4. Divides("weekly", first, last, EverySo(7, monday, last), (last - monday) \div 7 + 1)
    BY <1>1, <2>1, WeeklyDivides
  <2>5. QED
    BY <1>1, <1>3, <2>2, <2>3, <2>4
<1>4. CASE interval = "monthly"
  <2>1. PICK f \in Int, l \in Int : f = MonthOf[first] /\ l = MonthOf[last]
    BY MonthFound
  <2>2. PICK n : n = l - f + 1
    OBVIOUS
  <2>3. Buckets(interval, start, end) = [k \in 1..n |-> FirstOfMonth[f + k - 1]]
    BY <1>1, <1>4, <2>1, <2>2 DEF Buckets, MonthlyBuckets
  <2>4. Divides("monthly", first, last, [k \in 1..n |-> FirstOfMonth[f + k - 1]], n)
    BY <1>1, <2>1, <2>2, MonthlyDivides
  <2>5. n \in Int
    BY <2>4 DEF Divides
  <2>6. QED
    BY <1>1, <1>4, <2>3, <2>4, <2>5
<1>5. QED
  BY <1>2, <1>3, <1>4

\* What FrequencyIsTrue says of the rows of one answer.
Counts(rows, table, interval, start, end) ==
    /\ Len(rows) <= 366
    /\ rows[1].bucket = Truncated(interval, Day(start))
    /\ rows[Len(rows)].bucket = Truncated(interval, Day(end))
    /\ \A k \in 2..Len(rows) : Truncated(interval, rows[k].bucket - 1) = rows[k - 1].bucket
    /\ \A k \in DOMAIN rows : rows[k].count = Cardinality(
           {i \in InRange(table, start, end) : Day(i.declared) >= rows[k].bucket
                                                /\ (k < Len(rows) => Day(i.declared) < rows[k + 1].bucket)})

\* The rows of a frequency are its buckets, and each counts the incidents of its days.
LEMMA FrequencyRows ==
    ASSUME NEW interval \in {"daily", "weekly", "monthly"}, NEW start \in Int, NEW end \in Int,
           ValidRange(start, end), NEW table \in SUBSET Row
    PROVE  Counts(Frequency(table, interval, start, end), table, interval, start, end)
<1> DEFINE rows == Frequency(table, interval, start, end)
           counted == InRange(table, start, end)
<1>0. PICK buckets : buckets = Buckets(interval, start, end)
  OBVIOUS
<1>1. PICK n \in Int : Divides(interval, Day(start), Day(end), buckets, n)
  BY <1>0, BucketsDivide
<1>2. n \in Nat \ {0} /\ n <= 366 /\ DOMAIN buckets = 1..n
  BY <1>1 DEF Divides
<1>3. rows = [k \in 1..n |-> [bucket |-> buckets[k],
                  count |-> Cardinality({i \in counted : Truncated(interval, Day(i.declared)) = buckets[k]})]]
  BY <1>0, <1>2 DEF Frequency
<1>4. DOMAIN rows = 1..n /\ Len(rows) = n
  BY <1>2, <1>3
<1>5. \A k \in 1..n : rows[k].bucket = buckets[k]
  BY <1>3
<1>6. \A k \in 1..n : rows[k].count =
          Cardinality({i \in counted : Truncated(interval, Day(i.declared)) = buckets[k]})
  BY <1>3
<1>7. \A i \in counted : Day(i.declared) \in Day(start)..Day(end)
  BY DEF InRange, Row, Day, DayTicks
<1> HIDE DEF rows, counted
<1>8. ASSUME NEW k \in 1..n
      PROVE  {i \in counted : Truncated(interval, Day(i.declared)) = buckets[k]} =
             {i \in counted : Day(i.declared) >= buckets[k]
                                /\ (k < n => Day(i.declared) < buckets[k + 1])}
  <2>1. \A d \in Day(start)..Day(end) :
            Truncated(interval, d) = buckets[k] <=> d >= buckets[k] /\ (k < n => d < buckets[k + 1])
    BY <1>1 DEF Divides
  <2>2. QED
    BY <1>7, <2>1, Zenon
<1>9. rows[1].bucket = Truncated(interval, Day(start)) /\ rows[n].bucket = Truncated(interval, Day(end))
  <2>1. 1 \in 1..n /\ n \in 1..n
    BY <1>2
  <2>2. rows[1].bucket = buckets[1] /\ rows[n].bucket = buckets[n]
    BY <1>5, <2>1
  <2>3. QED
    BY <1>1, <2>2 DEF Divides
<1>10. ASSUME NEW k \in 2..n
       PROVE  Truncated(interval, rows[k].bucket - 1) = rows[k - 1].bucket
  <2>1. k \in 1..n /\ k - 1 \in 1..n
    OBVIOUS
  <2>2. rows[k].bucket = buckets[k] /\ rows[k - 1].bucket = buckets[k - 1]
    BY <1>5, <2>1
  <2>3. QED
    BY <1>1, <2>2 DEF Divides
<1>11. ASSUME NEW k \in 1..n
       PROVE  rows[k].count = Cardinality({i \in counted :
                  Day(i.declared) >= rows[k].bucket
                    /\ (k < n => Day(i.declared) < rows[k + 1].bucket)})
  <2>1. rows[k].bucket = buckets[k] /\ (k < n => rows[k + 1].bucket = buckets[k + 1])
    <3>1. k < n => k + 1 \in 1..n
      BY <1>2
    <3>2. QED
      BY <1>5, <3>1
  <2>2. {i \in counted : Day(i.declared) >= rows[k].bucket
                    /\ (k < n => Day(i.declared) < rows[k + 1].bucket)} =
        {i \in counted : Day(i.declared) >= buckets[k]
                    /\ (k < n => Day(i.declared) < buckets[k + 1])}
    BY <2>1, Zenon
  <2>3. QED
    BY <1>6, <1>8, <2>2
<1>12. /\ Len(rows) <= 366
       /\ rows[1].bucket = Truncated(interval, Day(start))
       /\ rows[Len(rows)].bucket = Truncated(interval, Day(end))
       /\ \A k \in 2..Len(rows) : Truncated(interval, rows[k].bucket - 1) = rows[k - 1].bucket
       /\ \A k \in DOMAIN rows : rows[k].count = Cardinality(
              {i \in counted : Day(i.declared) >= rows[k].bucket
                                /\ (k < Len(rows) => Day(i.declared) < rows[k + 1].bucket)})
  <2>1. n <= 366
    BY <1>2
  <2>2. QED
    BY <1>4, <1>9, <1>10, <1>11, <2>1, Zenon
<1>13. QED
  BY <1>12 DEF rows, counted, Counts

-----------------------------------------------------------------------------
(* The trends *)

LEMMA MondayIs ==
    ASSUME NEW d \in Int
    PROVE  /\ Monday(d) \in Int /\ Monday(d) \in (d - 6)..d /\ (Monday(d) + 3) % 7 = 0
           /\ \A m \in (d - 6)..d : (m + 3) % 7 = 0 => m = Monday(d)
           /\ Truncated("weekly", d) = Monday(d)
           /\ d + 1 - FromMonday(d) = Monday(d)
<1>1. PICK t \in (d - 6)..d : t = Truncated("weekly", d) /\ (t + 3) % 7 = 0
  BY Mondays
<1>2. t % 7 = 4
  BY <1>1
<1> DEFINE R == (d - 6)..d
           Q(m) == m % 7 = 4
<1>3. Monday(d) = CHOOSE m \in R : Q(m)
  BY DEF Monday
<1>4. PICK monday : monday = Monday(d)
  OBVIOUS
<1>5. t \in R /\ Q(t)
  BY <1>2
<1> HIDE DEF R, Q
<1>6. monday \in R /\ Q(monday)
  BY <1>3, <1>4, <1>5
<1>7. monday \in (d - 6)..d /\ monday % 7 = 4
  BY <1>6 DEF R, Q
<1>8. \A m \in (d - 6)..d : (m + 3) % 7 = 0 => m = monday
  BY <1>7
<1>9. monday = t /\ (monday + 3) % 7 = 0
  BY <1>1, <1>7, <1>8
<1>10. t = d + 1 - FromMonday(d)
  BY <1>1 DEF Truncated
<1>11. QED
  BY <1>1, <1>4, <1>7, <1>8, <1>9, <1>10

\* The week of a day by its number: the first of a year is that of 4 January.
LEMMA ISOWeekIs ==
    ASSUME NEW d \in Int
    PROVE  \E year \in Int, week \in Nat :
              /\ ISOWeek[d] = [year |-> year, week |-> week] /\ week >= 1
              /\ Monday(d) = Monday(YearStart(year) + 3) + 7 * (week - 1)
              /\ Monday(d) < Monday(YearStart(year + 1) + 3)
<1>1. PICK monday \in Int : /\ monday = Monday(d) /\ monday \in (d - 6)..d /\ (monday + 3) % 7 = 0
                            /\ monday = d + 1 - FromMonday(d)
  BY MondayIs
<1>2. PICK thursday \in Int : thursday = monday + 3 /\ thursday = d + 4 - FromMonday(d)
  <2>1. monday + 3 \in Int
    BY <1>1
  <2>2. FromMonday(d) \in Int
    BY DEF FromMonday, WeekDay
  <2>3. QED
    BY <1>1, <2>1, <2>2
<1>3. PICK year \in Int : year = YearOf[thursday] /\ YearStart(year) <= thursday /\ thursday < YearStart(year + 1)
  BY YearFound
<1>4. PICK y \in Int, z \in Int : y = YearStart(year) /\ z = YearStart(year + 1)
  <2>1. year \in Int /\ year + 1 \in Int
    OBVIOUS
  <2>2. QED
    BY <2>1, YearType
<1>5. PICK week \in Nat : week = (thursday - y + 7) \div 7 /\ week >= 1
  BY <1>3, <1>4
<1>6. ISOWeek[d] = [year |-> year, week |-> week]
  BY <1>2, <1>3, <1>4, <1>5 DEF ISOWeek
<1>7. Monday(y + 3) = monday - 7 * (week - 1)
  <2>1. \A m \in ((y + 3) - 6)..(y + 3) : (m + 3) % 7 = 0 => m = Monday(y + 3)
    BY MondayIs
  <2>2. monday - 7 * (week - 1) \in ((y + 3) - 6)..(y + 3)
    BY <1>2, <1>3, <1>4, <1>5
  <2>3. ((monday - 7 * (week - 1)) + 3) % 7 = 0
    BY <1>1
  <2>4. QED
    BY <2>1, <2>2, <2>3
<1>8. Monday(z + 3) \in Int /\ Monday(z + 3) >= z - 3
  <2>1. z + 3 \in Int
    OBVIOUS
  <2>2. Monday(z + 3) \in Int /\ Monday(z + 3) \in ((z + 3) - 6)..(z + 3)
    BY <2>1, MondayIs
  <2>3. QED
    BY <2>2
<1>9. monday = Monday(y + 3) + 7 * (week - 1)
  BY <1>7
<1>10. monday < Monday(z + 3)
  BY <1>2, <1>3, <1>4, <1>8
<1>11. QED
  BY <1>1, <1>4, <1>5, <1>6, <1>9, <1>10

\* The Monday of an ISO week.
LEMMA MondayOfISOWeekIs ==
    ASSUME NEW year \in Int, NEW week \in Nat
    PROVE  MondayOfISOWeek(year, week) = Monday(YearStart(year) + 3) + 7 * (week - 1)
<1>1. PICK jan4 \in Int : jan4 = YearStart(year) + 3
  BY YearType
<1>2. MondayOfISOWeek(year, week) = jan4 - FromMonday(jan4) + 1 + (week - 1) * 7
  BY <1>1 DEF MondayOfISOWeek
<1>3. jan4 + 1 - FromMonday(jan4) = Monday(jan4) /\ FromMonday(jan4) \in Int
  BY MondayIs DEF FromMonday, WeekDay
<1>4. QED
  BY <1>1, <1>2, <1>3

\* The trends of a day are those before its Monday.
LEMMA TrendsIs ==
    ASSUME NEW day \in Int, NEW table
    PROVE  /\ Trends(table, day) = TrendsBefore(table, Monday(day))
           /\ Monday(day) \in Int /\ (Monday(day) + 3) % 7 = 0
<1>1. PICK monday \in Int : monday = Monday(day) /\ (monday + 3) % 7 = 0
  BY MondayIs
<1>2. PICK year \in Int, week \in Nat :
          /\ ISOWeek[day] = [year |-> year, week |-> week]
          /\ Monday(day) = Monday(YearStart(year) + 3) + 7 * (week - 1)
  BY ISOWeekIs
<1>3. MondayOfISOWeek(ISOWeek[day].year, ISOWeek[day].week) = monday
  BY <1>1, <1>2, MondayOfISOWeekIs
<1>4. Trends(table, day) = TrendsBefore(table, monday)
  BY <1>1, <1>3 DEF Trends
<1>5. QED
  BY <1>1, <1>4

\* The incidents of a week, whichever way it is told.
LEMMA WeekIs ==
    ASSUME NEW table \in SUBSET Row, NEW monday \in Int, NEW w \in Int, (w + 3) % 7 = 0,
           w >= monday - 35, w <= monday - 7
    PROVE  DeclaredIn(InRange(table, (monday - 35) * DayTicks, monday * DayTicks - 1), w)
               = DeclaredFrom(table, w, w + 6)
<1>1. ASSUME NEW i \in table
      PROVE  (/\ i.declared >= (monday - 35) * DayTicks /\ i.declared <= monday * DayTicks - 1
              /\ Truncated("weekly", Day(i.declared)) = w)
             <=> Day(i.declared) \in w..(w + 6)
  <2>1. PICK t \in Int, d \in Int : t = i.declared /\ d = Day(i.declared) /\ d = t \div 2
    BY DEF Row, Day, DayTicks
  <2>2. PICK m \in Int : m = Truncated("weekly", d) /\ m \in (d - 6)..d /\ (m + 3) % 7 = 0
    BY Mondays
  <2>3. m = w <=> d \in w..(w + 6)
    BY <2>2
  <2>4. d \in w..(w + 6) => t >= (monday - 35) * 2 /\ t <= monday * 2 - 1
    BY <2>1
  <2>5. QED
    BY <2>1, <2>2, <2>3, <2>4 DEF DayTicks
<1>2. {i \in InRange(table, (monday - 35) * DayTicks, monday * DayTicks - 1) :
           Truncated("weekly", Day(i.declared)) = w} = {i \in table : Day(i.declared) \in w..(w + 6)}
  BY <1>1, Zenon DEF InRange
<1>3. QED
  BY <1>2 DEF DeclaredIn, DeclaredFrom

\* A change is the whole percent below it, and there is none from nothing.
LEMMA ChangeIs ==
    ASSUME NEW n \in Nat, NEW b \in Nat
    PROVE  /\ Change(n, b) = {} <=> b = 0
           /\ \A c \in Change(n, b) : 100 * (n - b) - c * b \in 0..(b - 1)
<1>1. CASE b = 0
  BY <1>1 DEF Change
<1>2. CASE b # 0
  <2>1. PICK x \in Int : x = 100 * (n - b)
    OBVIOUS
  <2>2. PICK c \in Int : c = x \div b /\ x - c * b \in 0..(b - 1)
    BY <1>2
  <2>3. Change(n, b) = {c}
    BY <1>2, <2>1, <2>2 DEF Change
  <2>4. QED
    BY <1>2, <2>1, <2>2, <2>3
<1>3. QED
  BY <1>1, <1>2

\* What TrendsAreTrue says of the weeks of one answer.
Tells(weeks, table, day) ==
    /\ Len(weeks) = 4 /\ weeks[4].week = Monday(day) - 7
    /\ \A k \in 1..3 : weeks[k + 1].week = weeks[k].week + 7
    /\ \A k \in 1..4 :
           LET before == DeclaredFrom(table, weeks[k].week - 7, weeks[k].week - 1)
           IN  /\ weeks[k].count = DeclaredFrom(table, weeks[k].week, weeks[k].week + 6)
               /\ weeks[k].week = Monday(YearStart(weeks[k].iso.year) + 3) + 7 * (weeks[k].iso.week - 1)
               /\ weeks[k].iso.week >= 1
               /\ weeks[k].week < Monday(YearStart(weeks[k].iso.year + 1) + 3)
               /\ weeks[k].change = {} <=> before = 0
               /\ \A c \in weeks[k].change : 100 * (weeks[k].count - before) - c * before \in 0..(before - 1)

LEMMA TrendsTell ==
    ASSUME NEW table \in SUBSET Row, IsFiniteSet(table), NEW day \in Int
    PROVE  Tells(Trends(table, day), table, day)
<1>1. PICK monday \in Int : monday = Monday(day) /\ (monday + 3) % 7 = 0
  BY TrendsIs
<1>2. PICK weeks : weeks = Trends(table, day)
  OBVIOUS
<1>3. weeks = TrendsBefore(table, monday)
  BY <1>1, <1>2, TrendsIs
<1> DEFINE w(k) == monday - 7 * (5 - k)
           span == InRange(table, (monday - 35) * DayTicks, monday * DayTicks - 1)
           count(k) == DeclaredIn(span, w(k))
<1>4. weeks = [k \in 1..4 |-> [week |-> w(k), iso |-> ISOWeek[w(k)], count |-> count(k),
                               change |-> Change(count(k), count(k - 1))]]
  BY <1>3, Zenon DEF TrendsBefore, Trend
<1>5. ASSUME NEW k \in 0..4
      PROVE  /\ w(k) \in Int /\ (w(k) + 3) % 7 = 0 /\ w(k) >= monday - 35 /\ w(k) <= monday - 7
             /\ w(k) = monday - 35 + 7 * k
  BY <1>1
<1>6. ASSUME NEW k \in 0..4
      PROVE  count(k) = DeclaredFrom(table, w(k), w(k) + 6) /\ count(k) \in Nat
  <2>1. PICK u \in Int : u = w(k) /\ (u + 3) % 7 = 0 /\ u >= monday - 35 /\ u <= monday - 7
    BY <1>5
  <2>2. DeclaredIn(span, u) = DeclaredFrom(table, u, u + 6)
    BY <1>1, <2>1, WeekIs
  <2>3. IsFiniteSet({i \in table : Day(i.declared) \in u..(u + 6)})
    BY FS_Subset
  <2>4. DeclaredFrom(table, u, u + 6) \in Nat
    BY <2>3, FS_CardinalityType DEF DeclaredFrom
  <2>5. QED
    BY <2>1, <2>2, <2>4
<1>7. Len(weeks) = 4 /\ DOMAIN weeks = 1..4
  BY <1>4
<1>8. ASSUME NEW k \in 1..4
      PROVE  /\ weeks[k].week = w(k) /\ weeks[k].iso = ISOWeek[w(k)] /\ weeks[k].count = count(k)
             /\ weeks[k].change = Change(count(k), count(k - 1))
  BY <1>4, Zenon
<1> HIDE DEF w, count, span
<1>9. weeks[4].week = Monday(day) - 7
  <2>1. 4 \in 1..4 /\ 4 \in 0..4
    OBVIOUS
  <2>2. w(4) = monday - 35 + 28
    BY <1>5, <2>1
  <2>3. QED
    BY <1>1, <1>8, <2>1, <2>2
<1>10. ASSUME NEW k \in 1..3
       PROVE  weeks[k + 1].week = weeks[k].week + 7
  <2>1. k \in 1..4 /\ k + 1 \in 1..4 /\ k \in 0..4 /\ k + 1 \in 0..4
    OBVIOUS
  <2>2. w(k + 1) = monday - 35 + 7 * (k + 1) /\ w(k) = monday - 35 + 7 * k
    BY <1>5, <2>1
  <2>3. weeks[k + 1].week = w(k + 1) /\ weeks[k].week = w(k)
    BY <1>8, <2>1
  <2>4. QED
    BY <1>1, <2>2, <2>3
<1>11. ASSUME NEW k \in 1..4, NEW before, before = DeclaredFrom(table, weeks[k].week - 7, weeks[k].week - 1)
       PROVE  /\ weeks[k].count = DeclaredFrom(table, weeks[k].week, weeks[k].week + 6)
              /\ weeks[k].week = Monday(YearStart(weeks[k].iso.year) + 3) + 7 * (weeks[k].iso.week - 1)
              /\ weeks[k].iso.week >= 1
              /\ weeks[k].week < Monday(YearStart(weeks[k].iso.year + 1) + 3)
              /\ weeks[k].change = {} <=> before = 0
              /\ \A c \in weeks[k].change : 100 * (weeks[k].count - before) - c * before \in 0..(before - 1)
  <2>1. k \in 0..4 /\ k - 1 \in 0..4
    OBVIOUS
  <2>2. PICK u \in Int : /\ u = w(k) /\ u = monday - 35 + 7 * k /\ (u + 3) % 7 = 0
                         /\ weeks[k].week = u /\ weeks[k].iso = ISOWeek[u]
    BY <1>5, <1>8, <2>1
  <2>3. PICK v \in Int : v = w(k - 1) /\ v = monday - 35 + 7 * (k - 1)
    BY <1>5, <2>1
  <2>4. u - 7 = v /\ u - 1 = v + 6
    BY <1>1, <2>2, <2>3
  <2>5. PICK n \in Nat : n = count(k) /\ n = DeclaredFrom(table, u, u + 6)
    BY <1>6, <2>1, <2>2
  <2>6. before = count(k - 1) /\ before \in Nat
    BY <1>6, <1>11, <2>1, <2>2, <2>3, <2>4
  <2>7. weeks[k].count = n /\ weeks[k].change = Change(n, before)
    BY <1>8, <2>5, <2>6
  <2>8. Monday(u) = u
    <3>1. u \in (u - 6)..u /\ (u + 3) % 7 = 0 /\ u \in Int
      BY <2>2
    <3>2. QED
      BY <3>1, MondayIs
  <2>9. PICK year \in Int, number \in Nat :
            /\ ISOWeek[u] = [year |-> year, week |-> number] /\ number >= 1
            /\ u = Monday(YearStart(year) + 3) + 7 * (number - 1)
            /\ u < Monday(YearStart(year + 1) + 3)
    BY <2>8, ISOWeekIs
  <2>10. weeks[k].iso.year = year /\ weeks[k].iso.week = number
    BY <2>2, <2>9
  <2>11. /\ Change(n, before) = {} <=> before = 0
         /\ \A c \in Change(n, before) : 100 * (n - before) - c * before \in 0..(before - 1)
    BY <2>6, ChangeIs
  <2>12. QED
    BY <2>2, <2>5, <2>7, <2>9, <2>10, <2>11
<1>12. Tells(weeks, table, day)
  BY <1>7, <1>9, <1>10, <1>11, Zenon DEF Tells
<1>13. QED
  BY <1>2, <1>12

-----------------------------------------------------------------------------
(* The sum of a function *)

\* The recursion of SumFunction, and its solutions on the subsets with up to n elements.
First(s) == CHOOSE x \in s : TRUE
Rest(s) == s \ {First(s)}
Sums(f, S, g) == g = [s \in SUBSET S |-> IF s = {} THEN 0 ELSE f[First(s)] + g[Rest(s)]]
UpTo(S, n) == {s \in SUBSET S : Cardinality(s) <= n}
SumsUpTo(f, S, n, g) == /\ g \in [UpTo(S, n) -> Int] /\ g[{}] = 0
                        /\ \A s \in UpTo(S, n) \ {{}} : g[s] = f[First(s)] + g[Rest(s)]

\* SumFunction is the choice of a solution on all the subsets.
LEMMA SumIs ==
    ASSUME NEW f
    PROVE  SumFunction(f) = (CHOOSE g : Sums(f, DOMAIN f, g))[DOMAIN f]
BY DEF SumFunction, SumFunctionOnSet, FoldFunctionOnSet, MapThenFoldSet, Sums, First, Rest

\* A set of natural numbers has a least one: what a proof by the smallest counterexample rests on.
LEMMA Smallest ==
    ASSUME NEW B \in SUBSET Nat, B # {}
    PROVE  \E n \in B : \A m \in B : n <= m
<1> DEFINE less == {pair \in Nat \X Nat : pair[1] < pair[2]}
<1>1. IsWellFoundedOn(less, Nat)
  BY NatLessThanWellFounded, Zenon DEF OpToRel
<1> HIDE DEF less
<1>2. PICK n \in B : \A m \in B : ~ <<m, n>> \in less
  BY <1>1, WFMin
<1>3. \A m \in B : ~ m < n
  BY <1>2 DEF less
<1>4. QED
  BY <1>3

\* What is left of a set without its first element is smaller by one.
LEMMA RestIs ==
    ASSUME NEW S, IsFiniteSet(S), NEW s \in SUBSET S, s # {}
    PROVE  /\ First(s) \in S /\ Rest(s) \in SUBSET S
           /\ Cardinality(s) \in Nat /\ Cardinality(Rest(s)) = Cardinality(s) - 1
<1>1. First(s) \in s
  BY DEF First
<1>2. IsFiniteSet(s)
  BY FS_Subset
<1>3. QED
  BY <1>1, <1>2, FS_RemoveElement, FS_CardinalityType DEF Rest

\* A solution up to n gives one up to n + 1, which agrees with it.
LEMMA SumsGrow ==
    ASSUME NEW S, IsFiniteSet(S), NEW f \in [S -> Int], NEW n \in Nat, NEW g, SumsUpTo(f, S, n, g)
    PROVE  \E h : SumsUpTo(f, S, n + 1, h)
<1> DEFINE next(s) == IF s = {} THEN 0 ELSE f[First(s)] + g[Rest(s)]
           h == [s \in UpTo(S, n + 1) |-> next(s)]
<1>1. /\ {} \in UpTo(S, n) /\ {} \in UpTo(S, n + 1)
  BY FS_EmptySet DEF UpTo
<1>2. ASSUME NEW s \in UpTo(S, n + 1), s # {}
      PROVE  First(s) \in S /\ Rest(s) \in UpTo(S, n) /\ Rest(s) \in UpTo(S, n + 1)
  BY <1>2, RestIs DEF UpTo
<1>3. ASSUME NEW s \in UpTo(S, n + 1)
      PROVE  next(s) \in Int
  BY <1>2, <1>3 DEF SumsUpTo
<1>4. h \in [UpTo(S, n + 1) -> Int] /\ h[{}] = 0
  BY <1>1, <1>3
<1>5. ASSUME NEW s \in UpTo(S, n)
      PROVE  next(s) = g[s]
  BY <1>5 DEF SumsUpTo
<1>6. ASSUME NEW s \in UpTo(S, n + 1), s # {}
      PROVE  h[s] = f[First(s)] + h[Rest(s)]
  <2>1. h[s] = f[First(s)] + g[Rest(s)]
    BY <1>6
  <2>2. h[Rest(s)] = g[Rest(s)]
    BY <1>2, <1>5, <1>6
  <2>3. QED
    BY <2>1, <2>2
<1>7. SumsUpTo(f, S, n + 1, h)
  BY <1>4, <1>6 DEF SumsUpTo
<1>8. QED
  BY <1>7

\* The recursion has a solution, of integers: otherwise some n would be the smallest without one.
LEMMA SumsExist ==
    ASSUME NEW S, IsFiniteSet(S), NEW f \in [S -> Int]
    PROVE  \A n \in Nat : \E g : SumsUpTo(f, S, n, g)
<1> DEFINE B == {n \in Nat : ~ \E g : SumsUpTo(f, S, n, g)}
<1>1. SUFFICES ASSUME B # {}
               PROVE  FALSE
  OBVIOUS
<1>2. PICK n \in B : \A m \in B : n <= m
  BY <1>1, Smallest
<1>3. n # 0
  <2>1. UpTo(S, 0) = {{}}
    BY FS_Subset, FS_EmptySet, FS_CardinalityType DEF UpTo
  <2>2. SumsUpTo(f, S, 0, [s \in {{}} |-> 0])
    BY <2>1 DEF SumsUpTo
  <2>3. QED
    BY <2>2
<1>4. n - 1 \in Nat /\ n - 1 \notin B
  BY <1>2, <1>3
<1>5. PICK g : SumsUpTo(f, S, n - 1, g)
  BY <1>4
<1>6. \E h : SumsUpTo(f, S, (n - 1) + 1, h)
  BY <1>4, <1>5, SumsGrow
<1>7. (n - 1) + 1 = n
  OBVIOUS
<1>8. QED
  BY <1>6, <1>7

\* The sum of finitely many integers is one: the chosen solution is the one that exists, for
\* a smallest set on which they differed would have a smaller one.
LEMMA SumType ==
    ASSUME NEW f, IsFiniteSet(DOMAIN f), \A x \in DOMAIN f : f[x] \in Int, f = [x \in DOMAIN f |-> f[x]]
    PROVE  SumFunction(f) \in Int
<1> DEFINE S == DOMAIN f
           sum == CHOOSE g : Sums(f, S, g)
<1>0. f \in [S -> Int] /\ Cardinality(S) \in Nat
  BY FS_CardinalityType
<1>1. UpTo(S, Cardinality(S)) = SUBSET S
  BY FS_Subset DEF UpTo
<1>2. PICK g : SumsUpTo(f, S, Cardinality(S), g)
  BY <1>0, SumsExist
<1>3. \A s \in SUBSET S : g[s] = IF s = {} THEN 0 ELSE f[First(s)] + g[Rest(s)]
  BY <1>1, <1>2 DEF SumsUpTo
<1>4. g = [s \in SUBSET S |-> g[s]]
  BY <1>1, <1>2 DEF SumsUpTo
<1>5. Sums(f, S, g)
  BY <1>3, <1>4 DEF Sums
<1>6. Sums(f, S, sum)
  BY <1>5
<1>7. \A s \in SUBSET S : sum[s] = IF s = {} THEN 0 ELSE f[First(s)] + sum[Rest(s)]
  BY <1>6 DEF Sums
<1> HIDE DEF sum
<1>8. \A s \in SUBSET S : sum[s] = g[s]
  <2> DEFINE B == {n \in Nat : \E s \in SUBSET S : Cardinality(s) = n /\ sum[s] # g[s]}
  <2>1. SUFFICES ASSUME B # {}
                 PROVE  FALSE
    BY FS_Subset, FS_CardinalityType
  <2>2. PICK n \in B : \A m \in B : n <= m
    BY <2>1, Smallest
  <2>3. PICK s \in SUBSET S : Cardinality(s) = n /\ sum[s] # g[s]
    BY <2>2
  <2>4. s # {}
    BY <1>3, <1>7, <2>3
  <2>5. Rest(s) \in SUBSET S /\ Cardinality(Rest(s)) = n - 1 /\ IsFiniteSet(Rest(s))
    BY <2>3, <2>4, RestIs, FS_Subset
  <2>6. Cardinality(Rest(s)) \in Nat
    BY <2>5, FS_CardinalityType
  <2>7. n - 1 \notin B /\ n - 1 \in Nat
    BY <2>2, <2>5, <2>6
  <2>8. sum[Rest(s)] = g[Rest(s)]
    BY <2>5, <2>7
  <2>9. QED
    BY <1>3, <1>7, <2>3, <2>4, <2>8
<1>9. g[S] \in Int
  BY <1>1, <1>2 DEF SumsUpTo
<1>10. SumFunction(f) = sum[S]
  BY SumIs DEF sum
<1>11. QED
  BY <1>8, <1>9, <1>10

-----------------------------------------------------------------------------
(* The mean times *)

\* A quotient, by its remainder; it is positive when the divisor goes into the total.
LEMMA QuotientIs ==
    ASSUME NEW total \in Int, NEW size \in Nat \ {0}
    PROVE  /\ total \div size \in Int
           /\ total - (total \div size) * size >= 0 /\ total - (total \div size) * size <= size - 1
           /\ total >= size => total \div size > 0
<1> DEFINE mean == total \div size
<1>1. mean \in Int
  OBVIOUS
<1>2. total - mean * size >= 0 /\ total - mean * size <= size - 1
  OBVIOUS
<1>3. ASSUME total >= size
      PROVE  mean > 0
  BY <1>3
<1>4. QED
  BY <1>1, <1>2, <1>3

\* What MttrIsTrue says of the mean of a severity: its group, its total and its mean.
Means(mttr, group, total) ==
    /\ mttr >= 0 /\ (group = {} => mttr = 0)
    /\ mttr > 0 => total - mttr * Cardinality(group) \in 0..(Cardinality(group) - 1)
    /\ total >= Cardinality(group) => mttr > 0 \/ group = {}

LEMMA MttrTells ==
    ASSUME NEW table \in SUBSET Row, IsFiniteSet(table), NEW s \in Severities
    PROVE  LET group == {i \in table : i.severity = s /\ i.resolved}
           IN  Means(Mttr(table)[s], group, SumFunction([i \in group |-> i.minutes]))
<1> DEFINE group == {i \in table : i.severity = s /\ i.resolved}
           minutes == [i \in group |-> i.minutes]
           total == SumFunction(minutes)
           size == Cardinality(group)
           mean == total \div size
           mttr == Mttr(table)[s]
<1>1. IsFiniteSet(group) /\ \A i \in group : i.minutes \in Int
  BY FS_Subset DEF Row
<1>2. /\ DOMAIN minutes = group /\ minutes = [x \in DOMAIN minutes |-> minutes[x]]
      /\ \A x \in DOMAIN minutes : minutes[x] \in Int
  BY <1>1
<1> HIDE DEF minutes
<1>3. total \in Int
  BY <1>1, <1>2, SumType
<1>4. size \in Nat /\ (size = 0 <=> group = {})
  BY <1>1, FS_CardinalityType, FS_EmptySet
<1>5. mttr = IF group = {} \/ mean < 0 THEN 0 ELSE mean
  BY DEF Mttr, minutes
<1> HIDE DEF mttr, total, size, group
<1>6. ASSUME group = {}
      PROVE  Means(mttr, group, total)
  <2>1. mttr = 0
    BY <1>5, <1>6
  <2>2. total >= size => mttr > 0 \/ group = {}
    BY <1>6
  <2>3. QED
    BY <1>6, <2>1, <2>2 DEF Means, size
<1>7. ASSUME group # {}
      PROVE  Means(mttr, group, total)
  <2>1. /\ mean \in Int /\ total - mean * size >= 0 /\ total - mean * size <= size - 1
        /\ total >= size => mean > 0
    BY <1>3, <1>4, <1>7, QuotientIs
  <2>2. mttr = IF mean < 0 THEN 0 ELSE mean
    BY <1>5, <1>7
  <2> HIDE DEF mean
  <2>3. mttr \in Int /\ mttr >= 0 /\ (mttr > 0 => mttr = mean) /\ (mean > 0 => mttr > 0)
    BY <2>1, <2>2
  <2>4. mttr > 0 => total - mttr * size \in 0..(size - 1)
    <3>1. SUFFICES ASSUME mttr > 0
                   PROVE  total - mttr * size \in 0..(size - 1)
      OBVIOUS
    <3>2. mttr = mean
      BY <2>3, <3>1
    <3>3. mean * size \in Int
      BY <1>4, <2>1
    <3>4. QED
      BY <1>3, <1>4, <2>1, <3>2, <3>3
  <2>5. QED
    BY <1>7, <2>1, <2>3, <2>4 DEF Means, size
<1>8. Means(mttr, group, total)
  BY <1>6, <1>7
<1>9. QED
  BY <1>8, Zenon DEF mttr, total, minutes, group

-----------------------------------------------------------------------------
(* The answers *)

\* The buckets of a frequency are all those its range touches, and each incident of the
\* range is counted in one.
THEOREM FrequencyIsTrueHolds == Spec => []FrequencyIsTrue
<1>1. IInv => FrequencyIsTrue
  <2> SUFFICES ASSUME IInv
               PROVE  FrequencyIsTrue
    OBVIOUS
  <2> SUFFICES ASSUME NEW r \in Requests, Answered(r, "frequency")
               PROVE  Counts(answer[r].entry.value, answer[r].entry.table,
                             query[r].interval, query[r].start, query[r].end)
    BY Zenon DEF FrequencyIsTrue, Counts
  <2>0. PICK q, table, rows : q = query[r] /\ table = answer[r].entry.table /\ rows = answer[r].entry.value
    OBVIOUS
  <2>1. answer[r].status = 200 /\ q.kind = "frequency"
    BY <2>0 DEF Answered
  <2>2. Acceptable(q) /\ Sane(answer[r].entry, q)
    BY <2>0, <2>1, Parts DEF AcceptedOK, ServedOK
  <2>3. q.start \in Int /\ q.end \in Int
    BY <2>0, <2>1, Parts, MetricsAssumption DEF TypesOK
  <2>4. Compute(q, table, answer[r].entry.day) = Frequency(table, q.interval, q.start, q.end)
    BY <2>1 DEF Compute
  <2>5. rows = Frequency(table, q.interval, q.start, q.end) /\ table \in SUBSET Row
    BY <2>0, <2>2, <2>4 DEF Sane
  <2>6. q.interval \in {"daily", "weekly", "monthly"} /\ ValidRange(q.start, q.end)
    BY <2>1, <2>2 DEF Acceptable
  <2>7. QED
    BY <2>0, <2>3, <2>5, <2>6, FrequencyRows
<1>2. QED
  BY <1>1, InductiveInvariant, PTL

\* The trends of an answer are the last four complete weeks, by their number, with the
\* incidents of each and the change from the one before.
THEOREM TrendsAreTrueHolds == Spec => []TrendsAreTrue
<1>1. IInv => TrendsAreTrue
  <2> SUFFICES ASSUME IInv
               PROVE  TrendsAreTrue
    OBVIOUS
  <2> SUFFICES ASSUME NEW r \in Requests, Answered(r, "trends")
               PROVE  Tells(answer[r].entry.value, answer[r].entry.table, answer[r].entry.day)
    BY Zenon DEF TrendsAreTrue, Tells
  <2>1. PICK q, table, day : q = query[r] /\ table = answer[r].entry.table /\ day = answer[r].entry.day
    OBVIOUS
  <2>2. answer[r].status = 200 /\ q.kind = "trends"
    BY <2>1 DEF Answered
  <2>3. Sane(answer[r].entry, q)
    BY <2>1, <2>2, Parts DEF ServedOK
  <2>4. Compute(q, table, day) = Trends(table, day)
    BY <2>2 DEF Compute
  <2>5. table \in SUBSET Row /\ IsFiniteSet(table) /\ day \in Int
    BY <2>1, <2>3, MetricsAssumption DEF Sane
  <2>6. answer[r].entry.value = Trends(table, day)
    BY <2>1, <2>3, <2>4 DEF Sane
  <2>7. QED
    BY <2>1, <2>5, <2>6, TrendsTell
<1>2. QED
  BY <1>1, InductiveInvariant, PTL

\* A mean time is never negative, and one that is positive is the quotient of the minutes of
\* the resolved incidents of its severity by their number, as the table then was.
THEOREM MttrIsTrueHolds == Spec => []MttrIsTrue
<1>1. IInv => MttrIsTrue
  <2> SUFFICES ASSUME IInv
               PROVE  MttrIsTrue
    OBVIOUS
  <2> SUFFICES ASSUME NEW r \in Requests, Answered(r, "mttr"), NEW s \in Severities
               PROVE  LET group == {i \in answer[r].entry.table : i.severity = s /\ i.resolved}
                      IN  Means(answer[r].entry.value[s], group, SumFunction([i \in group |-> i.minutes]))
    BY Zenon DEF MttrIsTrue, Means
  <2>1. PICK q, table : q = query[r] /\ table = answer[r].entry.table
    OBVIOUS
  <2>2. answer[r].status = 200 /\ q.kind = "mttr"
    BY <2>1 DEF Answered
  <2>3. Sane(answer[r].entry, q)
    BY <2>1, <2>2, Parts DEF ServedOK
  <2>4. Compute(q, table, answer[r].entry.day) = Mttr(table)
    BY <2>2 DEF Compute
  <2>5. answer[r].entry.value = Mttr(table) /\ table \in SUBSET Row /\ IsFiniteSet(table)
    BY <2>1, <2>3, <2>4 DEF Sane
  <2>6. QED
    BY <2>1, <2>5, MttrTells
<1>2. QED
  BY <1>1, InductiveInvariant, PTL

=============================================================================
