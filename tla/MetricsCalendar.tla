--------------------------- MODULE MetricsCalendar ---------------------------
(***************************************************************************)
(* The dates of the analytics-service: a day is its number since 1 January *)
(* 1970, a Thursday, in UTC; a moment is a number of half days.  The local *)
(* time of a replica, which getISOWeekNumber reads, is UTC: the images set *)
(* no time zone.                                                           *)
(***************************************************************************)
EXTENDS Integers, Sequences, FiniteSets, SequencesExt

DayTicks == 2
Day(t)   == t \div DayTicks

(* The calendar, external: what Date and date_trunc know of it. *)

YearStart(y) == 365 * (y - 1970) + ((y - 1) \div 4) - ((y - 1) \div 100) + ((y - 1) \div 400) - 477

\* 400 years have 146097 days.
YearOf[d \in Int] ==
    LET about == 1970 + (400 * d) \div 146097
    IN  CHOOSE y \in (about - 1)..(about + 1) : YearStart(y) <= d /\ d < YearStart(y + 1)

\* Months are numbered through: month n is that of year n \div 12.
FirstOfMonth[n \in Int] ==
    LET y == n \div 12
        m == n % 12
    IN  YearStart(y) + <<0, 31, 59, 90, 120, 151, 181, 212, 243, 273, 304, 334>>[m + 1]
        + (IF m > 1 /\ YearStart(y + 1) - YearStart(y) = 366 THEN 1 ELSE 0)

MonthOf[d \in Int] == CHOOSE n \in (12 * YearOf[d])..(12 * YearOf[d] + 11) :
                 FirstOfMonth[n] <= d /\ d < FirstOfMonth[n + 1]

WeekDay(d)  == (d + 4) % 7                     \* getUTCDay: Sunday is 0
FromMonday(d) == IF WeekDay(d) = 0 THEN 7 ELSE WeekDay(d)

\* date_trunc of PostgreSQL
Truncated(interval, d) ==
    CASE interval = "daily"   -> d
      [] interval = "weekly"  -> d + 1 - FromMonday(d)
      [] interval = "monthly" -> FirstOfMonth[MonthOf[d]]

-----------------------------------------------------------------------------
(* Ranges and their buckets *)

ValidRange(start, end) == start < end /\ end - start <= 365 * DayTicks

\* The days from first to last in steps of so many.
EverySo(step, first, last) == [k \in 1..((last - first) \div step + 1) |-> first + step * (k - 1)]

DailyBuckets(start, end) == EverySo(1, Day(start), Day(end))

\* Slip: the weeks are counted from the first day of the range.
UnalignedWeeks(start, end) == EverySo(7, Day(start), Day(end))

WeeklyBuckets(start, end) ==
    LET dow == WeekDay(Day(start))
    IN  EverySo(7, Day(start) + (IF dow = 0 THEN -6 ELSE 1 - dow), Day(end))

\* setUTCMonth on the first of a month
MonthlyBuckets(start, end) ==
    LET first == MonthOf[Day(start)]
    IN  [k \in 1..(MonthOf[Day(end)] - first + 1) |-> FirstOfMonth[first + k - 1]]

Buckets(interval, start, end) ==
    CASE interval = "daily"   -> DailyBuckets(start, end)
      [] interval = "weekly"  -> WeeklyBuckets(start, end)
      [] interval = "monthly" -> MonthlyBuckets(start, end)

-----------------------------------------------------------------------------
(* ISO weeks *)

ISOWeek[d \in Int] ==
    LET thursday == d + 4 - FromMonday(d)
        year     == YearOf[thursday]
    IN  [year |-> year, week |-> (thursday - YearStart(year) + 7) \div 7]

MondayOfISOWeek(year, week) ==
    LET jan4 == YearStart(year) + 3
    IN  jan4 - FromMonday(jan4) + 1 + (week - 1) * 7
=============================================================================
