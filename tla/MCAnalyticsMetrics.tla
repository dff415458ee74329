------------------------- MODULE MCAnalyticsMetrics -------------------------
(* An instance of AnalyticsMetrics for TLC. *)
EXTENDS AnalyticsMetrics, TLC

CONSTANTS r1, r2, p1, p2

\* Both on one replica, or each on its own.
MCHosts == {(r1 :> p1) @@ (r2 :> p) : p \in Replicas}

\* Sunday, 26 January 2025: one of the five weeks before it begins in 2024 and is the
\* first of 2025, and the year before it has a 29 February.
MCFirstDay == 20114

\* Moments are given as half days from its beginning.
Moment(h) == MCFirstDay * DayTicks + h

Ranged(kind, interval, start, end) ==
    [kind |-> kind, interval |-> interval, start |-> Moment(start), end |-> Moment(end)]

Distributed        == Ranged("severity", "none", -77, 1)
Counted(interval)  == Ranged("frequency", interval, -77, 1)
Yearly(interval)   == Ranged("frequency", interval, -730, 0)
TooLong(interval)  == Ranged("frequency", interval, -731, 0)
Both(first, other) == (r1 :> first) @@ (r2 :> other)

\* The means and the trends twice, two intervals and the severities of one range of some
\* weeks from a Wednesday noon, a year to the day, and half a day more.
MCWorkloads == {Both(q, q) : q \in {[kind |-> "mttr"], [kind |-> "trends"]}}
               \cup {Both(Counted("daily"), Counted("weekly")), Both(Distributed, Counted("weekly"))}
               \cup {Both(Yearly(i), TooLong(i)) : i \in {"daily", "monthly"}}

Incident(n, severity, declared, minutes, resolved) ==
    [id |-> n, severity |-> severity, declared |-> Moment(declared), minutes |-> minutes, resolved |-> resolved]

\* On the first noon and in the last week of the ranges, at both ends of a week, and an
\* incident whose clocks disagree.
MCSeed == {Incident(1, "critical", -77, 90, TRUE), Incident(2, "critical", -26, 31, TRUE),
           Incident(3, "low", -13, -7, TRUE), Incident(4, "high", -12, 45, FALSE),
           Incident(5, "low", 1, 3, TRUE)}
=============================================================================
