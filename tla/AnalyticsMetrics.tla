--------------------------- MODULE AnalyticsMetrics ---------------------------
(***************************************************************************)
(* The metrics of the analytics-service: a GET answers from the cache in   *)
(* Redis, or computes from the incidents with a client of its replica's    *)
(* pool and caches what it found.  A handler advances by one await at a    *)
(* time; the incidents and the clock change meanwhile.                     *)
(***************************************************************************)
EXTENDS MetricsCalendar, Functions

CONSTANTS Requests,    \* the requests
          Replicas,
          Hosts,       \* how the requests may be spread over them
          PoolMax,     \* clients of a pool
          FirstDay,    \* the day the model begins on
          Workloads,   \* what the requests may ask, one query each
          Seed,        \* the incidents there are
          Arriving,    \* the severities of incidents that are declared later
          TTL,         \* CACHE_TTL_SECONDS, in ticks of the clock
          Midnight,    \* the tick the second day begins with
          MaxClock,    \* bound: ticks
          MaxWrites,   \* bound: writes of the incident-engine
          FaultKinds,  \* the faults that may happen: "get", "connect", "query", "set"
          MaxFaults    \* bound: how many of them

Severities == {"critical", "high", "medium", "low"}
Row        == [id : Nat, severity : Severities, declared : Int, minutes : Int, resolved : BOOLEAN]
NewIds     == 100     \* the ids of the incidents that are declared later begin here

\* The table has a primary key.
Keyed(table) == \A i, j \in table : i.id = j.id => i = j

ASSUME MetricsAssumption ==
    /\ Hosts \subseteq [Requests -> Replicas]
    /\ \A w \in Workloads : \A r \in Requests :
           w[r].kind \in {"frequency", "severity"} => w[r].start \in Int /\ w[r].end \in Int
    /\ FirstDay \in Int
    /\ Seed \subseteq Row /\ IsFiniteSet(Seed) /\ Keyed(Seed) /\ \A i \in Seed : i.id < NewIds
    /\ Arriving \subseteq Severities
    /\ PoolMax \in Nat \ {0} /\ TTL \in Nat \ {0}
    /\ MaxClock \in Nat /\ MaxWrites \in Nat /\ MaxFaults \in Nat

VARIABLES host,        \* the replica each request comes to
          query,       \* what it asks
          clock,
          incidents,   \* the table the incident-engine writes
          writes,      \* its writes so far
          cache,       \* the keys of Redis that have not expired
          clients,     \* those the pool of each replica can give
          pc,          \* the await a handler is at
          today,       \* new Date(), read before the query
          computed,    \* what a handler has computed, and from which table
          answer,      \* the answer of each request
          faults       \* the faults so far

arrivals == <<host, query>>
database == <<incidents, writes>>
vars     == <<host, query, clock, incidents, writes, cache, clients, pc, today, computed, answer, faults>>

None == [status |-> 0]

Now == FirstDay + IF clock >= Midnight THEN 1 ELSE 0

\* The requests of a replica that have a client of its pool.
Holders(p) == {r \in Requests : host[r] = p /\ pc[r] \in {"query", "store"}}

TypeOK == /\ clock \in 0..MaxClock /\ writes \in 0..MaxWrites /\ faults \in 0..MaxFaults
          /\ host \in Hosts /\ query \in Workloads
          /\ incidents \subseteq Row /\ IsFiniteSet(incidents) /\ Keyed(incidents)
          /\ clients \in [Replicas -> 0..PoolMax]
          /\ pc \in [Requests -> {"new", "lookup", "connect", "query", "store", "done"}]
          /\ \A r \in Requests : answer[r].status = 0 <=> pc[r] # "done"
          /\ \A p \in Replicas : clients[p] + Cardinality(Holders(p)) = PoolMax

Init == /\ host \in Hosts
        /\ clock = 0
        /\ incidents = Seed
        /\ writes = 0
        /\ cache = << >>
        /\ clients = [p \in Replicas |-> PoolMax]
        /\ pc = [r \in Requests |-> "new"]
        /\ query \in Workloads
        /\ today = [r \in Requests |-> 0]
        /\ computed = [r \in Requests |-> None]
        /\ answer = [r \in Requests |-> None]
        /\ faults = 0

-----------------------------------------------------------------------------
(* What the queries compute *)

InRange(table, start, end) == {i \in table : i.declared >= start /\ i.declared <= end}

\* Slip: the mean is not kept from falling below zero.
SignedMttr(table) ==
    [s \in Severities |->
        LET group == {i \in table : i.severity = s /\ i.resolved}
        IN  IF group = {} THEN 0 ELSE SumFunction([i \in group |-> i.minutes]) \div Cardinality(group)]

\* The means, in whole minutes; two clocks make a difference negative.
Mttr(table) ==
    [s \in Severities |->
        LET group == {i \in table : i.severity = s /\ i.resolved}
            mean  == SumFunction([i \in group |-> i.minutes]) \div Cardinality(group)
        IN  IF group = {} \/ mean < 0 THEN 0 ELSE mean]

\* GROUP BY date_trunc, then zero for the buckets without a row.
Frequency(table, interval, start, end) ==
    LET counted == InRange(table, start, end)
        buckets == Buckets(interval, start, end)
    IN  [k \in DOMAIN buckets |->
            [bucket |-> buckets[k],
             count  |-> Cardinality({i \in counted : Truncated(interval, Day(i.declared)) = buckets[k]})]]

\* percentageChange, in whole percent; {} is null.
Change(count, previous) == IF previous = 0 THEN {} ELSE {(100 * (count - previous)) \div previous}

DeclaredIn(table, monday) == Cardinality({i \in table : Truncated("weekly", Day(i.declared)) = monday})

\* Slip: the year is that of the Monday.
TrendOfMonday(week, count, previous) ==
    [week |-> week, iso |-> [ISOWeek[week] EXCEPT !.year = YearOf[week]],
     count |-> count, change |-> Change(count, previous)]

Trend(week, count, previous) ==
    [week |-> week, iso |-> ISOWeek[week], count |-> count, change |-> Change(count, previous)]

\* The four weeks before the one that begins on a Monday, and one more for its count.
TrendsBefore(table, monday) ==
    LET span     == InRange(table, (monday - 35) * DayTicks, monday * DayTicks - 1)
        week(k)  == monday - 7 * (5 - k)
        count(k) == DeclaredIn(span, week(k))
    IN  [k \in 1..4 |-> Trend(week(k), count(k), count(k - 1))]

Trends(table, day) ==
    LET trends[monday \in Int] == TrendsBefore(table, monday)
    IN  trends[MondayOfISOWeek(ISOWeek[day].year, ISOWeek[day].week)]

Distribution(table, start, end) ==
    [s \in Severities |-> Cardinality({i \in InRange(table, start, end) : i.severity = s})]

Compute(q, table, day) ==
    CASE q.kind = "mttr"      -> Mttr(table)
      [] q.kind = "trends"    -> Trends(table, day)
      [] q.kind = "frequency" -> Frequency(table, q.interval, q.start, q.end)
      [] q.kind = "severity"  -> Distribution(table, q.start, q.end)

-----------------------------------------------------------------------------
(* The world around the handlers *)

Write == writes < MaxWrites /\ writes' = writes + 1

\* The incident-engine declares an incident, or resolves one.
Declare == /\ Write
           /\ \E s \in Arriving :
                 incidents' = incidents \cup {[id |-> NewIds + writes, severity |-> s, declared |-> Now * DayTicks,
                                              minutes |-> 0, resolved |-> FALSE]}
           /\ UNCHANGED <<arrivals, clock, cache, clients, pc, today, computed, answer, faults>>

Resolve == /\ Write
           /\ \E i \in {i \in incidents : ~i.resolved} :
                 incidents' = (incidents \ {i}) \cup {[i EXCEPT !.resolved = TRUE]}
           /\ UNCHANGED <<arrivals, clock, cache, clients, pc, today, computed, answer, faults>>

\* Redis drops the keys whose time to live is over.
Tick == /\ clock < MaxClock
        /\ clock' = clock + 1
        /\ cache' = Restrict(cache, {k \in DOMAIN cache : cache[k].stored + TTL > clock'})
        /\ UNCHANGED <<arrivals, database, clients, pc, today, computed, answer, faults>>

-----------------------------------------------------------------------------
(* A handler *)

At(r, label)   == pc[r] = label
Goto(r, label) == pc' = [pc EXCEPT ![r] = label]
Fault(f)       == f \in FaultKinds /\ faults < MaxFaults /\ faults' = faults + 1

Reply(r, status)      == Goto(r, "done") /\ answer' = [answer EXCEPT ![r] = [status |-> status]]
ReplyWith(r, entry)   == /\ Goto(r, "done")
                         /\ answer' = [answer EXCEPT ![r] = [entry |-> entry, age |-> clock - entry.stored, status |-> 200]]

Acceptable(q) == /\ q.kind = "frequency" => q.interval \in {"daily", "weekly", "monthly"}
                 /\ q.kind \in {"frequency", "severity"} => ValidRange(q.start, q.end)

\* Slip: the key leaves the interval out.
KeyOfRange(q) == IF q.kind = "frequency" THEN [q EXCEPT !.interval = "any"] ELSE q

\* hashParams: the key of a query stands for all its parameters.
KeyOf(q) == q

Ask(r) ==
    /\ At(r, "new")
    /\ \/ Acceptable(query[r]) /\ Goto(r, "lookup") /\ UNCHANGED answer
       \/ ~Acceptable(query[r]) /\ Reply(r, 400)
    /\ UNCHANGED <<arrivals, database, clock, cache, clients, today, computed, faults>>

Lookup(r) ==
    /\ At(r, "lookup")
    /\ \/ KeyOf(query[r]) \in DOMAIN cache /\ ReplyWith(r, cache[KeyOf(query[r])])
       \/ KeyOf(query[r]) \notin DOMAIN cache /\ Goto(r, "connect") /\ UNCHANGED answer
    /\ UNCHANGED <<arrivals, database, clock, cache, clients, today, computed, faults>>

\* A GET that is rejected counts as a miss.
LookupFails(r) ==
    /\ Fault("get") /\ At(r, "lookup")
    /\ Goto(r, "connect")
    /\ UNCHANGED <<arrivals, database, clock, cache, clients, today, computed, answer>>

\* pool.connect waits for a client; then the clock is read and the query sent.
Connect(r) ==
    /\ At(r, "connect") /\ clients[host[r]] > 0
    /\ clients' = [clients EXCEPT ![host[r]] = @ - 1]
    /\ today' = [today EXCEPT ![r] = Now]
    /\ Goto(r, "query")
    /\ UNCHANGED <<arrivals, database, clock, cache, computed, answer, faults>>

\* Slip: the finally encloses the connect.
ConnectFailsReleases(r) ==
    /\ Fault("connect") /\ At(r, "connect")
    /\ Reply(r, 503)
    /\ clients' = [clients EXCEPT ![host[r]] = @ + 1]
    /\ UNCHANGED <<arrivals, database, clock, cache, today, computed>>

ConnectFails(r) ==
    /\ Fault("connect") /\ At(r, "connect")
    /\ Reply(r, 503)
    /\ UNCHANGED <<arrivals, database, clock, cache, clients, today, computed>>

\* The statement reads the table as it is now.
Query(r) ==
    /\ At(r, "query")
    /\ computed' = [computed EXCEPT ![r] =
           [value |-> Compute(query[r], incidents, today[r]), table |-> incidents, day |-> today[r], status |-> 0]]
    /\ Goto(r, "store")
    /\ UNCHANGED <<arrivals, database, clock, cache, clients, today, answer, faults>>

Release(r) == clients' = [clients EXCEPT ![host[r]] = @ + 1]

\* Slip: only the path without an error releases the client.
QueryLeaks(r) ==
    /\ Fault("query") /\ At(r, "query")
    /\ Reply(r, 503)
    /\ UNCHANGED <<arrivals, database, clock, cache, clients, today, computed>>

QueryFails(r) ==
    /\ Fault("query") /\ At(r, "query")
    /\ Reply(r, 503)
    /\ Release(r)
    /\ UNCHANGED <<arrivals, database, clock, cache, today, computed>>

Entry(r) == [value |-> computed[r].value, table |-> computed[r].table, day |-> computed[r].day, stored |-> clock]

\* SET with EX, the answer, and the client back to the pool.
Store(r) ==
    /\ At(r, "store")
    /\ cache' = [k \in DOMAIN cache \cup {KeyOf(query[r])} |->
                    IF k = KeyOf(query[r]) THEN Entry(r) ELSE cache[k]]
    /\ ReplyWith(r, Entry(r))
    /\ Release(r)
    /\ UNCHANGED <<arrivals, database, clock, today, computed, faults>>

\* A SET that is rejected is not fatal.
StoreFails(r) ==
    /\ Fault("set") /\ At(r, "store")
    /\ ReplyWith(r, Entry(r))
    /\ Release(r)
    /\ UNCHANGED <<arrivals, database, clock, cache, today, computed>>

-----------------------------------------------------------------------------
Handler(r) == Lookup(r) \/ Connect(r) \/ Query(r) \/ Store(r)

Next == \/ Declare \/ Resolve \/ Tick
        \/ \E r \in Requests :
              \/ Ask(r) \/ Handler(r) \/ LookupFails(r) \/ ConnectFails(r) \/ QueryFails(r) \/ StoreFails(r)

Spec == Init /\ [][Next]_vars

\* Node's event loop gets to every await that is answered, and pg hands out the clients
\* in the order they were asked for.
FairSpec == Spec /\ \A r \in Requests : WF_vars(Handler(r))

-----------------------------------------------------------------------------
(* What the answers must be: of one table, whatever is written meanwhile *)

Answered(r, kind) == answer[r].status = 200 /\ query[r].kind = kind

\* The Monday a day's week begins with.
Monday(d) == CHOOSE m \in (d - 6)..d : m % 7 = 4

DeclaredFrom(table, from, to) == Cardinality({i \in table : Day(i.declared) \in from..to})

\* Requirement 14.1: the buckets of a frequency are all those its range touches, in
\* order, at most 366; every incident of the range is counted in the bucket it falls in,
\* once, those of the days of the range and no other.
FrequencyIsTrue ==
    \A r \in Requests : Answered(r, "frequency") =>
        LET q       == query[r]
            table   == answer[r].entry.table
            rows    == answer[r].entry.value
            counted == InRange(table, q.start, q.end)
        IN  /\ Len(rows) <= 366
            /\ rows[1].bucket = Truncated(q.interval, Day(q.start))
            /\ rows[Len(rows)].bucket = Truncated(q.interval, Day(q.end))
            /\ \A k \in 2..Len(rows) : Truncated(q.interval, rows[k].bucket - 1) = rows[k - 1].bucket
            /\ \A k \in DOMAIN rows : rows[k].count = Cardinality(
                   {i \in counted : Day(i.declared) >= rows[k].bucket
                                     /\ (k < Len(rows) => Day(i.declared) < rows[k + 1].bucket)})

\* Requirements 14.2 and 14.3: the trends are of the last four weeks that were complete
\* when they were computed, named by their Monday and their ISO year and number (week 1
\* has 4 January in it); a change is that from the week before, null if that had none.
TrendsAreTrue ==
    \A r \in Requests : Answered(r, "trends") =>
        LET table == answer[r].entry.table
            weeks == answer[r].entry.value
            before(k) == DeclaredFrom(table, weeks[k].week - 7, weeks[k].week - 1)
        IN  /\ Len(weeks) = 4 /\ weeks[4].week = Monday(answer[r].entry.day) - 7
            /\ \A k \in 1..3 : weeks[k + 1].week = weeks[k].week + 7
            /\ \A k \in 1..4 :
                   /\ weeks[k].count = DeclaredFrom(table, weeks[k].week, weeks[k].week + 6)
                   /\ weeks[k].week =
                          Monday(YearStart(weeks[k].iso.year) + 3) + 7 * (weeks[k].iso.week - 1)
                   /\ weeks[k].iso.week >= 1
                   /\ weeks[k].week < Monday(YearStart(weeks[k].iso.year + 1) + 3)
                   /\ weeks[k].change = {} <=> before(k) = 0
                   /\ \A c \in weeks[k].change :
                          100 * (weeks[k].count - before(k)) - c * before(k) \in 0..(before(k) - 1)

\* Requirement 13: no mean time is negative, and one that is positive is that of the
\* incidents of its severity that were resolved, as the table then was.
MttrIsTrue ==
    \A r \in Requests : Answered(r, "mttr") =>
        \A s \in Severities :
            LET mttr  == answer[r].entry.value[s]
                group == {i \in answer[r].entry.table : i.severity = s /\ i.resolved}
                total == SumFunction([i \in group |-> i.minutes])
            IN  /\ mttr >= 0 /\ (group = {} => mttr = 0)
                /\ mttr > 0 => total - mttr * Cardinality(group) \in 0..(Cardinality(group) - 1)
                /\ total >= Cardinality(group) => mttr > 0 \/ group = {}

\* An answer is of the query that was asked, and one from the cache was stored less than
\* ten minutes ago (requirements 13.4 and 14.5), however the replicas overtake each other.
ServedWhileValid ==
    \A r \in Requests : answer[r].status = 200 =>
        /\ answer[r].age < TTL
        /\ answer[r].entry.value = Compute(query[r], answer[r].entry.table, answer[r].entry.day)

-----------------------------------------------------------------------------
(* The inductive invariant *)

\* A metric is what its query computes from one table, on one day.
Sane(m, q) == /\ m.table \subseteq Row /\ IsFiniteSet(m.table) /\ m.day \in Int
              /\ m.value = Compute(q, m.table, m.day)

\* A key of Redis is not kept for longer than its time.
Fresh(m) == m.stored \in 0..clock /\ clock < m.stored + TTL

\* What a handler is about to store and to answer, what is cached and what was answered is
\* what was asked; only what is acceptable is answered; the clients that are lent are
\* finitely many, and those the pool is short of.
IInv == /\ TypeOK
        /\ \A i \in incidents : i.id < NewIds + writes
        /\ \A p \in Replicas : IsFiniteSet(Holders(p))
        /\ \A q \in DOMAIN cache : Sane(cache[q], q) /\ Fresh(cache[q])
        /\ \A r \in Requests :
               /\ At(r, "query") => today[r] \in Int
               /\ At(r, "store") => Sane(computed[r], query[r])
               /\ pc[r] \in {"lookup", "connect", "query", "store"} \/ answer[r].status = 200 =>
                      Acceptable(query[r])
               /\ answer[r].status = 200 => Sane(answer[r].entry, query[r]) /\ answer[r].age < TTL
        /\ DOMAIN computed = Requests /\ DOMAIN answer = Requests /\ DOMAIN today = Requests

-----------------------------------------------------------------------------
(* Liveness *)

\* Every request is answered, also when Redis or the database fails it or another one:
\* each gives its client back to the pool.
EveryRequestAnswered == \A r \in Requests : pc[r] # "new" ~> pc[r] = "done"
=============================================================================
