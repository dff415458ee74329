--------------------------- MODULE IncidentData ---------------------------
(***************************************************************************)
(* The rows the incident-engine keeps in PostgreSQL and the tables its     *)
(* handlers decide by, shared by IncidentContract (what the service        *)
(* promises) and IncidentLifecycle (how its handlers keep the promise).    *)
(***************************************************************************)
EXTENDS Naturals, Sequences

CONSTANTS Incidents,    \* the incident ids
          People,       \* the responder ids
          EntryTypes,   \* the timeline entry types clients post
          NoRow         \* the value of an id that no row has

Statuses == {"declared", "investigating", "mitigating", "resolved", "closed"}
Active   == {"declared", "investigating", "mitigating"}

\* The linear state machine: the statuses reachable from each status.
ValidTransitions == [declared      |-> {"investigating"},
                     investigating |-> {"mitigating"},
                     mitigating    |-> {"resolved"},
                     resolved      |-> {"closed"},
                     closed        |-> {}]

\* The place of each status in the lifecycle.
Rank == [declared |-> 0, investigating |-> 1, mitigating |-> 2, resolved |-> 3, closed |-> 4]

SeverityOrder == [low |-> 0, medium |-> 1, high |-> 2, critical |-> 3]
Severities    == {"low", "medium", "high", "critical"}

\* The columns of the incidents table that a handler changes; of a timestamp,
\* whether it is set.
Row == [status: Statuses, severity: Severities, responders: SUBSET People,
        resolvedAt: BOOLEAN, closedAt: BOOLEAN]

\* A timeline row: what its type and its metadata record.
Entry == [kind: {"detection"}]
           \cup [kind: {"status"},     from: Statuses,   to: Statuses]
           \cup [kind: {"severity"},   from: Severities, to: Severities]
           \cup [kind: {"responders"}, who: SUBSET People]
           \cup [kind: {"posted"},     type: EntryTypes]

ASSUME NoRowAssumption == NoRow \notin Row

Detection             == [kind |-> "detection"]
StatusEntry(from, to) == [kind |-> "status", from |-> from, to |-> to]
SeverityEntry(from, to) == [kind |-> "severity", from |-> from, to |-> to]
RespondersEntry(who)  == [kind |-> "responders", who |-> who]
Posted(type)          == [kind |-> "posted", type |-> type]

\* The row that POST /incidents inserts.
NewIncident(severity) ==
    [status |-> "declared", severity |-> severity, responders |-> {},
     resolvedAt |-> FALSE, closedAt |-> FALSE]

\* The row after UPDATE ... SET status; resolved and closed stamp their time.
WithStatus(row, target) ==
    [row EXCEPT !.status     = target,
                !.resolvedAt = @ \/ target = "resolved",
                !.closedAt   = @ \/ target = "closed"]

\* SELECT COUNT of the resolution entries of a timeline, compared with zero.
HasResolution(log) == \E k \in 1..Len(log) : log[k] = Posted("resolution")

\* The responders an assignment records: the new ones or, if none is, all named.
Recorded(asked, existing) == IF asked \subseteq existing THEN asked ELSE asked \ existing

\* The places of the entries of a kind in a timeline.
Places(log, kind) == {k \in 1..Len(log) : log[k].kind = kind}

\* The entries of a kind form one chain, each starting where the one before ended,
\* and the chain ends at the current value.
Chained(log, kind, current) ==
    LET P == Places(log, kind)
    IN  /\ \A j, k \in P : j < k /\ (\A m \in P : m <= j \/ k <= m) => log[k].from = log[j].to
        /\ \A k \in P : (\A m \in P : m <= k) => log[k].to = current

===========================================================================
