----------------------- MODULE IncidentHistory_proofs -----------------------
(***************************************************************************)
(* IncidentLifecycle implements IncidentContract; the timelines tell the   *)
(* history of the rows; what was answered stays, what is committed is      *)
(* announced and nothing else is, and no lock or client is leaked: proofs  *)
(* from the inductive invariant.                                           *)
(***************************************************************************)
EXTENDS IncidentLifecycle_proofs, FiniteSetTheorems

-----------------------------------------------------------------------------
(* The steps on the tables *)

\* The contract's definitions of the data are those of the handlers.
LEMMA SameData ==
    /\ Contract!Active = Active
    /\ Contract!Severities = Severities
    /\ Contract!Statuses = Statuses
    /\ Contract!ValidTransitions = ValidTransitions
    /\ Contract!SeverityOrder = SeverityOrder
    /\ Contract!Detection = Detection
    /\ \A s : Contract!NewIncident(s) = NewIncident(s)
    /\ \A row, t : Contract!WithStatus(row, t) = WithStatus(row, t)
    /\ \A x, y : Contract!StatusEntry(x, y) = StatusEntry(x, y)
    /\ \A x, y : Contract!SeverityEntry(x, y) = SeverityEntry(x, y)
    /\ \A who : Contract!RespondersEntry(who) = RespondersEntry(who)
    /\ \A x, y : Contract!Recorded(x, y) = Recorded(x, y)
    /\ \A type : Contract!Posted(type) = Posted(type)
    /\ \A log : Contract!HasResolution(log) = HasResolution(log)
<1>1. \A log : Contract!HasResolution(log) = HasResolution(log)
  BY DEF Contract!HasResolution, HasResolution, Contract!Posted, Posted
<1>2. \A x, y : Contract!Recorded(x, y) = Recorded(x, y)
  BY DEF Contract!Recorded, Recorded
<1>3. QED
  BY <1>1, <1>2 DEF Contract!Active, Active, Contract!Severities, Severities, Contract!Statuses,
     Statuses, Contract!ValidTransitions, ValidTransitions, Contract!SeverityOrder, SeverityOrder,
     Contract!Detection, Detection, Contract!NewIncident, NewIncident, Contract!WithStatus, WithStatus,
     Contract!StatusEntry, StatusEntry, Contract!SeverityEntry, SeverityEntry,
     Contract!RespondersEntry, RespondersEntry, Contract!Posted, Posted

\* A COMMIT is one step of the contract.
LEMMA ApplyRefines ==
    ASSUME IInv, NEW r \in Requests, pc[r] = "commit", Apply(r)
    PROVE  Contract!Next
<1> DEFINE i == Inc(r)
<1>1. i \in Incidents
  BY InFlight
<1>2. CASE Op(r) = "declare"
  <2>1. rows[i] = NoRow /\ Arg(r) \in Severities
    BY <1>2, AtCommit, NoRowAssumption DEF StillAllowed, StillAccepted
  <2>2. Contract!Declare(i, Arg(r))
    BY <1>2, <2>1, SameData DEF Apply, Written, EntryOf, Contract!Declare, Contract!Record
  <2>3. QED
    BY <1>1, <2>1, <2>2, SameData DEF Contract!Next
<1>3. CASE Op(r) = "status"
  <2>1. StillAllowed(r) /\ Arg(r) \in Statuses
    BY <1>3, AtCommit
  <2>2. /\ rows[i] # NoRow
        /\ rows[i].status = seen[r].status
        /\ Arg(r) \in ValidTransitions[rows[i].status]
    BY <2>1, NoRowAssumption DEF StillAllowed
  <2>3. Arg(r) = "resolved" => HasResolution(trail[i])
    <3>1. rows[i] \in Row /\ (rows[i].status = "mitigating" => HasResolution(trail[i]))
      BY <2>1 DEF StillAllowed
    <3>2. Arg(r) = "resolved" => rows[i].status = "mitigating"
      BY <2>2, <3>1 DEF Row, Statuses, ValidTransitions
    <3>3. QED
      BY <3>1, <3>2
  <2>4. Contract!Transition(i, Arg(r))
    BY <1>3, <2>2, <2>3, SameData DEF Apply, Written, EntryOf, Contract!Transition, Contract!Record
  <2>5. QED
    BY <1>1, <2>1, <2>4, SameData DEF Contract!Next
<1>4. CASE Op(r) = "severity"
  <2>1. StillAccepted(r) /\ Arg(r) \in Severities
    BY <1>4, AtCommit
  <2>2. /\ rows[i] # NoRow
        /\ rows[i] = seen[r]
        /\ rows[i].status \in Active
        /\ SeverityOrder[Arg(r)] > SeverityOrder[rows[i].severity]
    BY <1>4, <2>1, NoRowAssumption DEF StillAccepted, Accepts
  <2>3. Contract!Escalate(i, Arg(r))
    BY <1>4, <2>2, SameData DEF Apply, Written, EntryOf, Contract!Escalate, Contract!Record
  <2>4. QED
    BY <1>1, <2>1, <2>3, SameData DEF Contract!Next
<1>5. CASE Op(r) = "responders"
  <2>1. StillAccepted(r) /\ Arg(r) \in SUBSET People
    BY <1>5, AtCommit
  <2>2. rows[i] # NoRow /\ rows[i] = seen[r] /\ rows[i].status \in Active
    BY <2>1, NoRowAssumption DEF StillAccepted, Accepts
  <2>3. Contract!Assign(i, Arg(r))
    BY <1>5, <2>2, SameData DEF Apply, Written, EntryOf, Contract!Assign, Contract!Record
  <2>4. QED
    BY <1>1, <2>1, <2>3, SameData DEF Contract!Next
<1>6. QED
  BY <1>2, <1>3, <1>4, <1>5, AtCommit

\* So is the INSERT of a posted entry.
LEMMA PostRefines ==
    ASSUME IInv, NEW r \in Requests, pc[r] = "insert", Op(r) = "timeline", AppendPosted(r)
    PROVE  Contract!Next
<1>1. Inc(r) \in Incidents /\ rows[Inc(r)] # NoRow /\ Arg(r) \in EntryTypes
  BY InFlight, ArgTypes, NoRowAssumption DEF ReadHolds
<1>2. Contract!Post(Inc(r), Arg(r))
  BY <1>1, SameData DEF AppendPosted, Contract!Post
<1>3. QED
  BY <1>1, <1>2 DEF Contract!Next

\* So is the INSERT of a post-mortem, unless its row is there already.
LEMMA PostMortemRefines ==
    ASSUME IInv, NEW r \in Requests, pc[r] = "insert", Op(r) = "postmortem",
           postmortem' = [postmortem EXCEPT ![Inc(r)] = TRUE], UNCHANGED <<rows, trail>>
    PROVE  Contract!Next \/ UNCHANGED store
<1>1. /\ Inc(r) \in Incidents /\ rows[Inc(r)] # NoRow
      /\ rows[Inc(r)].status \notin Active
      /\ postmortem \in [Incidents -> BOOLEAN]
  BY InFlight, NoRowAssumption DEF ReadHolds, IInv, TypeOK
<1>2. CASE postmortem[Inc(r)]
  BY <1>1, <1>2 DEF store
<1>3. CASE ~postmortem[Inc(r)]
  <2>1. Contract!WritePostMortem(Inc(r))
    BY <1>1, <1>3, SameData DEF Contract!WritePostMortem
  <2>2. QED
    BY <1>1, <2>1 DEF Contract!Next
<1>4. QED
  BY <1>2, <1>3

\* Every step of the handlers is a step of the contract or leaves the tables alone.
LEMMA StepRefines == IInv /\ [Next]_vars => Contract!Next \/ UNCHANGED store
<1> SUFFICES ASSUME IInv, [Next]_vars
             PROVE  Contract!Next \/ UNCHANGED store
  OBVIOUS
<1>1. ASSUME NEW r \in Requests, Commit(r) \/ CommitUnacknowledged(r)
      PROVE  Contract!Next
  BY <1>1, ApplyRefines DEF Commit, CommitUnacknowledged, At
<1>2. ASSUME NEW r \in Requests, InsertEntry(r) \/ InsertPostMortem(r) \/ InsertUnacknowledged(r)
      PROVE  Contract!Next \/ UNCHANGED store
  <2>1. pc[r] = "insert"
    BY <1>2 DEF InsertEntry, InsertPostMortem, InsertUnacknowledged, At
  <2>2. CASE Op(r) = "timeline" /\ AppendPosted(r)
    BY <2>1, <2>2, PostRefines
  <2>3. CASE /\ Op(r) = "postmortem"
             /\ postmortem' = [postmortem EXCEPT ![Inc(r)] = TRUE]
             /\ UNCHANGED <<rows, trail>>
    BY <2>1, <2>3, PostMortemRefines
  <2>4. CASE UNCHANGED store
    BY <2>4
  <2>5. QED
    BY <1>2, <2>2, <2>3, <2>4 DEF InsertEntry, InsertPostMortem, InsertUnacknowledged, store
<1>3. ASSUME NEW r \in Requests, Step(r), ~Commit(r), ~InsertEntry(r), ~InsertPostMortem(r)
      PROVE  UNCHANGED store
  BY <1>3 DEF Step, Connect, AcquireAdvisory, ReadStatus, CheckResolution, SelectForUpdate, Write,
     Reselect, Publish, Rollback, Find, FindExisting, TakeClient, FetchTimeline
<1>4. ASSUME NEW r \in Requests, StatementFails(r) \/ PublishFails(r)
      PROVE  UNCHANGED store
  BY <1>4 DEF StatementFails, PublishFails
<1>5. ASSUME NEW p \in Replicas, Crash(p)
      PROVE  UNCHANGED store
  BY <1>5 DEF Crash
<1>6. ASSUME NEW r \in Requests, NEW i, NEW o, NEW a, NEW p, Arrive(r, i, o, a, p)
      PROVE  UNCHANGED store
  BY <1>6 DEF Arrive
<1>7. UNCHANGED vars => UNCHANGED store
  BY DEF vars, store
<1>8. QED
  BY <1>1, <1>2, <1>3, <1>4, <1>5, <1>6, <1>7 DEF Next, Faulty

\* The handlers implement the contract (routes/*.ts): every change of an incident's
\* row is committed together with its timeline entry, and only where the lifecycle,
\* as the row stands at the COMMIT, allows it.
THEOREM Implements == Spec => ImplementsContract
<1>1. Init => Contract!Init
  BY DEF Init, Contract!Init
<1>2. IInv /\ [Next]_vars => [Contract!Next]_(Contract!vars)
  BY StepRefines DEF Contract!vars, store
<1>3. QED
  BY <1>1, <1>2, InductiveInvariant, PTL DEF Spec, Contract!Spec, ImplementsContract

-----------------------------------------------------------------------------
(* What a timeline tells of its row *)

\* The status entries lead from declared to the row's status.
Audited(log, row) ==
    /\ Chained(log, "status", row.status)
    /\ \A k \in Places(log, "status") : log[k].to \in ValidTransitions[log[k].from]
    /\ Places(log, "status") = {} => row.status = "declared"

\* The severity entries lead upwards to the row's severity.
Escalated(log, row) ==
    /\ Chained(log, "severity", row.severity)
    /\ \A k \in Places(log, "severity") : SeverityOrder[log[k].from] < SeverityOrder[log[k].to]

\* A resolution entry comes before the transition to resolved.
Evidenced(log) ==
    \A k \in Places(log, "status") :
        log[k].to = "resolved" => \E j \in 1..(k - 1) : log[j] = Posted("resolution")

\* A transition to resolved is the end of the escalations and assignments, and of the
\* row's activity.
Frozen(log, row) ==
    \A k \in Places(log, "status") : log[k].to = "resolved" =>
        /\ row.status \notin Active
        /\ \A j \in Places(log, "severity") \cup Places(log, "responders") : j < k

History(i) ==
    /\ rows[i] = NoRow => trail[i] = << >>
    /\ rows[i] # NoRow => /\ Audited(trail[i], rows[i])
                          /\ Escalated(trail[i], rows[i])
                          /\ Evidenced(trail[i])
                          /\ Frozen(trail[i], rows[i])

\* An entry keeps the audit trail if it starts at the row's status and ends at the new
\* one, or if it is of another kind and the status stays.
LEMMA AuditedAppend ==
    ASSUME NEW log \in Seq(Entry), NEW e \in Entry, NEW row, NEW new, Audited(log, row),
           \/ e.kind # "status" /\ new.status = row.status
           \/ /\ e.kind = "status" /\ e.from = row.status /\ e.to = new.status
              /\ e.to \in ValidTransitions[e.from]
    PROVE  Audited(Append(log, e), new)
<1>1. CASE e.kind # "status"
  <2>1. Chained(Append(log, e), "status", new.status)
    BY <1>1, ChainedOther DEF Audited
  <2>2. Places(Append(log, e), "status") = Places(log, "status")
    BY <1>1, PlacesAppend
  <2>3. \A k \in Places(log, "status") : Append(log, e)[k] = log[k]
    BY PlacesAppend
  <2>4. QED
    BY <1>1, <2>1, <2>2, <2>3 DEF Audited
<1>2. CASE e.kind = "status"
  <2>1. Chained(Append(log, e), "status", new.status)
    BY <1>2, ChainedAppend DEF Audited
  <2>2. Places(Append(log, e), "status") = Places(log, "status") \cup {Len(log) + 1}
    BY <1>2, PlacesAppend
  <2>3. /\ \A k \in Places(log, "status") : Append(log, e)[k] = log[k]
        /\ Append(log, e)[Len(log) + 1] = e
    BY PlacesAppend
  <2>4. QED
    BY <1>2, <2>1, <2>2, <2>3 DEF Audited
<1>3. QED
  BY <1>1, <1>2

LEMMA EscalatedAppend ==
    ASSUME NEW log \in Seq(Entry), NEW e \in Entry, NEW row, NEW new, Escalated(log, row),
           \/ e.kind # "severity" /\ new.severity = row.severity
           \/ /\ e.kind = "severity" /\ e.from = row.severity /\ e.to = new.severity
              /\ SeverityOrder[e.from] < SeverityOrder[e.to]
    PROVE  Escalated(Append(log, e), new)
<1>1. CASE e.kind # "severity"
  <2>1. Chained(Append(log, e), "severity", new.severity)
    BY <1>1, ChainedOther DEF Escalated
  <2>2. Places(Append(log, e), "severity") = Places(log, "severity")
    BY <1>1, PlacesAppend
  <2>3. \A k \in Places(log, "severity") : Append(log, e)[k] = log[k]
    BY PlacesAppend
  <2>4. QED
    BY <1>1, <2>1, <2>2, <2>3 DEF Escalated
<1>2. CASE e.kind = "severity"
  <2>1. Chained(Append(log, e), "severity", new.severity)
    BY <1>2, ChainedAppend DEF Escalated
  <2>2. Places(Append(log, e), "severity") = Places(log, "severity") \cup {Len(log) + 1}
    BY <1>2, PlacesAppend
  <2>3. /\ \A k \in Places(log, "severity") : Append(log, e)[k] = log[k]
        /\ Append(log, e)[Len(log) + 1] = e
    BY PlacesAppend
  <2>4. QED
    BY <1>2, <2>1, <2>2, <2>3 DEF Escalated
<1>3. QED
  BY <1>1, <1>2

LEMMA EvidencedAppend ==
    ASSUME NEW log \in Seq(Entry), NEW e \in Entry, Evidenced(log),
           e.kind = "status" /\ e.to = "resolved" => HasResolution(log)
    PROVE  Evidenced(Append(log, e))
<1> DEFINE n == Len(log) + 1
<1>1. /\ Len(log) \in Nat
      /\ \A k \in 1..Len(log) : Append(log, e)[k] = log[k]
      /\ Append(log, e)[n] = e
      /\ Places(log, "status") \subseteq 1..Len(log)
      /\ Places(Append(log, e), "status") =
           IF e.kind = "status" THEN Places(log, "status") \cup {n} ELSE Places(log, "status")
  BY PlacesAppend
<1>2. ASSUME NEW k \in Places(log, "status"), Append(log, e)[k].to = "resolved"
      PROVE  \E j \in 1..(k - 1) : Append(log, e)[j] = Posted("resolution")
  <2>1. k \in 1..Len(log) /\ log[k].to = "resolved"
    BY <1>1, <1>2
  <2>2. PICK j \in 1..(k - 1) : log[j] = Posted("resolution")
    BY <1>2, <2>1 DEF Evidenced
  <2>3. j \in 1..Len(log)
    BY <1>1, <2>1
  <2>4. QED
    BY <1>1, <2>2, <2>3
<1>3. ASSUME e.kind = "status", e.to = "resolved"
      PROVE  \E j \in 1..(n - 1) : Append(log, e)[j] = Posted("resolution")
  <2>1. PICK j \in 1..Len(log) : log[j] = Posted("resolution")
    BY <1>3 DEF HasResolution
  <2>2. QED
    BY <1>1, <2>1
<1>4. QED
  BY <1>1, <1>2, <1>3 DEF Evidenced

\* Past the transition to resolved the row is not active, so nothing that needs an
\* active incident is recorded any more.
LEMMA FrozenAppend ==
    ASSUME NEW log \in Seq(Entry), NEW e \in Entry, NEW row, NEW new, Frozen(log, row),
           row.status \notin Active => new.status \notin Active,
           e.kind \in {"severity", "responders"} => row.status \in Active,
           e.kind = "status" => e.to = new.status
    PROVE  Frozen(Append(log, e), new)
<1> DEFINE n == Len(log) + 1
           P == Places(log, "status")
           Q == Places(log, "severity") \cup Places(log, "responders")
           C == Places(Append(log, e), "severity") \cup Places(Append(log, e), "responders")
<1>1. /\ Len(log) \in Nat
      /\ \A k \in 1..Len(log) : Append(log, e)[k] = log[k]
      /\ Append(log, e)[n] = e
      /\ P \subseteq 1..Len(log)
      /\ Q \subseteq 1..Len(log)
      /\ Places(Append(log, e), "status") = IF e.kind = "status" THEN P \cup {n} ELSE P
      /\ C = IF e.kind \in {"severity", "responders"} THEN Q \cup {n} ELSE Q
  BY PlacesAppend
<1>2. "resolved" \notin Active
  BY DEF Active
<1> HIDE DEF C, n
<1>3. ASSUME NEW k \in P, Append(log, e)[k].to = "resolved"
      PROVE  /\ new.status \notin Active
             /\ \A j \in C : j < k
  <2>1. log[k].to = "resolved"
    BY <1>1, <1>3
  <2>2. row.status \notin Active /\ \A j \in Q : j < k
    BY <1>3, <2>1 DEF Frozen
  <2>3. QED
    BY <1>1, <2>2
<1>4. ASSUME e.kind = "status", e.to = "resolved"
      PROVE  /\ new.status \notin Active
             /\ \A j \in C : j < n
  <2>1. C = Q
    BY <1>1, <1>4
  <2>2. QED
    BY <1>1, <1>2, <1>4, <2>1 DEF n
<1>5. QED
  BY <1>1, <1>3, <1>4 DEF Frozen, C

\* The four together, for a step that records an entry with a change of the row.
LEMMA HistoryRecord ==
    ASSUME TypeOK, \A i \in Incidents : History(i),
           NEW i \in Incidents, NEW old \in Row, NEW new \in Row, NEW e \in Entry,
           \/ rows[i] = old
           \/ rows[i] = NoRow /\ old.status = "declared" /\ e.kind = "detection",
           rows' = [rows EXCEPT ![i] = new], trail' = [trail EXCEPT ![i] = Append(@, e)],
           \/ e.kind \notin {"status", "severity"} /\ new.status = old.status /\ new.severity = old.severity
           \/ /\ e.kind = "status" /\ e.from = old.status /\ e.to = new.status
              /\ e.to \in ValidTransitions[e.from] /\ new.severity = old.severity
           \/ /\ e.kind = "severity" /\ e.from = old.severity /\ e.to = new.severity
              /\ SeverityOrder[e.from] < SeverityOrder[e.to] /\ new.status = old.status,
           e.kind \in {"severity", "responders"} => old.status \in Active,
           e.kind = "status" /\ e.to = "resolved" => HasResolution(trail[i])
    PROVE  \A j \in Incidents : History(j)'
<1> DEFINE log == trail[i]
<1>1. /\ log \in Seq(Entry)
      /\ trail'[i] = Append(log, e)
      /\ rows'[i] = new
      /\ new # NoRow
  BY NoRowAssumption DEF TypeOK
<1>2. Audited(log, old) /\ Escalated(log, old) /\ Evidenced(log) /\ Frozen(log, old)
  <2>1. CASE rows[i] = old
    BY <2>1, NoRowAssumption DEF History
  <2>2. CASE rows[i] = NoRow /\ old.status = "declared"
    <3>1. log = << >>
      BY <2>2 DEF History
    <3>2. \A kind : Places(log, kind) = {}
      BY <3>1 DEF Places
    <3>3. QED
      BY <2>2, <3>2 DEF Audited, Escalated, Evidenced, Frozen, Chained
  <2>3. QED
    BY <2>1, <2>2
<1>3. old.status \notin Active => new.status \notin Active
  <2>1. e.kind = "status" /\ e.from = old.status /\ e.to \in ValidTransitions[e.from] /\ old.status \notin Active
          => e.to \notin Active
    BY DEF Row, Statuses, Active, ValidTransitions
  <2>2. QED
    BY <2>1
<1>4. Audited(Append(log, e), new)
  BY <1>1, <1>2, AuditedAppend
<1>5. Escalated(Append(log, e), new)
  BY <1>1, <1>2, EscalatedAppend
<1>6. Evidenced(Append(log, e))
  BY <1>1, <1>2, EvidencedAppend
<1>7. Frozen(Append(log, e), new)
  BY <1>1, <1>2, <1>3, FrozenAppend
<1>8. ASSUME NEW j \in Incidents, j # i
      PROVE  History(j)'
  <2>1. rows'[j] = rows[j] /\ trail'[j] = trail[j] /\ History(j)
    BY <1>8 DEF TypeOK
  <2>2. QED
    BY <2>1 DEF History
<1>9. History(i)'
  BY <1>1, <1>4, <1>5, <1>6, <1>7 DEF History
<1>10. QED
  BY <1>8, <1>9

\* Every step of the contract keeps the history, whatever handler takes it.
LEMMA HistoryNext ==
    ASSUME TypeOK, \A i \in Incidents : History(i), Contract!Next
    PROVE  \A i \in Incidents : History(i)'
<1>1. \A i \in Incidents : rows[i] # NoRow => rows[i] \in Row
  BY DEF TypeOK
<1>2. ASSUME NEW i \in Incidents, NEW s \in Severities, Contract!Declare(i, s)
      PROVE  \A j \in Incidents : History(j)'
  BY <1>2, SameData, RowUpdates, EntryKinds, HistoryRecord
     DEF Contract!Declare, Contract!Record, NewIncident
<1>3. ASSUME NEW i \in Incidents, NEW s \in Severities, Contract!Escalate(i, s)
      PROVE  \A j \in Incidents : History(j)'
  <2> DEFINE old == rows[i]
             new == [old EXCEPT !.severity = s]
             e   == SeverityEntry(old.severity, s)
  <2>1. /\ old \in Row /\ old.status \in Active
        /\ SeverityOrder[old.severity] < SeverityOrder[s]
        /\ rows' = [rows EXCEPT ![i] = new]
        /\ trail' = [trail EXCEPT ![i] = Append(@, e)]
    <3>1. old \in Row /\ SeverityOrder[s] > SeverityOrder[old.severity]
      BY <1>1, <1>3, SameData DEF Contract!Escalate
    <3>2. SeverityOrder[old.severity] \in Nat /\ SeverityOrder[s] \in Nat
      BY <3>1 DEF Row, Severities, SeverityOrder
    <3>3. QED
      BY <1>3, <3>1, <3>2, SameData DEF Contract!Escalate, Contract!Record
  <2>2. old.severity \in Severities
    BY <2>1 DEF Row
  <2>3. /\ new \in Row /\ new.status = old.status /\ new.severity = s
        /\ e \in Entry /\ e.kind = "severity" /\ e.from = old.severity /\ e.to = s
    BY <2>1, <2>2, RowUpdates, EntryKinds
  <2> HIDE DEF new, e
  <2>4. QED
    BY <2>1, <2>3, HistoryRecord
<1>4. ASSUME NEW i \in Incidents, NEW t \in Statuses, Contract!Transition(i, t)
      PROVE  \A j \in Incidents : History(j)'
  <2> DEFINE old == rows[i]
             new == WithStatus(old, t)
             e   == StatusEntry(old.status, t)
  <2>1. /\ old \in Row
        /\ t \in ValidTransitions[old.status]
        /\ t = "resolved" => HasResolution(trail[i])
        /\ rows' = [rows EXCEPT ![i] = new]
        /\ trail' = [trail EXCEPT ![i] = Append(@, e)]
    BY <1>1, <1>4, SameData DEF Contract!Transition, Contract!Record
  <2>2. old.status \in Statuses
    BY <2>1 DEF Row
  <2>3. /\ new \in Row /\ new.status = t /\ new.severity = old.severity
        /\ e \in Entry /\ e.kind = "status" /\ e.from = old.status /\ e.to = t
    BY <2>1, <2>2, RowUpdates, EntryKinds
  <2> HIDE DEF new, e
  <2>4. QED
    BY <2>1, <2>3, HistoryRecord
<1>5. ASSUME NEW i \in Incidents, NEW who \in SUBSET People, Contract!Assign(i, who)
      PROVE  \A j \in Incidents : History(j)'
  <2> DEFINE old == rows[i]
             new == [old EXCEPT !.responders = @ \cup who]
             e   == RespondersEntry(Recorded(who, old.responders))
  <2>1. /\ old \in Row /\ old.status \in Active
        /\ rows' = [rows EXCEPT ![i] = new]
        /\ trail' = [trail EXCEPT ![i] = Append(@, e)]
    BY <1>1, <1>5, SameData DEF Contract!Assign, Contract!Record
  <2>2. old.responders \cup who \in SUBSET People /\ Recorded(who, old.responders) \in SUBSET People
    BY <2>1 DEF Row, Recorded
  <2>3. /\ new \in Row /\ new.status = old.status /\ new.severity = old.severity
        /\ e \in Entry /\ e.kind = "responders"
    BY <2>1, <2>2, RowUpdates, EntryKinds
  <2> HIDE DEF new, e
  <2>4. QED
    BY <2>1, <2>3, HistoryRecord
<1>6. ASSUME NEW i \in Incidents, NEW type \in EntryTypes, Contract!Post(i, type)
      PROVE  \A j \in Incidents : History(j)'
  <2>1. /\ rows[i] \in Row
        /\ rows' = [rows EXCEPT ![i] = rows[i]]
        /\ trail' = [trail EXCEPT ![i] = Append(@, Posted(type))]
    BY <1>1, <1>6, SameData DEF Contract!Post, TypeOK
  <2>2. Posted(type) \in Entry /\ Posted(type).kind = "posted"
    BY EntryKinds
  <2>3. QED
    BY <2>1, <2>2, HistoryRecord
<1>7. ASSUME NEW i \in Incidents, Contract!WritePostMortem(i)
      PROVE  \A j \in Incidents : History(j)'
  BY <1>7 DEF Contract!WritePostMortem, History
<1>8. QED
  BY <1>2, <1>3, <1>4, <1>5, <1>6, <1>7, SameData DEF Contract!Next

\* The timelines tell the history of their rows, at every moment.
LEMMA HistoryHolds == Spec => []\A i \in Incidents : History(i)
<1> DEFINE H == \A i \in Incidents : History(i)
<1>1. Init => H
  BY NoRowAssumption DEF Init, History
<1>2. IInv /\ H /\ [Next]_vars => H'
  <2> SUFFICES ASSUME IInv, H, [Next]_vars
               PROVE  H'
    OBVIOUS
  <2>1. CASE Contract!Next
    BY <2>1, HistoryNext DEF IInv
  <2>2. CASE UNCHANGED store
    BY <2>2 DEF store, History
  <2>3. QED
    BY <2>1, <2>2, StepRefines
<1>3. QED
  BY <1>1, <1>2, InductiveInvariant, PTL DEF Spec

\* Concurrent transitions of one incident (status.ts) leave one chain of audit entries
\* from declared to the row's status, along the state machine.
THEOREM AuditTrailHolds == Spec => []AuditTrail
<1>1. (\A i \in Incidents : History(i)) => AuditTrail
  BY DEF History, Audited, AuditTrail
<1>2. QED
  BY <1>1, HistoryHolds, PTL

\* Concurrent escalations (severity.ts) leave one rising chain that ends at the row's
\* severity.
THEOREM SeverityTrailHolds == Spec => []SeverityTrail
<1>1. (\A i \in Incidents : History(i)) => SeverityTrail
  BY DEF History, Escalated, SeverityTrail
<1>2. QED
  BY <1>1, HistoryHolds, PTL

\* No incident is resolved without a resolution entry before it (status.ts).
THEOREM EvidenceFirstHolds == Spec => []EvidenceFirst
<1>1. (\A i \in Incidents : History(i)) => EvidenceFirst
  <2> SUFFICES ASSUME \A i \in Incidents : History(i)
               PROVE  EvidenceFirst
    OBVIOUS
  <2>1. ASSUME NEW i \in Incidents
        PROVE  Evidenced(trail[i])
    <3>1. Evidenced(<< >>)
      BY DEF Evidenced, Places
    <3>2. QED
      BY <2>1, <3>1 DEF History
  <2>2. QED
    BY <2>1 DEF Evidenced, EvidenceFirst
<1>2. QED
  BY <1>1, HistoryHolds, PTL

\* No escalation and no assignment is recorded after the transition to resolved, although
\* status.ts and the other two handlers take different locks.
THEOREM FrozenOnceResolvedHolds == Spec => []FrozenOnceResolved
<1>1. (\A i \in Incidents : History(i)) => FrozenOnceResolved
  <2> SUFFICES ASSUME \A i \in Incidents : History(i),
                      NEW i \in Incidents, NEW k \in Places(trail[i], "status"),
                      trail[i][k].to = "resolved"
               PROVE  \A j \in Places(trail[i], "severity") \cup Places(trail[i], "responders") : j < k
    BY DEF FrozenOnceResolved
  <2>1. rows[i] # NoRow
    BY DEF History, Places
  <2>2. QED
    BY <2>1 DEF History, Frozen
<1>2. QED
  BY <1>1, HistoryHolds, PTL
-----------------------------------------------------------------------------
(* What no step undoes *)

\* A row further on: no lower in the lifecycle or in severity, and no responder gone.
Later(old, new) == /\ new \in Row
                   /\ Rank[old.status] <= Rank[new.status]
                   /\ SeverityOrder[old.severity] <= SeverityOrder[new.severity]
                   /\ old.responders \subseteq new.responders

\* A step takes an incident no way back, in any of its tables.
Forward(i) ==
    /\ rows[i] \in Row => Later(rows[i], rows'[i])
    /\ Len(trail[i]) \in Nat /\ Len(trail'[i]) \in Nat /\ Len(trail[i]) <= Len(trail'[i])
    /\ \A k \in 1..Len(trail[i]) : trail'[i][k] = trail[i][k]
    /\ postmortem[i] => postmortem'[i]

\* The places in the lifecycle and in the severities are numbers; past mitigating an
\* incident is not active.
LEMMA Ranks ==
    /\ \A s \in Statuses : Rank[s] \in Nat /\ (s \notin Active <=> Rank[s] >= 3)
    /\ \A s \in Severities : SeverityOrder[s] \in Nat
    /\ \A s \in Statuses : \A t \in ValidTransitions[s] : t \in Statuses /\ Rank[s] <= Rank[t]
BY DEF Statuses, Rank, Active, Severities, SeverityOrder, ValidTransitions

LEMMA LaterRows ==
    ASSUME NEW row \in Row
    PROVE  /\ Later(row, row)
           /\ \A t \in ValidTransitions[row.status] : Later(row, WithStatus(row, t))
           /\ \A s \in Severities : SeverityOrder[s] > SeverityOrder[row.severity]
                                       => Later(row, [row EXCEPT !.severity = s])
           /\ \A who \in SUBSET People : Later(row, [row EXCEPT !.responders = row.responders \cup who])
<1>1. row.status \in Statuses /\ row.severity \in Severities /\ row.responders \in SUBSET People
  BY DEF Row
<1>2. Rank[row.status] \in Nat /\ SeverityOrder[row.severity] \in Nat
  BY <1>1, Ranks
<1>3. Later(row, row)
  BY <1>2 DEF Later
<1>4. ASSUME NEW t \in ValidTransitions[row.status]
      PROVE  Later(row, WithStatus(row, t))
  <2>1. t \in Statuses /\ Rank[row.status] <= Rank[t]
    BY <1>1, Ranks
  <2>2. WithStatus(row, t).responders = row.responders
    BY DEF WithStatus, Row
  <2>3. QED
    BY <1>2, <2>1, <2>2, RowUpdates DEF Later
<1>5. ASSUME NEW s \in Severities, SeverityOrder[s] > SeverityOrder[row.severity]
      PROVE  Later(row, [row EXCEPT !.severity = s])
  <2>1. SeverityOrder[s] \in Nat
    BY Ranks
  <2>2. [row EXCEPT !.severity = s].responders = row.responders
    BY DEF Row
  <2>3. QED
    BY <1>2, <1>5, <2>1, <2>2, RowUpdates DEF Later
<1>6. ASSUME NEW who \in SUBSET People
      PROVE  Later(row, [row EXCEPT !.responders = row.responders \cup who])
  <2>1. row.responders \cup who \in SUBSET People
    BY <1>1
  <2>2. [row EXCEPT !.responders = row.responders \cup who].responders = row.responders \cup who
    BY DEF Row
  <2>3. QED
    BY <1>2, <2>1, <2>2, RowUpdates DEF Later
<1>7. QED
  BY <1>3, <1>4, <1>5, <1>6

LEMMA RecordForward ==
    ASSUME TypeOK, NEW i \in Incidents, NEW new, NEW e \in Entry,
           rows' = [rows EXCEPT ![i] = new], trail' = [trail EXCEPT ![i] = Append(@, e)],
           UNCHANGED postmortem, rows[i] \in Row => Later(rows[i], new)
    PROVE  \A j \in Incidents : Forward(j)
<1> SUFFICES ASSUME NEW j \in Incidents
             PROVE  Forward(j)
  OBVIOUS
<1>1. rows'[j] = (IF j = i THEN new ELSE rows[j]) /\ trail[j] \in Seq(Entry)
      /\ trail'[j] = IF j = i THEN Append(trail[j], e) ELSE trail[j]
  BY DEF TypeOK
<1>2. rows[j] \in Row => Later(rows[j], rows'[j])
  BY <1>1, LaterRows
<1>3. PICK log \in Seq(Entry) : log = trail[j]
  BY <1>1
<1>4. /\ Len(log) \in Nat /\ Len(Append(log, e)) = Len(log) + 1
      /\ \A k \in 1..Len(log) : Append(log, e)[k] = log[k]
  BY PlacesAppend
<1>5. QED
  BY <1>1, <1>2, <1>3, <1>4 DEF Forward

LEMMA StoreForward ==
    ASSUME TypeOK, UNCHANGED <<rows, trail>>,
           NEW i \in Incidents, postmortem' = postmortem \/ postmortem' = [postmortem EXCEPT ![i] = TRUE]
    PROVE  \A j \in Incidents : Forward(j)
<1>1. \A j \in Incidents : trail[j] \in Seq(Entry)
  BY DEF TypeOK
<1>2. \A j \in Incidents : postmortem[j] => postmortem'[j]
  BY DEF TypeOK
<1>3. QED
  BY <1>1, <1>2, LaterRows DEF Forward

\* No request, no fault and no interleaving takes an incident back.
LEMMA Grows ==
    ASSUME IInv, [Next]_vars
    PROVE  \A j \in Incidents : Forward(j)
<1>1. TypeOK /\ \A i \in Incidents : rows[i] # NoRow => rows[i] \in Row
  BY DEF IInv, TypeOK
<1>2. ASSUME NEW i \in Incidents, NEW s \in Severities, Contract!Declare(i, s)
      PROVE  \A j \in Incidents : Forward(j)
  <2>1. rows[i] \notin Row
    BY <1>2, NoRowAssumption DEF Contract!Declare
  <2>2. QED
    BY <1>1, <1>2, <2>1, SameData, EntryKinds, RecordForward DEF Contract!Declare, Contract!Record
<1>3. ASSUME NEW i \in Incidents, NEW s \in Severities, Contract!Escalate(i, s)
      PROVE  \A j \in Incidents : Forward(j)
  <2> DEFINE new == [rows[i] EXCEPT !.severity = s]
             e   == SeverityEntry(rows[i].severity, s)
  <2>1. /\ rows[i] \in Row /\ SeverityOrder[s] > SeverityOrder[rows[i].severity]
        /\ rows' = [rows EXCEPT ![i] = new] /\ trail' = [trail EXCEPT ![i] = Append(@, e)]
        /\ UNCHANGED postmortem
    BY <1>1, <1>3, SameData DEF Contract!Escalate, Contract!Record
  <2>2. Later(rows[i], new)
    BY <2>1, LaterRows
  <2>3. e \in Entry
    BY <2>1, EntryKinds DEF Row
  <2> HIDE DEF new, e
  <2>4. QED
    BY <1>1, <2>1, <2>2, <2>3, RecordForward
<1>4. ASSUME NEW i \in Incidents, NEW t \in Statuses, Contract!Transition(i, t)
      PROVE  \A j \in Incidents : Forward(j)
  <2> DEFINE new == WithStatus(rows[i], t)
             e   == StatusEntry(rows[i].status, t)
  <2>1. /\ rows[i] \in Row /\ t \in ValidTransitions[rows[i].status]
        /\ rows' = [rows EXCEPT ![i] = new] /\ trail' = [trail EXCEPT ![i] = Append(@, e)]
        /\ UNCHANGED postmortem
    BY <1>1, <1>4, SameData DEF Contract!Transition, Contract!Record
  <2>2. Later(rows[i], new)
    BY <2>1, LaterRows
  <2>3. e \in Entry
    BY <2>1, EntryKinds DEF Row
  <2> HIDE DEF new, e
  <2>4. QED
    BY <1>1, <2>1, <2>2, <2>3, RecordForward
<1>5. ASSUME NEW i \in Incidents, NEW who \in SUBSET People, Contract!Assign(i, who)
      PROVE  \A j \in Incidents : Forward(j)
  <2> DEFINE new == [rows[i] EXCEPT !.responders = rows[i].responders \cup who]
             e   == RespondersEntry(Recorded(who, rows[i].responders))
  <2>1. /\ rows[i] \in Row
        /\ rows' = [rows EXCEPT ![i] = new] /\ trail' = [trail EXCEPT ![i] = Append(@, e)]
        /\ UNCHANGED postmortem
    BY <1>1, <1>5, SameData DEF Contract!Assign, Contract!Record
  <2>2. Later(rows[i], new)
    BY <2>1, LaterRows
  <2>3. e \in Entry
    <3>1. Recorded(who, rows[i].responders) \in SUBSET People
      BY DEF Recorded
    <3>2. QED
      BY <3>1, EntryKinds
  <2> HIDE DEF new, e
  <2>4. QED
    BY <1>1, <2>1, <2>2, <2>3, RecordForward
<1>6. ASSUME NEW i \in Incidents, NEW type \in EntryTypes, Contract!Post(i, type)
      PROVE  \A j \in Incidents : Forward(j)
  <2>1. /\ rows[i] \in Row
        /\ rows' = [rows EXCEPT ![i] = rows[i]]
        /\ trail' = [trail EXCEPT ![i] = Append(@, Posted(type))] /\ UNCHANGED postmortem
    BY <1>1, <1>6, SameData DEF Contract!Post, TypeOK
  <2>2. QED
    BY <1>1, <2>1, LaterRows, EntryKinds, RecordForward
<1>7. ASSUME NEW i \in Incidents, Contract!WritePostMortem(i)
      PROVE  \A j \in Incidents : Forward(j)
  BY <1>1, <1>7, StoreForward DEF Contract!WritePostMortem
<1>8. CASE UNCHANGED store
  BY <1>1, <1>8, StoreForward DEF store
<1>9. QED
  BY <1>2, <1>3, <1>4, <1>5, <1>6, <1>7, <1>8, StepRefines, SameData DEF Contract!Next

-----------------------------------------------------------------------------
(* What a step does to a request *)

\* A request stays where it is, ends, arrives, or takes a step of its handler.
LEMMA Fate ==
    ASSUME IInv, [Next]_vars, NEW c \in Requests
    PROVE  \/ pc'[c] = pc[c] /\ req'[c] = req[c] /\ seen'[c] = seen[c]
           \/ pc'[c] = "idle"
           \/ pc[c] = "idle" /\ pc'[c] \in {"connect", "find"}
           \/ Step(c)
<1>1. RequestsOK
  BY TypeParts DEF IInv
<1> DEFINE Stays == pc'[c] = pc[c] /\ req'[c] = req[c] /\ seen'[c] = seen[c]
<1>2. ASSUME NEW r \in Requests, Step(r), r # c
      PROVE  Stays
  BY <1>1, <1>2 DEF Step, Connect, AcquireAdvisory, ReadStatus, CheckResolution, SelectForUpdate,
     Write, Commit, Reselect, Publish, Rollback, Find, FindExisting, TakeClient, InsertEntry,
     InsertPostMortem, FetchTimeline, Goto, Finish, RequestsOK
<1>3. ASSUME NEW R \in SUBSET Requests, Finish(R)
      PROVE  Stays \/ pc'[c] = "idle"
  BY <1>3 DEF Finish
<1>4. ASSUME NEW r \in Requests, Faulty(r)
      PROVE  Stays \/ pc'[c] = "idle"
  BY <1>3, <1>4 DEF Faulty, StatementFails, CommitUnacknowledged, InsertUnacknowledged, PublishFails,
     Drop, Served
<1>5. ASSUME NEW p \in Replicas, Crash(p)
      PROVE  Stays \/ pc'[c] = "idle"
  BY <1>3, <1>5 DEF Crash, Drop, Served
<1>6. ASSUME NEW r \in Requests, NEW i \in Incidents, NEW o \in Ops, NEW a \in Args[o],
             NEW p \in Replicas, Arrive(r, i, o, a, p)
      PROVE  Stays \/ (pc[c] = "idle" /\ pc'[c] \in {"connect", "find"})
  BY <1>1, <1>6 DEF Arrive, At, Goto, RequestsOK
<1>7. CASE UNCHANGED vars
  BY <1>7 DEF vars
<1>8. QED
  BY <1>2, <1>4, <1>5, <1>6, <1>7 DEF Next

\* How a request comes to the statements behind its COMMIT or its INSERT.
LEMMA Behind ==
    ASSUME IInv, [Next]_vars, NEW r \in Requests, pc'[r] \in {"reselect", "publish", "fetch"}
    PROVE  /\ req'[r] = req[r] /\ seen'[r] = seen[r] /\ pc[r] # "idle"
           /\ \/ pc'[r] = pc[r]
              \/ pc'[r] \in {"reselect", "publish"} /\ Commit(r)
              \/ pc'[r] = "publish" /\ Reselect(r)
              \/ pc'[r] = "fetch" /\ InsertPostMortem(r) /\ postmortem'[Inc(r)]
<1>1. RequestsOK /\ StoreOK
  BY TypeParts DEF IInv
<1>2. CASE pc'[r] = pc[r] /\ req'[r] = req[r] /\ seen'[r] = seen[r]
  BY <1>2
<1>3. CASE Step(r)
  <2>1. Commit(r) \/ Reselect(r) \/ InsertPostMortem(r)
    BY <1>1, <1>3 DEF Step, Connect, AcquireAdvisory, ReadStatus, CheckResolution, SelectForUpdate,
       Write, Publish, Rollback, Find, FindExisting, TakeClient, InsertEntry, FetchTimeline, Goto,
       Finish, RequestsOK
  <2>2. CASE Commit(r)
    BY <1>1, <2>2 DEF Commit, Goto, At, RequestsOK
  <2>3. CASE Reselect(r)
    BY <1>1, <2>3 DEF Reselect, Goto, At, RequestsOK
  <2>4. CASE InsertPostMortem(r)
    <3>1. pc[r] # "idle" /\ postmortem' = [postmortem EXCEPT ![Inc(r)] = TRUE]
          /\ Goto(r, "fetch") /\ UNCHANGED <<req, seen>>
      BY <2>4 DEF InsertPostMortem, Finish, At
    <3>2. Inc(r) \in Incidents
      BY <3>1, InFlight
    <3>3. QED
      BY <1>1, <2>4, <3>1, <3>2 DEF Goto, RequestsOK, StoreOK
  <2>5. QED
    BY <2>1, <2>2, <2>3, <2>4
<1>4. QED
  BY <1>2, <1>3, Fate

-----------------------------------------------------------------------------
(* Acknowledged answers *)

AnswerOf(r) == [op |-> Op(r), incident |-> Inc(r), arg |-> Arg(r), code |-> 200]

\* The fields of an answer.
LEMMA AnswerFields ==
    ASSUME NEW a \in Answer
    PROVE  a.op \in AllOps /\ a.incident \in Incidents /\ a.arg \in Args[a.op]
BY DEF Answer

\* What is in force stays in force.
LEMMA ForceStays ==
    ASSUME IInv, [Next]_vars, NEW a \in Answer, InForce(a)
    PROVE  InForce(a)'
<1>1. PICK i \in Incidents, x \in Args[a.op] : i = a.incident /\ x = a.arg
  BY AnswerFields
<1>2. rows[i] \in Row /\ Forward(i) /\ postmortem[i] \in BOOLEAN
  BY <1>1, Grows DEF InForce, IInv, TypeOK
<1>3. PICK old, new : old = rows[i] /\ new = rows'[i]
  OBVIOUS
<1>4. old \in Row /\ new \in Row /\ new # NoRow /\ Later(old, new)
  BY <1>2, <1>3, NoRowAssumption DEF Forward, Later
<1>5. /\ old.status \in Statuses /\ new.status \in Statuses
      /\ old.severity \in Severities /\ new.severity \in Severities
  BY <1>4 DEF Row
<1>6. /\ Rank[old.status] \in Nat /\ Rank[new.status] \in Nat
      /\ SeverityOrder[old.severity] \in Nat /\ SeverityOrder[new.severity] \in Nat
      /\ old.status \notin Active => new.status \notin Active
  <2>1. /\ Rank[old.status] \in Nat /\ Rank[new.status] \in Nat
        /\ SeverityOrder[old.severity] \in Nat /\ SeverityOrder[new.severity] \in Nat
    BY <1>5, Ranks
  <2>2. ASSUME old.status \notin Active
        PROVE  new.status \notin Active
    <3>1. Rank[old.status] >= 3
      BY <1>5, <2>2, Ranks
    <3>2. Rank[new.status] >= 3
      BY <1>4, <2>1, <3>1 DEF Later
    <3>3. QED
      BY <1>5, <3>2, Ranks
  <2>3. QED
    BY <2>1, <2>2
<1>7. ASSUME a.op = "status"
      PROVE  Rank[new.status] >= Rank[x]
  <2>1. x \in Statuses
    BY <1>1, <1>7, ArgTypes
  <2>2. Rank[x] \in Nat /\ Rank[old.status] >= Rank[x]
    BY <1>1, <1>3, <1>7, <2>1, Ranks DEF InForce
  <2>3. QED
    BY <1>4, <1>6, <2>2 DEF Later
<1>8. ASSUME a.op = "severity"
      PROVE  SeverityOrder[new.severity] >= SeverityOrder[x]
  <2>1. x \in Severities
    BY <1>1, <1>8, ArgTypes
  <2>2. SeverityOrder[x] \in Nat /\ SeverityOrder[old.severity] >= SeverityOrder[x]
    BY <1>1, <1>3, <1>8, <2>1, Ranks DEF InForce
  <2>3. QED
    BY <1>4, <1>6, <2>2 DEF Later
<1>9. ASSUME a.op = "responders"
      PROVE  x \subseteq new.responders
  BY <1>1, <1>3, <1>4, <1>9 DEF InForce, Later
<1>10. ASSUME a.op = "timeline"
       PROVE  \E k \in 1..Len(trail'[i]) : trail'[i][k] = Posted(x)
  <2>1. PICK k \in 1..Len(trail[i]) : trail[i][k] = Posted(x)
    BY <1>1, <1>10 DEF InForce
  <2>2. k \in 1..Len(trail'[i]) /\ trail'[i][k] = trail[i][k]
    BY <1>2, <2>1 DEF Forward
  <2>3. QED
    BY <2>1, <2>2
<1>11. ASSUME a.op = "postmortem"
       PROVE  postmortem'[i] /\ new.status \notin Active
  BY <1>1, <1>2, <1>3, <1>6, <1>11 DEF InForce, Forward
<1>12. QED
  BY <1>1, <1>3, <1>4, <1>7, <1>8, <1>9, <1>10, <1>11 DEF InForce, Posted

\* Whom a client was told 200, and what a handler is about to tell, is in force.
Acknowledged ==
    /\ AcknowledgedKept
    /\ \A r \in Requests : /\ pc[r] = "reselect" => InForce(AnswerOf(r))
                           /\ pc[r] = "fetch" => postmortem[Inc(r)]

\* An answer adds one element to those given.
LEMMA ToldMore ==
    ASSUME NEW r, NEW code, Tell(r, code), NEW a \in told', a.code = 200
    PROVE  a \in told \/ (code = 200 /\ a = AnswerOf(r))
<1>1. a \in told \/ a = [op |-> Op(r), incident |-> Inc(r), arg |-> Arg(r), code |-> code]
  BY DEF Tell
<1>2. ASSUME a = [op |-> Op(r), incident |-> Inc(r), arg |-> Arg(r), code |-> code]
      PROVE  code = 200
  BY <1>2
<1>3. QED
  BY <1>1, <1>2 DEF AnswerOf

\* The steps that tell a client 200.
LEMMA Answers ==
    ASSUME IInv, [Next]_vars, NEW a \in told', a.code = 200
    PROVE  \/ a \in told
           \/ \E r \in Requests :
                 /\ a = AnswerOf(r)
                 /\ \/ Commit(r) /\ Op(r) \notin Locking
                    \/ Reselect(r) \/ InsertEntry(r) \/ FetchTimeline(r)
<1>1. ASSUME NEW r \in Requests, NEW code, Tell(r, code)
      PROVE  a \in told \/ (code = 200 /\ a = AnswerOf(r))
  BY <1>1, ToldMore
<1>2. ASSUME NEW r \in Requests, pc[r] # "idle", Tell(r, ErrorCode[Op(r)])
      PROVE  a \in told
  <2>1. Op(r) \in AllOps
    BY <1>2, InFlight
  <2>2. ErrorCode[Op(r)] # 200
    BY <2>1 DEF AllOps, ErrorCode
  <2>3. QED
    BY <1>1, <1>2, <2>2
<1>3. ASSUME NEW r \in Requests, Step(r), a \notin told
      PROVE  /\ a = AnswerOf(r)
             /\ \/ Commit(r) /\ Op(r) \notin Locking
                \/ Reselect(r) \/ InsertEntry(r) \/ FetchTimeline(r)
  <2>1. Commit(r) \/ Reselect(r) \/ InsertEntry(r) \/ FetchTimeline(r) \/ InsertPostMortem(r)
    BY <1>3 DEF Step, Connect, AcquireAdvisory, ReadStatus, CheckResolution, SelectForUpdate, Write,
       Publish, Rollback, Find, FindExisting, TakeClient
  <2>2. ~InsertPostMortem(r)
    <3>1. InsertPostMortem(r) => pc[r] # "idle" /\ (told' = told \/ Tell(r, ErrorCode[Op(r)]))
      BY DEF InsertPostMortem, At
    <3>2. QED
      BY <1>2, <1>3, <3>1
  <2>3. Commit(r) => Op(r) \notin Locking
    BY <1>3 DEF Commit
  <2>4. Tell(r, 200)
    BY <1>3, <2>1, <2>2 DEF Commit, Reselect, InsertEntry, FetchTimeline
  <2>5. QED
    BY <1>1, <1>3, <2>1, <2>2, <2>3, <2>4
<1>4. ASSUME NEW r \in Requests, Faulty(r)
      PROVE  a \in told
  <2>1. pc[r] # "idle" /\ (told' = told \/ Tell(r, ErrorCode[Op(r)]))
    BY <1>4 DEF Faulty, StatementFails, CommitUnacknowledged, InsertUnacknowledged, PublishFails, At
  <2>2. QED
    BY <1>2, <2>1
<1>5. ASSUME \/ \E p \in Replicas : Crash(p)
             \/ \E r \in Requests : \E i \in Incidents, o \in Ops, p \in Replicas :
                   \E x \in Args[o] : Arrive(r, i, o, x, p)
             \/ UNCHANGED vars
      PROVE  a \in told
  BY <1>5 DEF Crash, Arrive, vars
<1>6. QED
  BY <1>3, <1>4, <1>5 DEF Next

\* What a COMMIT has written is in force.
LEMMA CommitInForce ==
    ASSUME IInv, NEW r \in Requests, Commit(r), NEW a, a = AnswerOf(r)
    PROVE  InForce(a)'
<1>1. /\ pc[r] = "commit" /\ Apply(r) /\ Inc(r) \in Incidents /\ TypeOK
      /\ a.incident = Inc(r) /\ a.op = Op(r) /\ a.arg = Arg(r)
  BY InFlight DEF Commit, At, IInv, AnswerOf
<1>2. PICK new : new = Written(r)
  OBVIOUS
<1>3. rows'[Inc(r)] = new /\ new \in Row /\ new # NoRow
  BY <1>1, <1>2, WrittenType, NoRowAssumption DEF Apply, TypeOK
<1>4. CASE Op(r) = "declare"
  BY <1>1, <1>3, <1>4 DEF InForce
<1>5. CASE Op(r) = "status"
  <2>1. rows[Inc(r)] \in Row /\ Arg(r) \in Statuses
    BY <1>1, <1>5, AtCommit DEF StillAllowed
  <2>2. new = WithStatus(rows[Inc(r)], Arg(r))
    BY <1>2, <1>5 DEF Written
  <2>3. new.status = Arg(r) /\ Rank[Arg(r)] \in Nat
    BY <2>1, <2>2, RowUpdates, Ranks
  <2>4. QED
    BY <1>1, <1>3, <1>5, <2>3 DEF InForce
<1>6. CASE Op(r) = "severity"
  <2>1. rows[Inc(r)] \in Row /\ Arg(r) \in Severities
    BY <1>1, <1>6, AtCommit DEF StillAccepted
  <2>2. new = [rows[Inc(r)] EXCEPT !.severity = Arg(r)]
    BY <1>2, <1>6 DEF Written
  <2>3. new.severity = Arg(r) /\ SeverityOrder[Arg(r)] \in Nat
    BY <2>1, <2>2, RowUpdates, Ranks
  <2>4. QED
    BY <1>1, <1>3, <1>6, <2>3 DEF InForce
<1>7. CASE Op(r) = "responders"
  <2>1. rows[Inc(r)] \in Row
    BY <1>1, <1>7, AtCommit DEF StillAccepted
  <2>2. new = [rows[Inc(r)] EXCEPT !.responders = seen[r].responders \cup Arg(r)]
    BY <1>2, <1>7 DEF Written
  <2>3. Arg(r) \subseteq new.responders
    BY <2>1, <2>2 DEF Row
  <2>4. QED
    BY <1>1, <1>3, <1>7, <2>3 DEF InForce
<1>8. QED
  BY <1>1, <1>4, <1>5, <1>6, <1>7, AtCommit

LEMMA AcknowledgedStays ==
    ASSUME IInv, Acknowledged, [Next]_vars
    PROVE  Acknowledged'
<1>1. TypeOK /\ told \subseteq Answer
  BY DEF IInv, TypeOK
<1>2. ASSUME NEW r \in Requests, pc[r] # "idle", NEW a, a = AnswerOf(r)
      PROVE  /\ a \in Answer /\ a.op = Op(r) /\ a.incident = Inc(r) /\ a.arg = Arg(r)
             /\ Inc(r) \in Incidents
  <2>1. Op(r) \in AllOps /\ Inc(r) \in Incidents /\ Arg(r) \in Args[Op(r)]
    BY <1>2, InFlight
  <2>2. a \in [op: {Op(r)}, incident: Incidents, arg: Args[Op(r)], code: {200, 500, 503}]
    BY <1>2, <2>1 DEF AnswerOf
  <2>3. QED
    BY <1>2, <2>1, <2>2 DEF Answer, AnswerOf
<1>3. ASSUME NEW a \in told', a.code = 200
      PROVE  InForce(a)'
  <2>1. CASE a \in told
    BY <1>1, <1>3, <2>1, ForceStays DEF Acknowledged, AcknowledgedKept
  <2>2. ASSUME NEW r \in Requests, a = AnswerOf(r), Commit(r)
        PROVE  InForce(a)'
    BY <2>2, CommitInForce
  <2>3. ASSUME NEW r \in Requests, a = AnswerOf(r), Reselect(r)
        PROVE  InForce(a)'
    <3>1. pc[r] = "reselect"
      BY <2>3 DEF Reselect, At
    <3>2. InForce(a) /\ a \in Answer
      BY <1>2, <2>3, <3>1 DEF Acknowledged
    <3>3. QED
      BY <3>2, ForceStays
  <2>4. ASSUME NEW r \in Requests, a = AnswerOf(r), InsertEntry(r)
        PROVE  InForce(a)'
    <3>1. pc[r] = "insert" /\ Op(r) = "timeline" /\ AppendPosted(r)
      BY <2>4 DEF InsertEntry, At
    <3>2. rows[Inc(r)] \in Row /\ a.op = "timeline" /\ a.incident = Inc(r) /\ a.arg = Arg(r)
          /\ Inc(r) \in Incidents /\ Arg(r) \in EntryTypes
      BY <1>2, <2>4, <3>1, InFlight, ArgTypes DEF ReadHolds
    <3>3. PICK log \in Seq(Entry) : log = trail[Inc(r)]
      BY <1>1, <3>2 DEF TypeOK
    <3>4. PICK e \in Entry : e = Posted(Arg(r))
      BY <3>2, EntryKinds
    <3>5. trail'[Inc(r)] = Append(log, e) /\ rows' = rows
      BY <1>1, <3>1, <3>2, <3>3, <3>4 DEF AppendPosted, TypeOK
    <3>6. Len(log) + 1 \in 1..Len(Append(log, e)) /\ Append(log, e)[Len(log) + 1] = e
      BY PlacesAppend
    <3>7. QED
      BY <3>2, <3>4, <3>5, <3>6, NoRowAssumption DEF InForce, Posted
  <2>5. ASSUME NEW r \in Requests, a = AnswerOf(r), FetchTimeline(r)
        PROVE  InForce(a)'
    <3>1. pc[r] = "fetch"
      BY <2>5 DEF FetchTimeline, At
    <3>2. Op(r) = "postmortem"
      BY <3>1, InFlight DEF OpsAt
    <3>3. /\ rows[Inc(r)] \in Row /\ rows[Inc(r)].status \notin Active /\ postmortem[Inc(r)]
          /\ a.op = "postmortem" /\ a.incident = Inc(r) /\ a \in Answer
      BY <1>2, <2>5, <3>1, <3>2, InFlight DEF ReadHolds, Acknowledged
    <3>4. InForce(a)
      BY <3>3, NoRowAssumption DEF InForce
    <3>5. QED
      BY <3>3, <3>4, ForceStays
  <2>6. QED
    BY <1>3, <2>1, <2>2, <2>3, <2>4, <2>5, Answers
<1>4. ASSUME NEW r \in Requests, pc'[r] = "reselect"
      PROVE  InForce(AnswerOf(r))'
  <2>1. PICK a : a = AnswerOf(r)
    OBVIOUS
  <2>2. AnswerOf(r)' = a /\ pc[r] # "idle" /\ (pc[r] = "reselect" \/ Commit(r))
    BY <1>4, <2>1, Behind DEF AnswerOf, Op, Inc, Arg
  <2>3. InForce(a)'
    BY <1>2, <2>1, <2>2, ForceStays, CommitInForce DEF Acknowledged
  <2>4. QED
    BY <2>2, <2>3 DEF InForce
<1>5. ASSUME NEW r \in Requests, pc'[r] = "fetch"
      PROVE  postmortem'[Inc(r)']
  <2>1. Inc(r)' = Inc(r) /\ pc[r] # "idle" /\ (pc[r] = "fetch" \/ postmortem'[Inc(r)])
    BY <1>5, Behind DEF Inc
  <2>2. QED
    BY <2>1, InFlight, Grows DEF Acknowledged, Forward
<1>6. QED
  BY <1>3, <1>4, <1>5 DEF Acknowledged, AcknowledgedKept

\* What a client was told is in force stays in force, whatever other requests, rejected
\* statements and dead pods do.
THEOREM AcknowledgedKeptHolds == Spec => []AcknowledgedKept
<1>1. Init => Acknowledged
  BY DEF Init, Acknowledged, AcknowledgedKept
<1>2. IInv /\ Acknowledged /\ [Next]_vars => Acknowledged'
  BY AcknowledgedStays
<1>3. Acknowledged => AcknowledgedKept
  BY DEF Acknowledged
<1>4. QED
  BY <1>1, <1>2, <1>3, InductiveInvariant, PTL DEF Spec

-----------------------------------------------------------------------------
(* Published events *)

\* How a timeline grows.
LEMMA TrailGrows ==
    ASSUME IInv, [Next]_vars, NEW i \in Incidents
    PROVE  \/ trail'[i] = trail[i]
           \/ \E r \in Requests : /\ i = Inc(r) /\ Apply(r) /\ pc[r] = "commit"
                                  /\ trail'[i] = Append(trail[i], EntryOf(r))
                                  /\ Commit(r) \/ faults' # faults
           \/ \E type \in EntryTypes : trail'[i] = Append(trail[i], Posted(type))
<1>1. StoreOK /\ faults \in Nat
  BY TypeParts, BoundAssumption DEF IInv, RestOK
<1>2. ASSUME NEW r \in Requests, pc[r] = "commit", Apply(r)
      PROVE  trail'[i] = trail[i] \/ (i = Inc(r) /\ trail'[i] = Append(trail[i], EntryOf(r)))
  BY <1>1, <1>2 DEF Apply, StoreOK
<1>3. ASSUME NEW r \in Requests, pc[r] = "insert", Op(r) = "timeline", AppendPosted(r)
      PROVE  trail'[i] = trail[i] \/ \E type \in EntryTypes : trail'[i] = Append(trail[i], Posted(type))
  <2>1. Arg(r) \in EntryTypes
    BY <1>3, InFlight, ArgTypes
  <2>2. QED
    BY <1>1, <1>3, <2>1 DEF AppendPosted, StoreOK
<1>4. trail' = trail \/ (\E r \in Requests : \/ Commit(r) \/ InsertEntry(r)
                                            \/ CommitUnacknowledged(r) \/ InsertUnacknowledged(r))
  <2>1. ASSUME NEW r \in Requests, Step(r), ~Commit(r), ~InsertEntry(r)
        PROVE  trail' = trail
    BY <2>1 DEF Step, Connect, AcquireAdvisory, ReadStatus, CheckResolution, SelectForUpdate, Write,
       Reselect, Publish, Rollback, Find, FindExisting, TakeClient, InsertPostMortem, FetchTimeline,
       store
  <2>2. ASSUME NEW r \in Requests, Faulty(r), ~CommitUnacknowledged(r), ~InsertUnacknowledged(r)
        PROVE  trail' = trail
    BY <2>2 DEF Faulty, StatementFails, PublishFails, store
  <2>3. ASSUME NEW r \in Requests, NEW i2 \in Incidents, NEW o \in Ops, NEW p \in Replicas,
               NEW x \in Args[o], Arrive(r, i2, o, x, p)
        PROVE  trail' = trail
    BY <2>3 DEF Arrive, store
  <2>4. ASSUME NEW p \in Replicas, Crash(p)
        PROVE  trail' = trail
    BY <2>4 DEF Crash, store
  <2>5. QED
    BY <2>1, <2>2, <2>3, <2>4 DEF Next, vars
<1>5. ASSUME NEW r \in Requests, Commit(r)
      PROVE  pc[r] = "commit" /\ Apply(r)
  BY <1>5 DEF Commit, At
<1>6. ASSUME NEW r \in Requests, CommitUnacknowledged(r)
      PROVE  pc[r] = "commit" /\ Apply(r) /\ faults' # faults
  BY <1>1, <1>6 DEF CommitUnacknowledged, At, Fault
<1>7. ASSUME NEW r \in Requests, InsertEntry(r) \/ InsertUnacknowledged(r)
      PROVE  \/ pc[r] = "insert" /\ Op(r) = "timeline" /\ AppendPosted(r)
             \/ trail' = trail
  BY <1>7 DEF InsertEntry, InsertUnacknowledged, At
<1>8. QED
  BY <1>2, <1>3, <1>4, <1>5, <1>6, <1>7

\* The entry a request records is settled with what it read.
LEMMA SameEntry ==
    ASSUME NEW r, req'[r] = req[r], seen'[r] = seen[r]
    PROVE  EntryOf(r)' = EntryOf(r) /\ Inc(r)' = Inc(r)
BY DEF EntryOf, Inc, Op, Arg

Listed(i, e) == \E k \in 1..Len(trail[i]) : trail[i][k] = e

LEMMA ListedStays ==
    ASSUME IInv, [Next]_vars, NEW i \in Incidents, NEW e, Listed(i, e)
    PROVE  \E k \in 1..Len(trail'[i]) : trail'[i][k] = e
<1>1. PICK k \in 1..Len(trail[i]) : trail[i][k] = e
  BY DEF Listed
<1>2. k \in 1..Len(trail'[i]) /\ trail'[i][k] = trail[i][k]
  BY <1>1, Grows DEF Forward
<1>3. QED
  BY <1>1, <1>2

\* What is on the stream, and what is about to be, is in a timeline.
Committed ==
    /\ PublishedIsCommitted
    /\ \A r \in Requests : pc[r] \in {"reselect", "publish"} => Listed(Inc(r), EntryOf(r))

\* The only step that appends an event is that of the handler that has committed it.
LEMMA StreamGrows ==
    ASSUME IInv, [Next]_vars
    PROVE  \/ stream' = stream
           \/ \E r \in Requests : /\ pc[r] = "publish" /\ Publish(r)
                                  /\ stream' = stream \cup {[incident |-> Inc(r), entry |-> EntryOf(r)]}
<1>1. ASSUME NEW r \in Requests, Step(r), ~Publish(r)
      PROVE  stream' = stream
  BY <1>1 DEF Step, Connect, AcquireAdvisory, ReadStatus, CheckResolution, SelectForUpdate, Write,
     Commit, Reselect, Rollback, Find, FindExisting, TakeClient, InsertEntry, InsertPostMortem,
     FetchTimeline
<1>2. ASSUME NEW r \in Requests, Faulty(r)
      PROVE  stream' = stream
  BY <1>2 DEF Faulty, StatementFails, CommitUnacknowledged, InsertUnacknowledged, PublishFails
<1>3. ASSUME NEW r \in Requests, NEW i \in Incidents, NEW o \in Ops, NEW p \in Replicas,
             NEW x \in Args[o], Arrive(r, i, o, x, p)
      PROVE  stream' = stream
  BY <1>3 DEF Arrive
<1>4. ASSUME NEW p \in Replicas, Crash(p)
      PROVE  stream' = stream
  BY <1>4 DEF Crash
<1>5. ASSUME NEW r \in Requests, Publish(r)
      PROVE  /\ pc[r] = "publish"
             /\ stream' = stream \cup {[incident |-> Inc(r), entry |-> EntryOf(r)]}
  BY <1>5 DEF Publish, At
<1>6. QED
  BY <1>1, <1>2, <1>3, <1>4, <1>5 DEF Next, vars

LEMMA CommittedStays ==
    ASSUME IInv, Committed, [Next]_vars
    PROVE  Committed'
<1>1. StoreOK /\ stream \in SUBSET [incident: Incidents, entry: Entry]
  BY TypeParts DEF IInv, RestOK
<1>2. ASSUME NEW ev \in stream'
      PROVE  \E k \in 1..Len(trail'[ev.incident]) : trail'[ev.incident][k] = ev.entry
  <2>1. ev.incident \in Incidents /\ Listed(ev.incident, ev.entry)
    <3>1. CASE ev \in stream
      BY <1>1, <3>1 DEF Committed, PublishedIsCommitted, Listed
    <3>2. ASSUME NEW r \in Requests, pc[r] = "publish", ev = [incident |-> Inc(r), entry |-> EntryOf(r)]
          PROVE  ev.incident \in Incidents /\ Listed(ev.incident, ev.entry)
      <4>1. Inc(r) \in Incidents /\ Listed(Inc(r), EntryOf(r))
        BY <3>2, InFlight DEF Committed
      <4>2. ev.incident = Inc(r) /\ ev.entry = EntryOf(r)
        BY <3>2
      <4>3. QED
        BY <4>1, <4>2
    <3>3. QED
      BY <1>2, <3>1, <3>2, StreamGrows
  <2>2. QED
    BY <2>1, ListedStays
<1>3. ASSUME NEW r \in Requests, pc'[r] \in {"reselect", "publish"}
      PROVE  Listed(Inc(r), EntryOf(r))'
  <2>1. /\ EntryOf(r)' = EntryOf(r) /\ Inc(r)' = Inc(r) /\ pc[r] # "idle"
        /\ pc[r] \in {"reselect", "publish"} \/ Commit(r)
    BY <1>3, Behind, SameEntry DEF Reselect, At
  <2>2. PICK i, e : i \in Incidents /\ i = Inc(r) /\ e = EntryOf(r)
    BY <2>1, InFlight
  <2>3. \E k \in 1..Len(trail'[i]) : trail'[i][k] = e
    <3>1. CASE pc[r] \in {"reselect", "publish"}
      BY <2>2, <3>1, ListedStays DEF Committed
    <3>2. CASE Commit(r)
      <4>1. pc[r] = "commit" /\ trail'[i] = Append(trail[i], e)
        BY <1>1, <2>2, <3>2 DEF Commit, Apply, StoreOK, At
      <4>2. PICK log \in Seq(Entry) : log = trail[i]
        BY <1>1, <2>2 DEF StoreOK
      <4>3. e \in Entry
        BY <2>2, <4>1, EntryOfType
      <4>4. Len(log) + 1 \in 1..Len(Append(log, e)) /\ Append(log, e)[Len(log) + 1] = e
        BY <4>3, PlacesAppend
      <4>5. QED
        BY <4>1, <4>2, <4>4
    <3>3. QED
      BY <2>1, <3>1, <3>2
  <2>4. QED
    BY <2>1, <2>2, <2>3 DEF Listed
<1>4. QED
  BY <1>2, <1>3 DEF Committed, PublishedIsCommitted

\* No event is on the stream for a change that was rolled back: every handler publishes
\* behind its COMMIT.
THEOREM PublishedIsCommittedHolds == Spec => []PublishedIsCommitted
<1>1. Init => Committed
  BY DEF Init, Committed, PublishedIsCommitted
<1>2. IInv /\ Committed /\ [Next]_vars => Committed'
  BY CommittedStays
<1>3. Committed => PublishedIsCommitted
  BY DEF Committed
<1>4. QED
  BY <1>1, <1>2, <1>3, InductiveInvariant, PTL DEF Spec

\* Without faults, an entry that calls for an event has it, or the request that recorded it
\* is on its way to the XADD.
Announced ==
    faults = 0 => \A i \in Incidents : \A k \in 1..Len(trail[i]) : trail[i][k].kind # "posted" =>
        \/ [incident |-> i, entry |-> trail[i][k]] \in stream
        \/ \E r \in Requests : /\ pc[r] \in {"reselect", "publish"} /\ Inc(r) = i
                               /\ EntryOf(r) = trail[i][k]

\* A request that has committed goes on to its XADD.
LEMMA GoesToPublish ==
    ASSUME IInv, [Next]_vars, faults' = 0, NEW r \in Requests, pc[r] \in {"reselect", "publish"}
    PROVE  \/ pc'[r] \in {"reselect", "publish"} /\ req'[r] = req[r] /\ seen'[r] = seen[r]
           \/ stream' = stream \cup {[incident |-> Inc(r), entry |-> EntryOf(r)]}
<1>1. RequestsOK /\ faults \in Nat
  BY TypeParts, BoundAssumption DEF IInv, RestOK
<1>2. ASSUME NEW c \in Requests, Step(c)
      PROVE  \/ pc'[r] \in {"reselect", "publish"} /\ req'[r] = req[r] /\ seen'[r] = seen[r]
             \/ stream' = stream \cup {[incident |-> Inc(r), entry |-> EntryOf(r)]}
  <2>1. CASE c = r
    BY <1>1, <1>2, <2>1 DEF Step, Connect, AcquireAdvisory, ReadStatus, CheckResolution,
       SelectForUpdate, Write, Commit, Reselect, Publish, Rollback, Find, FindExisting, TakeClient,
       InsertEntry, InsertPostMortem, FetchTimeline, At, Goto, RequestsOK
  <2>2. CASE c # r
    BY <1>1, <1>2, <2>2 DEF Step, Connect, AcquireAdvisory, ReadStatus, CheckResolution,
       SelectForUpdate, Write, Commit, Reselect, Publish, Rollback, Find, FindExisting, TakeClient,
       InsertEntry, InsertPostMortem, FetchTimeline, Goto, Finish, RequestsOK
  <2>3. QED
    BY <2>1, <2>2
<1>3. ASSUME (\E c \in Requests : Faulty(c)) \/ (\E p \in Replicas : Crash(p))
      PROVE  FALSE
  <2>1. faults' = faults + 1
    BY <1>3 DEF Faulty, StatementFails, CommitUnacknowledged, InsertUnacknowledged, PublishFails,
       Crash, Fault
  <2>2. QED
    BY <1>1, <2>1
<1>4. ASSUME NEW c \in Requests, NEW i \in Incidents, NEW o \in Ops, NEW a \in Args[o],
             NEW p \in Replicas, Arrive(c, i, o, a, p)
      PROVE  pc'[r] = pc[r] /\ req'[r] = req[r] /\ seen'[r] = seen[r]
  BY <1>1, <1>4 DEF Arrive, At, Goto, RequestsOK
<1>5. QED
  BY <1>2, <1>3, <1>4 DEF Next, vars

LEMMA AnnouncedStays ==
    ASSUME IInv, Announced, [Next]_vars
    PROVE  Announced'
<1> SUFFICES ASSUME faults' = 0, NEW i \in Incidents, NEW k \in 1..Len(trail'[i]),
                    trail'[i][k].kind # "posted"
             PROVE  \/ [incident |-> i, entry |-> trail'[i][k]] \in stream'
                    \/ \E r \in Requests : /\ pc'[r] \in {"reselect", "publish"} /\ Inc(r)' = i
                                           /\ EntryOf(r)' = trail'[i][k]
  BY DEF Announced
<1>1. StoreOK /\ faults \in Nat /\ stream \subseteq stream'
  BY TypeParts, BoundAssumption, StreamGrows DEF IInv, RestOK
<1>2. faults = 0
  <2>1. faults' = faults \/ faults' = faults + 1
    <3>1. ASSUME NEW r \in Requests, Step(r)
          PROVE  faults' = faults
      BY <3>1 DEF Step, Connect, AcquireAdvisory, ReadStatus, CheckResolution, SelectForUpdate,
         Write, Commit, Reselect, Publish, Rollback, Find, FindExisting, TakeClient, InsertEntry,
         InsertPostMortem, FetchTimeline
    <3>2. ASSUME NEW r \in Requests, Faulty(r)
          PROVE  faults' = faults + 1
      BY <3>2 DEF Faulty, StatementFails, CommitUnacknowledged, InsertUnacknowledged, PublishFails,
         Fault
    <3>3. ASSUME NEW r \in Requests, NEW i2 \in Incidents, NEW o \in Ops, NEW p \in Replicas,
                 NEW x \in Args[o], Arrive(r, i2, o, x, p)
          PROVE  faults' = faults
      BY <3>3 DEF Arrive
    <3>4. ASSUME NEW p \in Replicas, Crash(p)
          PROVE  faults' = faults + 1
      BY <3>4 DEF Crash, Fault
    <3>5. QED
      BY <3>1, <3>2, <3>3, <3>4 DEF Next, vars
  <2>2. QED
    BY <1>1, <2>1
<1>3. PICK e : e = trail'[i][k]
  OBVIOUS
<1>4. CASE k \in 1..Len(trail[i])
  <2>1. trail[i][k] = e /\ trail[i][k].kind # "posted"
    BY <1>3, <1>4, Grows DEF Forward
  <2>2. CASE [incident |-> i, entry |-> e] \in stream
    BY <1>1, <1>3, <2>2
  <2>3. ASSUME NEW r \in Requests, pc[r] \in {"reselect", "publish"}, Inc(r) = i, EntryOf(r) = e
        PROVE  \/ [incident |-> i, entry |-> e] \in stream'
               \/ /\ pc'[r] \in {"reselect", "publish"} /\ Inc(r)' = i
                  /\ EntryOf(r)' = e
    BY <2>3, GoesToPublish, SameEntry
  <2>4. QED
    BY <1>2, <1>3, <1>4, <2>1, <2>2, <2>3 DEF Announced
<1>5. CASE k \notin 1..Len(trail[i])
  <2>1. PICK log \in Seq(Entry) : log = trail[i]
    BY <1>1 DEF StoreOK
  <2>2. ASSUME NEW x \in Entry, trail'[i] = Append(log, x)
        PROVE  e = x
    BY <1>3, <1>5, <2>1, <2>2, PlacesAppend
  <2>3. ASSUME NEW type \in EntryTypes, trail'[i] = Append(log, Posted(type))
        PROVE  FALSE
    BY <1>3, <2>2, <2>3, EntryKinds
  <2>4. PICK r \in Requests : /\ i = Inc(r) /\ Commit(r) /\ pc[r] = "commit"
                              /\ trail'[i] = Append(log, EntryOf(r))
    BY <1>2, <1>5, <2>1, <2>3, TrailGrows
  <2>5. e = EntryOf(r)
    BY <2>2, <2>4, EntryOfType
  <2>6. pc'[r] \in {"reselect", "publish"} /\ req'[r] = req[r] /\ seen'[r] = seen[r]
    <3>1. RequestsOK
      BY TypeParts DEF IInv
    <3>2. QED
      BY <2>4, <3>1 DEF Commit, Goto, RequestsOK
  <2>7. QED
    BY <1>3, <2>4, <2>5, <2>6, SameEntry
<1>6. QED
  BY <1>4, <1>5

\* While nothing fails, every change that was committed is on the stream once the requests
\* are over.
THEOREM EverythingPublishedHolds == Spec => []EverythingPublished
<1>1. Init => Announced
  BY DEF Init, Announced
<1>2. IInv /\ Announced /\ [Next]_vars => Announced'
  BY AnnouncedStays
<1>3. Announced => EverythingPublished
  BY DEF Announced, EverythingPublished
<1>4. QED
  BY <1>1, <1>2, <1>3, InductiveInvariant, PTL DEF Spec

-----------------------------------------------------------------------------
(* Locks and clients *)

\* The statements at which a request holds a client, and those at which it may hold a lock.
Holding  == {"lock", "read", "check", "select", "write", "commit", "rollback", "reselect", "insert"}
Locked   == {"read", "check", "write", "commit", "rollback"}
RowLocked == {"write", "commit", "rollback"}

ClientsOf(p) == {c \in clients : req[c].replica = p}

Tidy == /\ clients = {r \in Requests : pc[r] \in Holding}
        /\ IsFiniteSet(clients)
        /\ \A k \in Locks : advisory[k] # Nobody => pc[advisory[k]] \in Locked
        /\ \A i \in Incidents : rowLock[i] # Nobody => pc[rowLock[i]] \in RowLocked
        /\ \A p \in Replicas : Cardinality(ClientsOf(p)) <= PoolMax

\* A request that goes on is the same request.
LEMMA SameRequest ==
    ASSUME IInv, [Next]_vars, NEW c \in Requests, pc[c] # "idle", pc'[c] # "idle"
    PROVE  req'[c] = req[c]
<1>1. RequestsOK
  BY TypeParts DEF IInv
<1>2. CASE Step(c)
  BY <1>1, <1>2 DEF Step, Connect, AcquireAdvisory, ReadStatus, CheckResolution, SelectForUpdate,
     Write, Commit, Reselect, Publish, Rollback, Find, FindExisting, TakeClient, InsertEntry,
     InsertPostMortem, FetchTimeline, Finish, RequestsOK
<1>3. QED
  BY <1>2, Fate

\* A client is taken at the start of a transaction or before an INSERT, and only there.
LEMMA ClientsMove ==
    ASSUME IInv, Tidy, [Next]_vars
    PROVE  /\ clients' = {r \in Requests : pc'[r] \in Holding}
           /\ \/ clients' \subseteq clients
              \/ \E r \in Requests : /\ clients' = clients \cup {r} /\ r \notin clients
                                     /\ ClientFree(req[r].replica) /\ UNCHANGED req
<1>1. RequestsOK /\ clients = {r \in Requests : pc[r] \in Holding}
  BY TypeParts DEF IInv, Tidy
<1>2. ASSUME NEW r \in Requests, NEW label, Goto(r, label), clients' = clients,
             pc[r] \in Holding <=> label \in Holding
      PROVE  clients' = {c \in Requests : pc'[c] \in Holding}
  BY <1>1, <1>2 DEF Goto, RequestsOK
<1>3. ASSUME NEW r \in Requests, NEW label \in Holding, Goto(r, label), clients' = clients \cup {r}
      PROVE  clients' = {c \in Requests : pc'[c] \in Holding}
  BY <1>1, <1>3 DEF Goto, RequestsOK
<1>4. ASSUME NEW r \in Requests, NEW label, label \notin Holding, Goto(r, label), clients' = clients \ {r}
      PROVE  clients' = {c \in Requests : pc'[c] \in Holding}
  BY <1>1, <1>4 DEF Goto, RequestsOK
<1>5. ASSUME NEW R \in SUBSET Requests, Finish(R),
             clients' = clients \ R \/ (clients' = clients /\ \A c \in R : pc[c] \notin Holding)
      PROVE  clients' = {c \in Requests : pc'[c] \in Holding}
  BY <1>1, <1>5 DEF Finish, Holding
<1>6. ASSUME NEW r \in Requests, Connect(r) \/ TakeClient(r)
      PROVE  /\ clients' = {c \in Requests : pc'[c] \in Holding}
             /\ clients' = clients \cup {r} /\ r \notin clients
             /\ ClientFree(req[r].replica) /\ UNCHANGED req
  <2>1. \E label \in Holding : Goto(r, label)
    BY <1>6 DEF Connect, TakeClient, Holding
  <2>2. r \notin clients
    BY <1>1, <1>6 DEF Connect, TakeClient, At, Holding
  <2>3. QED
    BY <1>3, <1>6, <2>1, <2>2 DEF Connect, TakeClient
<1>7. ASSUME NEW r \in Requests,
             AcquireAdvisory(r) \/ ReadStatus(r) \/ CheckResolution(r) \/ SelectForUpdate(r) \/ Write(r)
      PROVE  clients' = clients /\ clients' = {c \in Requests : pc'[c] \in Holding}
  <2>1. pc[r] \in Holding /\ clients' = clients /\ \E label \in Holding : Goto(r, label)
    BY <1>7 DEF AcquireAdvisory, ReadStatus, CheckResolution, SelectForUpdate, Write, At, Holding
  <2>2. QED
    BY <1>2, <2>1
<1>8. ASSUME NEW r \in Requests, Commit(r) \/ Reselect(r)
      PROVE  clients' \subseteq clients /\ clients' = {c \in Requests : pc'[c] \in Holding}
  <2>1. \/ pc[r] = "commit" /\ Goto(r, "reselect") /\ clients' = clients
        \/ Goto(r, "publish") /\ clients' = clients \ {r}
    BY <1>8 DEF Commit, Reselect, At
  <2>2. QED
    BY <1>2, <1>4, <2>1 DEF Holding
<1>9. ASSUME NEW r \in Requests, Find(r) \/ FindExisting(r) \/ Publish(r) \/ FetchTimeline(r) \/ PublishFails(r)
      PROVE  clients' \subseteq clients /\ clients' = {c \in Requests : pc'[c] \in Holding}
  <2>1. /\ clients' = clients /\ pc[r] \notin Holding
        /\ Finish({r}) \/ \E label \in {"existing", "take"} : Goto(r, label)
    BY <1>9 DEF Find, FindExisting, Publish, FetchTimeline, PublishFails, At, Holding
  <2>2. QED
    BY <1>2, <1>5, <2>1 DEF Holding
<1>10. ASSUME NEW r \in Requests,
              Rollback(r) \/ InsertEntry(r) \/ InsertPostMortem(r) \/ StatementFails(r) \/ InsertUnacknowledged(r)
       PROVE  clients' \subseteq clients /\ clients' = {c \in Requests : pc'[c] \in Holding}
  <2>1. clients' = clients \ {r} /\ (Finish({r}) \/ Goto(r, "fetch"))
    BY <1>10 DEF Rollback, InsertEntry, InsertPostMortem, StatementFails, InsertUnacknowledged
  <2>2. QED
    BY <1>4, <1>5, <2>1 DEF Holding
<1>11. ASSUME NEW R \in SUBSET Requests, Drop(R)
       PROVE  clients' \subseteq clients /\ clients' = {c \in Requests : pc'[c] \in Holding}
  BY <1>5, <1>11 DEF Drop
<1>12. ASSUME \/ \E r \in Requests : CommitUnacknowledged(r)
              \/ \E p \in Replicas : Crash(p)
       PROVE  clients' \subseteq clients /\ clients' = {c \in Requests : pc'[c] \in Holding}
  BY <1>11, <1>12 DEF CommitUnacknowledged, Crash, Served
<1>13. ASSUME NEW r \in Requests, NEW i \in Incidents, NEW o \in Ops, NEW a \in Args[o],
              NEW p \in Replicas, Arrive(r, i, o, a, p)
       PROVE  clients' = clients /\ clients' = {c \in Requests : pc'[c] \in Holding}
  <2>1. pc[r] \notin Holding /\ clients' = clients /\ \E label \in {"connect", "find"} : Goto(r, label)
    BY <1>13 DEF Arrive, At, Holding
  <2>2. QED
    BY <1>2, <2>1 DEF Holding
<1>14. CASE UNCHANGED vars
  BY <1>1, <1>14 DEF vars
<1>15. QED
  BY <1>6, <1>7, <1>8, <1>9, <1>10, <1>12, <1>13, <1>14 DEF Next, Step, Faulty

\* The clients in use stay within the pool of each pod.
LEMMA PoolHolds ==
    ASSUME IInv, Tidy, [Next]_vars
    PROVE  /\ IsFiniteSet(clients')
           /\ \A p \in Replicas : Cardinality(ClientsOf(p)') <= PoolMax
<1>1. IsFiniteSet(clients) /\ clients \subseteq Requests
  BY DEF Tidy
<1>2. \A c \in clients : c \in clients' => req'[c] = req[c]
  <2>1. \A c \in clients : pc[c] # "idle"
    BY DEF Tidy, Holding
  <2>2. \A c \in clients' : c \in Requests /\ pc'[c] # "idle"
    BY ClientsMove DEF Holding
  <2>3. QED
    BY <1>1, <2>1, <2>2, SameRequest
<1>3. \A p \in Replicas : IsFiniteSet(ClientsOf(p)) /\ Cardinality(ClientsOf(p)) \in Nat
  <2>1. \A p \in Replicas : ClientsOf(p) \subseteq clients
    BY DEF ClientsOf
  <2>2. QED
    BY <1>1, <2>1, FS_Subset, FS_CardinalityType
<1>4. CASE clients' \subseteq clients
  <2>1. IsFiniteSet(clients')
    BY <1>1, <1>4, FS_Subset
  <2>2. ASSUME NEW p \in Replicas
        PROVE  Cardinality(ClientsOf(p)') <= PoolMax
    <3>1. ClientsOf(p)' \subseteq ClientsOf(p)
      BY <1>2, <1>4 DEF ClientsOf
    <3>2. PICK small, big : small = ClientsOf(p)' /\ big = ClientsOf(p)
      OBVIOUS
    <3>3. IsFiniteSet(big) /\ small \subseteq big /\ Cardinality(big) \in Nat /\ Cardinality(big) <= PoolMax
      BY <1>3, <3>1, <3>2 DEF Tidy
    <3>4. Cardinality(small) <= Cardinality(big) /\ Cardinality(small) \in Nat
      BY <3>3, FS_Subset, FS_CardinalityType
    <3>5. Cardinality(small) <= PoolMax
      BY <3>3, <3>4, BoundAssumption
    <3>6. QED
      BY <3>2, <3>5
  <2>3. QED
    BY <2>1, <2>2
<1>5. ASSUME NEW r \in Requests, clients' = clients \cup {r}, r \notin clients,
             ClientFree(req[r].replica), UNCHANGED req
      PROVE  /\ IsFiniteSet(clients')
             /\ \A p \in Replicas : Cardinality(ClientsOf(p)') <= PoolMax
  <2>1. IsFiniteSet(clients')
    BY <1>1, <1>5, FS_AddElement
  <2>2. ASSUME NEW p \in Replicas
        PROVE  Cardinality(ClientsOf(p)') <= PoolMax
    <3>1. PICK old, new : old = ClientsOf(p) /\ new = ClientsOf(p)'
      OBVIOUS
    <3>2. IsFiniteSet(old) /\ Cardinality(old) \in Nat /\ Cardinality(old) <= PoolMax
      BY <1>3, <3>1 DEF Tidy
    <3>3. CASE req[r].replica # p
      <4>1. new = old
        BY <1>5, <3>1, <3>3 DEF ClientsOf
      <4>2. QED
        BY <3>1, <3>2, <4>1
    <3>4. CASE req[r].replica = p
      <4>1. new = old \cup {r} /\ r \notin old
        BY <1>5, <3>1, <3>4 DEF ClientsOf
      <4>2. Cardinality(new) = Cardinality(old) + 1
        BY <3>2, <4>1, FS_AddElement
      <4>3. Cardinality(old) < PoolMax
        BY <1>5, <3>1, <3>4 DEF ClientFree, ClientsOf
      <4>4. Cardinality(new) <= PoolMax
        BY <3>2, <4>2, <4>3, BoundAssumption
      <4>5. QED
        BY <3>1, <4>4
    <3>5. QED
      BY <3>3, <3>4
  <2>3. QED
    BY <2>1, <2>2
<1>6. QED
  BY <1>4, <1>5, ClientsMove

\* Who holds a lock afterwards took it, or kept it and is still in its transaction.
LEMMA LocksHold ==
    ASSUME IInv, Tidy, [Next]_vars
    PROVE  /\ \A k \in Locks : advisory'[k] # Nobody => pc'[advisory'[k]] \in Locked
           /\ \A i \in Incidents : rowLock'[i] # Nobody => pc'[rowLock'[i]] \in RowLocked
<1>1. RequestsOK /\ LocksOK
  BY TypeParts DEF IInv
<1>2. /\ \A k \in Locks : advisory[k] # Nobody => advisory[k] \in Requests /\ pc[advisory[k]] \in Locked
      /\ \A i \in Incidents : rowLock[i] # Nobody => rowLock[i] \in Requests /\ pc[rowLock[i]] \in RowLocked
  BY <1>1 DEF Tidy, LocksOK
<1> DEFINE Kept == /\ \A k \in Locks : advisory'[k] # Nobody => pc'[advisory'[k]] \in Locked
                   /\ \A i \in Incidents : rowLock'[i] # Nobody => pc'[rowLock'[i]] \in RowLocked
<1>3. ASSUME NEW R \in SUBSET Requests, \A c \in Requests \ R : pc'[c] = pc[c], Unlock(R)
      PROVE  Kept
  BY <1>1, <1>2, <1>3 DEF Unlock
<1>4. ASSUME NEW r \in Requests, \A c \in Requests \ {r} : pc'[c] = pc[c], UNCHANGED locks,
             pc[r] \in Locked => pc'[r] \in Locked, pc[r] \in RowLocked => pc'[r] \in RowLocked
      PROVE  Kept
  BY <1>2, <1>4 DEF locks
<1>5. ASSUME NEW r \in Requests, Goto(r, "read"), pc[r] = "lock", Inc(r) \in Incidents,
             advisory' = [advisory EXCEPT ![LockOf[Inc(r)]] = r], rowLock' = rowLock
      PROVE  Kept
  BY <1>1, <1>2, <1>5, LockAssumption DEF Goto, RequestsOK, LocksOK, Locked, RowLocked
<1>6. ASSUME NEW r \in Requests, NEW label \in RowLocked, Goto(r, label), pc[r] \in {"select", "write"},
             Inc(r) \in Incidents,
             rowLock' = [rowLock EXCEPT ![Inc(r)] = r] \/ rowLock' = rowLock, advisory' = advisory
      PROVE  Kept
  BY <1>1, <1>2, <1>6 DEF Goto, RequestsOK, LocksOK, Locked, RowLocked
<1>7. ASSUME NEW r \in Requests, AcquireAdvisory(r)
      PROVE  Kept
  BY <1>5, <1>7, InFlight DEF AcquireAdvisory, At
<1>8. ASSUME NEW r \in Requests, SelectForUpdate(r) \/ Write(r)
      PROVE  Kept
  <2>1. /\ pc[r] \in {"select", "write"} /\ advisory' = advisory
        /\ \E label \in RowLocked : Goto(r, label)
        /\ rowLock' = [rowLock EXCEPT ![Inc(r)] = r] \/ rowLock' = rowLock
    BY <1>8 DEF SelectForUpdate, Write, At, RowLocked
  <2>2. Inc(r) \in Incidents
    BY <2>1, InFlight
  <2>3. QED
    BY <1>6, <2>1, <2>2
<1>9. ASSUME NEW r \in Requests,
             \/ Connect(r) \/ ReadStatus(r) \/ CheckResolution(r) \/ Reselect(r) \/ Publish(r) \/ Find(r)
             \/ FindExisting(r) \/ TakeClient(r) \/ InsertEntry(r) \/ InsertPostMortem(r)
             \/ FetchTimeline(r) \/ InsertUnacknowledged(r) \/ PublishFails(r)
      PROVE  Kept
  <2>1. \A c \in Requests \ {r} : pc'[c] = pc[c]
    BY <1>1, <1>9 DEF Connect, ReadStatus, CheckResolution, Reselect, Publish, Find, FindExisting,
       TakeClient, InsertEntry, InsertPostMortem, FetchTimeline, InsertUnacknowledged, PublishFails,
       Goto, Finish, RequestsOK
  <2>2. UNCHANGED locks
    BY <1>9 DEF Connect, ReadStatus, CheckResolution, Reselect, Publish, Find, FindExisting, TakeClient,
       InsertEntry, InsertPostMortem, FetchTimeline, InsertUnacknowledged, PublishFails
  <2>3. /\ pc[r] \in Locked => pc[r] \in {"read", "check"} /\ pc'[r] \in Locked
        /\ pc[r] \notin RowLocked
    BY <1>1, <1>9 DEF Connect, ReadStatus, CheckResolution, Reselect, Publish, Find, FindExisting,
       TakeClient, InsertEntry, InsertPostMortem, FetchTimeline, InsertUnacknowledged, PublishFails,
       At, Goto, RequestsOK, Locked, RowLocked
  <2>4. QED
    BY <1>4, <2>1, <2>2, <2>3
<1>10. ASSUME NEW r \in Requests, Commit(r) \/ Rollback(r) \/ StatementFails(r)
       PROVE  Kept
  <2>1. Unlock({r}) /\ \A c \in Requests \ {r} : pc'[c] = pc[c]
    BY <1>1, <1>10 DEF Commit, Rollback, StatementFails, Goto, Finish, RequestsOK
  <2>2. QED
    BY <1>3, <2>1
<1>11. ASSUME NEW R \in SUBSET Requests, Drop(R)
       PROVE  Kept
  BY <1>3, <1>11 DEF Drop, Finish
<1>12. ASSUME \/ \E r \in Requests : CommitUnacknowledged(r)
              \/ \E p \in Replicas : Crash(p)
       PROVE  Kept
  BY <1>11, <1>12 DEF CommitUnacknowledged, Crash, Served
<1>13. ASSUME NEW r \in Requests, NEW i \in Incidents, NEW o \in Ops, NEW a \in Args[o],
              NEW p \in Replicas, Arrive(r, i, o, a, p)
       PROVE  Kept
  <2>1. pc[r] = "idle" /\ UNCHANGED locks /\ \A c \in Requests \ {r} : pc'[c] = pc[c]
    BY <1>1, <1>13 DEF Arrive, At, Goto, RequestsOK
  <2>2. QED
    BY <1>4, <2>1 DEF Locked, RowLocked
<1>14. CASE UNCHANGED vars
  BY <1>2, <1>14 DEF vars
<1>15. QED
  BY <1>7, <1>8, <1>9, <1>10, <1>12, <1>13, <1>14 DEF Next, Step, Faulty

\* No lock outlives its transaction, no client its request, and no pool lends more clients
\* than it has, whatever statement fails and whatever pod dies.
THEOREM NothingLeaksHolds == Spec => []NothingLeaks
<1>1. Init => Tidy
  <2> SUFFICES ASSUME Init
               PROVE  Tidy
    OBVIOUS
  <2>1. clients = {} /\ \A p \in Replicas : ClientsOf(p) = {}
    BY DEF Init, ClientsOf
  <2>2. IsFiniteSet({}) /\ Cardinality({}) = 0
    BY FS_EmptySet
  <2>3. \A p \in Replicas : Cardinality(ClientsOf(p)) <= PoolMax
    BY <2>1, <2>2, BoundAssumption
  <2>4. clients = {r \in Requests : pc[r] \in Holding}
    BY <2>1 DEF Init, Holding
  <2>5. /\ \A k \in Locks : advisory[k] = Nobody
        /\ \A i \in Incidents : rowLock[i] = Nobody
    BY DEF Init
  <2>6. QED
    BY <2>1, <2>2, <2>3, <2>4, <2>5 DEF Tidy
<1>2. IInv /\ Tidy /\ [Next]_vars => Tidy'
  BY ClientsMove, PoolHolds, LocksHold DEF Tidy
<1>3. IInv /\ Tidy => NothingLeaks
  <2> SUFFICES ASSUME IInv, Tidy
               PROVE  NothingLeaks
    OBVIOUS
  <2>1. LocksOK
    BY TypeParts DEF IInv
  <2>2. \A k \in Locks : advisory[k] # Nobody => advisory[k] \in clients
    BY <2>1 DEF Tidy, LocksOK, Locked, Holding
  <2>3. \A i \in Incidents : rowLock[i] # Nobody => rowLock[i] \in clients
    BY <2>1 DEF Tidy, LocksOK, RowLocked, Holding
  <2>4. \A c \in clients : pc[c] # "idle"
    BY DEF Tidy, Holding
  <2>5. QED
    BY <2>2, <2>3, <2>4 DEF NothingLeaks, Tidy, Locked, RowLocked, ClientsOf
<1>4. QED
  BY <1>1, <1>2, <1>3, InductiveInvariant, PTL DEF Spec

=============================================================================
