---------------------- MODULE IncidentLifecycle_proofs ----------------------
(***************************************************************************)
(* Proofs about IncidentLifecycle, for every number of requests, replicas, *)
(* incidents and faults: what the writes do to rows and timelines, its     *)
(* inductive invariant IInv, and that it implements IncidentContract.      *)
(***************************************************************************)
EXTENDS IncidentLifecycle, TLAPS

-----------------------------------------------------------------------------
(* Rows and timelines *)

\* The places of a kind after an Append: those before it and, for an entry of that
\* kind, the last one.
LEMMA PlacesAppend ==
    ASSUME NEW log \in Seq(Entry), NEW e \in Entry, NEW kind
    PROVE  /\ Append(log, e) \in Seq(Entry)
           /\ Len(log) \in Nat
           /\ Len(Append(log, e)) = Len(log) + 1
           /\ \A k \in 1..Len(log) : Append(log, e)[k] = log[k]
           /\ Append(log, e)[Len(log) + 1] = e
           /\ Places(log, kind) \subseteq 1..Len(log)
           /\ Places(Append(log, e), kind) =
                IF e.kind = kind THEN Places(log, kind) \cup {Len(log) + 1} ELSE Places(log, kind)
<1>1. /\ Append(log, e) \in Seq(Entry)
      /\ Len(log) \in Nat
      /\ Len(Append(log, e)) = Len(log) + 1
      /\ \A k \in 1..Len(log) : Append(log, e)[k] = log[k]
      /\ Append(log, e)[Len(log) + 1] = e
  OBVIOUS
<1>2. Places(log, kind) \subseteq 1..Len(log)
  BY DEF Places
<1>3. 1..(Len(log) + 1) = 1..Len(log) \cup {Len(log) + 1}
  BY <1>1
<1>4. Places(Append(log, e), kind) =
        IF e.kind = kind THEN Places(log, kind) \cup {Len(log) + 1} ELSE Places(log, kind)
  BY <1>1, <1>3 DEF Places
<1>5. QED
  BY <1>1, <1>2, <1>4

\* An entry of another kind leaves a chain alone.
LEMMA ChainedOther ==
    ASSUME NEW log \in Seq(Entry), NEW e \in Entry, NEW kind, NEW current,
           e.kind # kind, Chained(log, kind, current)
    PROVE  Chained(Append(log, e), kind, current)
<1>1. Places(Append(log, e), kind) = Places(log, kind)
  BY PlacesAppend
<1>2. \A k \in Places(log, kind) : Append(log, e)[k] = log[k]
  BY PlacesAppend
<1>3. QED
  BY <1>1, <1>2 DEF Chained

\* An entry that starts at the current value extends the chain.
LEMMA ChainedAppend ==
    ASSUME NEW log \in Seq(Entry), NEW e \in Entry, NEW current,
           Chained(log, e.kind, current), e.from = current
    PROVE  Chained(Append(log, e), e.kind, e.to)
<1> DEFINE new == Append(log, e)
           n   == Len(log) + 1
           P   == Places(log, e.kind)
<1>1. /\ Places(new, e.kind) = P \cup {n}
      /\ n \in Nat
      /\ P \subseteq 1..(n - 1)
      /\ \A k \in P : new[k] = log[k]
      /\ new[n] = e
  BY PlacesAppend
<1> HIDE DEF new, n
<1>2. ASSUME NEW j \in P \cup {n}, NEW k \in P \cup {n}, j < k,
             \A m \in P \cup {n} : m <= j \/ k <= m
      PROVE  new[k].from = new[j].to
  <2>1. j \in P /\ new[j] = log[j]
    BY <1>1, <1>2
  <2>2. CASE k \in P
    BY <1>1, <1>2, <2>1, <2>2 DEF Chained
  <2>3. CASE k = n
    <3>1. \A m \in P : m <= j
      BY <1>1, <1>2, <2>3
    <3>2. log[j].to = current
      BY <2>1, <3>1 DEF Chained
    <3>3. QED
      BY <1>1, <2>1, <2>3, <3>2
  <2>4. QED
    BY <2>2, <2>3
<1>3. ASSUME NEW k \in P \cup {n}, \A m \in P \cup {n} : m <= k
      PROVE  new[k].to = e.to
  <2>1. k = n
    BY <1>1, <1>3
  <2>2. QED
    BY <1>1, <2>1
<1>4. QED
  BY <1>1, <1>2, <1>3 DEF Chained, new

\* The updates of a row give a row, and each touches its own columns only.
LEMMA RowUpdates ==
    /\ \A s \in Severities : NewIncident(s) \in Row
    /\ \A row \in Row, t \in Statuses :
          /\ WithStatus(row, t) \in Row
          /\ WithStatus(row, t).status = t
          /\ WithStatus(row, t).severity = row.severity
    /\ \A row \in Row, s \in Severities :
          /\ [row EXCEPT !.severity = s] \in Row
          /\ [row EXCEPT !.severity = s].status = row.status
          /\ [row EXCEPT !.severity = s].severity = s
    /\ \A row \in Row, who \in SUBSET People :
          /\ [row EXCEPT !.responders = who] \in Row
          /\ [row EXCEPT !.responders = who].status = row.status
          /\ [row EXCEPT !.responders = who].severity = row.severity
<1>1. \A s \in Severities : NewIncident(s) \in Row
  BY DEF NewIncident, Row, Statuses
<1>2. \A row \in Row, t \in Statuses :
          /\ WithStatus(row, t) \in Row
          /\ WithStatus(row, t).status = t
          /\ WithStatus(row, t).severity = row.severity
  BY DEF WithStatus, Row
<1>3. \A row \in Row, s \in Severities :
          /\ [row EXCEPT !.severity = s] \in Row
          /\ [row EXCEPT !.severity = s].status = row.status
          /\ [row EXCEPT !.severity = s].severity = s
  BY DEF Row
<1>4. \A row \in Row, who \in SUBSET People :
          /\ [row EXCEPT !.responders = who] \in Row
          /\ [row EXCEPT !.responders = who].status = row.status
          /\ [row EXCEPT !.responders = who].severity = row.severity
  BY DEF Row
<1>5. QED
  BY <1>1, <1>2, <1>3, <1>4

\* Each entry is of its own kind.
LEMMA EntryKinds ==
    /\ Detection \in Entry /\ Detection.kind = "detection"
    /\ \A from, to \in Statuses : StatusEntry(from, to) \in Entry
    /\ \A from, to : /\ StatusEntry(from, to).kind = "status"
                     /\ StatusEntry(from, to).from = from
                     /\ StatusEntry(from, to).to = to
    /\ \A from, to \in Severities : SeverityEntry(from, to) \in Entry
    /\ \A from, to : /\ SeverityEntry(from, to).kind = "severity"
                     /\ SeverityEntry(from, to).from = from
                     /\ SeverityEntry(from, to).to = to
    /\ \A who \in SUBSET People : RespondersEntry(who) \in Entry
    /\ \A who : RespondersEntry(who).kind = "responders"
    /\ \A type \in EntryTypes : Posted(type) \in Entry
    /\ \A type : Posted(type).kind = "posted"
  BY DEF Entry, Detection, StatusEntry, SeverityEntry, RespondersEntry, Posted

\* A timeline only grows, so a resolution entry stays.
LEMMA ResolutionStays ==
    ASSUME NEW log \in Seq(Entry), NEW e \in Entry, HasResolution(log)
    PROVE  HasResolution(Append(log, e))
  BY PlacesAppend DEF HasResolution

-----------------------------------------------------------------------------
(* Requests and answers *)

\* The fields of a request.
LEMMA RequestFields ==
    ASSUME NEW q \in Request
    PROVE  /\ q.op \in AllOps
           /\ q.incident \in Incidents
           /\ q.replica \in Replicas
           /\ q.arg \in Args[q.op]
           /\ q # Idle
  BY DEF Request, Idle, AllOps, Args

\* Any choice of fields makes a request.
LEMMA RequestMade ==
    ASSUME NEW o \in AllOps, NEW i \in Incidents, NEW a \in Args[o], NEW p \in Replicas
    PROVE  [op |-> o, incident |-> i, arg |-> a, replica |-> p] \in Request
  BY DEF Request

\* The arguments of each endpoint.
LEMMA ArgTypes ==
    /\ Args["declare"] \subseteq Severities
    /\ Args["status"] = Statuses
    /\ Args["severity"] \subseteq Severities
    /\ Args["responders"] \subseteq SUBSET People
    /\ Args["timeline"] = EntryTypes
  BY OpsAssumption DEF Args

\* An answer to a request is well formed.
LEMMA TellType ==
    ASSUME TypeOK, NEW r \in Requests, pc[r] # "idle", NEW code \in {200, 500, 503}, Tell(r, code)
    PROVE  told' \in SUBSET Answer
<1>1. req[r] \in Request
  BY DEF TypeOK
<1>2. /\ Op(r) \in AllOps
      /\ Inc(r) \in Incidents
      /\ Arg(r) \in Args[Op(r)]
  BY <1>1, RequestFields DEF Op, Inc, Arg
<1>3. [op |-> Op(r), incident |-> Inc(r), arg |-> Arg(r), code |-> code] \in Answer
  BY <1>2 DEF Answer
<1>4. QED
  BY <1>3 DEF Tell, TypeOK

\* Every handler's error code.
LEMMA ErrorCodes == \A o \in AllOps : ErrorCode[o] \in {200, 500, 503}
  BY DEF AllOps, ErrorCode

-----------------------------------------------------------------------------
(* Type correctness *)

\* The part of the type invariant about the requests.
RequestsOK == /\ pc \in [Requests -> PcValues]
              /\ req \in [Requests -> Request \cup {Idle}]
              /\ \A r \in Requests : pc[r] # "idle" => req[r] \in Request
              /\ seen \in [Requests -> Row \cup {NoRow}]

LocksOK == /\ advisory \in [Locks -> Requests \cup {Nobody}]
           /\ rowLock \in [Incidents -> Requests \cup {Nobody}]

StoreOK == /\ rows \in [Incidents -> Row \cup {NoRow}]
           /\ trail \in [Incidents -> Seq(Entry)]
           /\ postmortem \in [Incidents -> BOOLEAN]

RestOK == /\ clients \in SUBSET Requests
          /\ stream \in SUBSET [incident: Incidents, entry: Entry]
          /\ faults \in 0..MaxFaults

LEMMA TypeParts ==
    /\ TypeOK => RequestsOK /\ LocksOK /\ StoreOK /\ RestOK /\ told \in SUBSET Answer
    /\ RequestsOK' /\ LocksOK' /\ StoreOK' /\ RestOK' /\ told' \in SUBSET Answer => TypeOK'
  BY DEF TypeOK, RequestsOK, LocksOK, StoreOK, RestOK

LEMMA FinishType ==
    ASSUME TypeOK, NEW R \in SUBSET Requests, Finish(R)
    PROVE  RequestsOK'
  BY DEF TypeOK, RequestsOK, Finish, PcValues

LEMMA UnlockType ==
    ASSUME TypeOK, NEW R \in SUBSET Requests, Unlock(R)
    PROVE  LocksOK'
  BY DEF TypeOK, LocksOK, Unlock

LEMMA GotoType ==
    ASSUME TypeOK, NEW r \in Requests, pc[r] # "idle", NEW label \in PcValues, Goto(r, label),
           req' = req, seen' \in [Requests -> Row \cup {NoRow}]
    PROVE  RequestsOK'
  BY DEF TypeOK, RequestsOK, Goto

\* A request under way has an incident, a replica, and an endpoint of its statement.
LEMMA InFlight ==
    ASSUME IInv, NEW r \in Requests, pc[r] # "idle"
    PROVE  /\ req[r] \in Request
           /\ Op(r) \in AllOps
           /\ Inc(r) \in Incidents
           /\ Arg(r) \in Args[Op(r)]
           /\ req[r].replica \in Replicas
           /\ pc[r] \in PcValues
           /\ Op(r) \in OpsAt[pc[r]]
           /\ LocksHeld(r)
           /\ ReadHolds(r)
  BY RequestFields DEF IInv, TypeOK, Sound, Op, Inc, Arg

\* What a transaction that is about to commit relies on, by endpoint.
LEMMA AtCommit ==
    ASSUME IInv, NEW r \in Requests, pc[r] = "commit"
    PROVE  /\ rowLock[Inc(r)] = r
           /\ \/ /\ Op(r) = "declare"
                 /\ rows[Inc(r)] = NoRow
                 /\ Arg(r) \in Severities
              \/ /\ Op(r) = "status"
                 /\ advisory[LockOf[Inc(r)]] = r
                 /\ StillAllowed(r)
                 /\ seen[r] \in Row
                 /\ Arg(r) \in Statuses
              \/ /\ Op(r) = "severity"
                 /\ StillAccepted(r)
                 /\ Arg(r) \in Severities
              \/ /\ Op(r) = "responders"
                 /\ StillAccepted(r)
                 /\ Arg(r) \in SUBSET People
<1>1. Op(r) \in Txn
  BY InFlight DEF OpsAt
<1>2. LocksHeld(r) /\ ReadHolds(r) /\ Arg(r) \in Args[Op(r)]
  BY InFlight
<1>3. CASE Op(r) = "declare"
  BY <1>2, <1>3, ArgTypes DEF LocksHeld, ReadHolds, Declaring
<1>4. CASE Op(r) = "status"
  BY <1>2, <1>4, ArgTypes DEF LocksHeld, ReadHolds
<1>5. CASE Op(r) \in Locking
  BY <1>2, <1>5, ArgTypes DEF LocksHeld, ReadHolds, Locking
<1>6. QED
  BY <1>1, <1>3, <1>4, <1>5 DEF Txn, Locking

\* What a transaction writes is a row and an entry.
LEMMA WrittenType ==
    ASSUME IInv, NEW r \in Requests, pc[r] = "commit"
    PROVE  Written(r) \in Row
<1>1. CASE Op(r) = "declare"
  BY <1>1, AtCommit, RowUpdates DEF Written
<1>2. CASE Op(r) = "status"
  BY <1>2, AtCommit, RowUpdates DEF Written, StillAllowed
<1>3. CASE Op(r) = "severity"
  BY <1>3, AtCommit, RowUpdates DEF Written, StillAccepted
<1>4. CASE Op(r) = "responders"
  <2>1. /\ rows[Inc(r)] \in Row
        /\ seen[r].responders \cup Arg(r) \in SUBSET People
    BY <1>4, AtCommit DEF StillAccepted, Row
  <2>2. QED
    BY <1>4, <2>1, RowUpdates DEF Written
<1>5. QED
  BY <1>1, <1>2, <1>3, <1>4, AtCommit

LEMMA EntryOfType ==
    ASSUME IInv, NEW r \in Requests, pc[r] \in {"commit", "publish"}
    PROVE  EntryOf(r) \in Entry
<1>1. Op(r) \in Txn /\ Arg(r) \in Args[Op(r)]
  BY InFlight DEF OpsAt
<1>2. Op(r) # "declare" => seen[r] \in Row
  BY InFlight DEF ReadHolds
<1>3. CASE Op(r) = "declare"
  BY <1>3, EntryKinds DEF EntryOf
<1>4. CASE Op(r) = "status"
  BY <1>1, <1>2, <1>4, ArgTypes, EntryKinds DEF EntryOf, Row
<1>5. CASE Op(r) = "severity"
  BY <1>1, <1>2, <1>5, ArgTypes, EntryKinds DEF EntryOf, Row
<1>6. CASE Op(r) = "responders"
  BY <1>1, <1>2, <1>6, ArgTypes, EntryKinds DEF EntryOf, Row, Recorded
<1>7. QED
  BY <1>1, <1>3, <1>4, <1>5, <1>6 DEF Txn

LEMMA ApplyType ==
    ASSUME IInv, NEW r \in Requests, pc[r] = "commit", Apply(r)
    PROVE  StoreOK'
  BY WrittenType, EntryOfType, InFlight DEF IInv, TypeOK, StoreOK, Apply

LEMMA AppendPostedType ==
    ASSUME IInv, NEW r \in Requests, pc[r] # "idle", Op(r) = "timeline", AppendPosted(r)
    PROVE  StoreOK'
<1>1. Posted(Arg(r)) \in Entry
  BY InFlight, ArgTypes, EntryKinds
<1>2. QED
  BY <1>1, InFlight DEF IInv, TypeOK, StoreOK, AppendPosted

LEMMA Unchanged ==
    ASSUME TypeOK
    PROVE  /\ UNCHANGED store => StoreOK'
           /\ UNCHANGED locks => LocksOK'
           /\ UNCHANGED <<pc, req, seen>> => RequestsOK'
           /\ UNCHANGED told => told' \in SUBSET Answer
  BY DEF TypeOK, StoreOK, LocksOK, RequestsOK, store, locks

LEMMA RestType ==
    ASSUME TypeOK, NEW R \in SUBSET Requests,
           clients' = clients \/ clients' = clients \ R \/ clients' = clients \cup R,
           stream' = stream, faults' = faults \/ Fault
    PROVE  RestOK'
<1>1. faults' \in 0..MaxFaults
  BY BoundAssumption DEF TypeOK, Fault
<1>2. QED
  BY <1>1 DEF TypeOK, RestOK

\* The steps of the transaction handlers keep the types.
LEMMA TxnTypes ==
    ASSUME IInv, NEW r \in Requests,
           \/ Connect(r) \/ AcquireAdvisory(r) \/ ReadStatus(r) \/ CheckResolution(r)
           \/ SelectForUpdate(r) \/ Write(r) \/ Commit(r) \/ Reselect(r) \/ Publish(r)
           \/ Rollback(r)
    PROVE  TypeOK'
<1> USE DEF IInv
<1>0. pc[r] # "idle"
  BY DEF Connect, AcquireAdvisory, ReadStatus, CheckResolution, SelectForUpdate, Write, Commit,
         Reselect, Publish, Rollback, At
<1>a. /\ Inc(r) \in Incidents
      /\ LockOf[Inc(r)] \in Locks
      /\ rows[Inc(r)] \in Row \cup {NoRow}
  BY <1>0, InFlight, LockAssumption DEF TypeOK
<1>1. CASE Connect(r)
  <2>1. RequestsOK'
    BY <1>0, <1>1, GotoType DEF Connect, TypeOK, PcValues
  <2>2. RestOK'
    BY <1>1, RestType DEF Connect
  <2>3. QED
    BY <1>1, <2>1, <2>2, TypeParts, Unchanged DEF Connect
<1>2. CASE AcquireAdvisory(r)
  <2>1. LocksOK'
    BY <1>2, <1>a DEF AcquireAdvisory, TypeOK, LocksOK
  <2>2. QED
    BY <1>0, <1>2, <2>1, TypeParts, GotoType, Unchanged, RestType DEF AcquireAdvisory, TypeOK, PcValues
<1>3. CASE ReadStatus(r)
  <2>1. seen' \in [Requests -> Row \cup {NoRow}]
    BY <1>3, <1>a DEF ReadStatus, TypeOK
  <2>2. QED
    BY <1>0, <1>3, <2>1, TypeParts, GotoType, Unchanged, RestType DEF ReadStatus, PcValues
<1>4. CASE CheckResolution(r)
  BY <1>0, <1>4, TypeParts, GotoType, Unchanged, RestType DEF CheckResolution, TypeOK, PcValues
<1>5. CASE SelectForUpdate(r)
  <2>1. LocksOK'
    BY <1>5, <1>a DEF SelectForUpdate, TypeOK, LocksOK
  <2>2. seen' \in [Requests -> Row \cup {NoRow}]
    BY <1>5, <1>a DEF SelectForUpdate, TypeOK
  <2>3. QED
    BY <1>0, <1>5, <2>1, <2>2, TypeParts, GotoType, Unchanged, RestType DEF SelectForUpdate, PcValues
<1>6. CASE Write(r)
  <2>1. LocksOK'
    BY <1>6, <1>a DEF Write, TypeOK, LocksOK
  <2>2. QED
    BY <1>0, <1>6, <2>1, TypeParts, GotoType, Unchanged, RestType DEF Write, TypeOK, PcValues
<1>7. CASE Commit(r)
  <2>1. StoreOK'
    BY <1>7, ApplyType DEF Commit, At
  <2>2. LocksOK'
    BY <1>7, UnlockType DEF Commit
  <2>3. RequestsOK'
    BY <1>0, <1>7, GotoType DEF Commit, TypeOK, PcValues
  <2>4. told' \in SUBSET Answer
    BY <1>0, <1>7, TellType DEF Commit, TypeOK
  <2>5. RestOK'
    BY <1>7, RestType DEF Commit
  <2>6. QED
    BY <2>1, <2>2, <2>3, <2>4, <2>5, TypeParts
<1>8. CASE Reselect(r)
  <2>1. told' \in SUBSET Answer
    BY <1>0, <1>8, TellType DEF Reselect
  <2>2. RequestsOK'
    BY <1>0, <1>8, GotoType DEF Reselect, TypeOK, PcValues
  <2>3. RestOK'
    BY <1>8, RestType DEF Reselect
  <2>4. QED
    BY <1>8, <2>1, <2>2, <2>3, TypeParts, Unchanged DEF Reselect
<1>9. CASE Publish(r)
  <2>1. RestOK'
    BY <1>9, <1>a, EntryOfType DEF Publish, At, TypeOK, RestOK
  <2>2. QED
    BY <1>9, <2>1, TypeParts, FinishType, Unchanged DEF Publish
<1>10. CASE Rollback(r)
  BY <1>10, TypeParts, FinishType, UnlockType, Unchanged, RestType DEF Rollback
<1>11. QED
  BY <1>1, <1>2, <1>3, <1>4, <1>5, <1>6, <1>7, <1>8, <1>9, <1>10

\* So do those of the single-statement handlers.
LEMMA StatementTypes ==
    ASSUME IInv, NEW r \in Requests,
           Find(r) \/ FindExisting(r) \/ TakeClient(r) \/ InsertEntry(r) \/ InsertPostMortem(r)
             \/ FetchTimeline(r)
    PROVE  TypeOK'
<1> USE DEF IInv
<1>0. pc[r] # "idle"
  BY DEF Find, FindExisting, TakeClient, InsertEntry, InsertPostMortem, FetchTimeline, At
<1>a. Op(r) \in AllOps /\ Inc(r) \in Incidents
  BY <1>0, InFlight
<1>1. CASE Find(r)
  <2>1. RequestsOK'
    BY <1>0, <1>1, GotoType, FinishType DEF Find, TypeOK, PcValues
  <2>2. QED
    BY <1>1, <2>1, TypeParts, Unchanged, RestType DEF Find
<1>2. CASE FindExisting(r)
  <2>1. RequestsOK'
    BY <1>0, <1>2, GotoType, FinishType DEF FindExisting, TypeOK, PcValues
  <2>2. QED
    BY <1>2, <2>1, TypeParts, Unchanged, RestType DEF FindExisting
<1>3. CASE TakeClient(r)
  <2>1. RequestsOK'
    BY <1>0, <1>3, GotoType DEF TakeClient, TypeOK, PcValues
  <2>2. RestOK'
    BY <1>3, RestType DEF TakeClient
  <2>3. QED
    BY <1>3, <2>1, <2>2, TypeParts, Unchanged DEF TakeClient
<1>4. CASE InsertEntry(r)
  <2>1. StoreOK'
    BY <1>0, <1>4, AppendPostedType DEF InsertEntry
  <2>2. told' \in SUBSET Answer
    BY <1>0, <1>4, TellType DEF InsertEntry
  <2>3. QED
    BY <1>4, <2>1, <2>2, TypeParts, FinishType, Unchanged, RestType DEF InsertEntry
<1>5. CASE InsertPostMortem(r)
  <2>1. StoreOK'
    BY <1>5, <1>a DEF InsertPostMortem, TypeOK, StoreOK
  <2>2. told' \in SUBSET Answer
    <3>1. ErrorCode[Op(r)] \in {200, 500, 503}
      BY <1>a, ErrorCodes
    <3>2. CASE Tell(r, ErrorCode[Op(r)])
      BY <1>0, <3>1, <3>2, TellType
    <3>3. CASE UNCHANGED told
      BY <3>3, Unchanged
    <3>4. QED
      BY <1>5, <3>2, <3>3 DEF InsertPostMortem
  <2>3. RequestsOK'
    BY <1>0, <1>5, GotoType, FinishType DEF InsertPostMortem, TypeOK, PcValues
  <2>4. LocksOK' /\ RestOK'
    BY <1>5, Unchanged, RestType DEF InsertPostMortem
  <2>5. QED
    BY <2>1, <2>2, <2>3, <2>4, TypeParts
<1>6. CASE FetchTimeline(r)
  <2>1. told' \in SUBSET Answer
    BY <1>0, <1>6, TellType DEF FetchTimeline
  <2>2. QED
    BY <1>6, <2>1, TypeParts, FinishType, Unchanged, RestType DEF FetchTimeline
<1>7. QED
  BY <1>1, <1>2, <1>3, <1>4, <1>5, <1>6

LEMMA DropType ==
    ASSUME TypeOK, NEW R \in SUBSET Requests, Drop(R), stream' = stream, Fault
    PROVE  RequestsOK' /\ LocksOK' /\ RestOK'
  BY FinishType, UnlockType, RestType DEF Drop

\* And so do the faults.
LEMMA FaultTypes ==
    ASSUME IInv,
           \/ \E r \in Requests : Faulty(r)
           \/ \E p \in Replicas : Crash(p)
    PROVE  TypeOK'
<1> USE DEF IInv
<1>1. ASSUME NEW r \in Requests, pc[r] # "idle"
      PROVE  Tell(r, ErrorCode[Op(r)]) => told' \in SUBSET Answer
  BY <1>1, InFlight, ErrorCodes, TellType
<1>2. ASSUME NEW r \in Requests, StatementFails(r)
      PROVE  TypeOK'
  <2>1. told' \in SUBSET Answer
    BY <1>1, <1>2 DEF StatementFails
  <2>2. RestOK'
    BY <1>2, RestType DEF StatementFails
  <2>3. QED
    BY <1>2, <2>1, <2>2, TypeParts, FinishType, UnlockType, Unchanged DEF StatementFails
<1>3. ASSUME NEW r \in Requests, CommitUnacknowledged(r)
      PROVE  TypeOK'
  <2>1. StoreOK'
    BY <1>3, ApplyType DEF CommitUnacknowledged, At
  <2>2. told' \in SUBSET Answer
    BY <1>1, <1>3, Unchanged DEF CommitUnacknowledged, At
  <2>3. PICK R \in SUBSET Requests : Drop(R)
    BY <1>3 DEF CommitUnacknowledged, Served
  <2>4. QED
    BY <1>3, <2>1, <2>2, <2>3, TypeParts, DropType DEF CommitUnacknowledged
<1>4. ASSUME NEW r \in Requests, InsertUnacknowledged(r)
      PROVE  TypeOK'
  <2>1. Inc(r) \in Incidents
    BY <1>4, InFlight DEF InsertUnacknowledged, At
  <2>2. StoreOK'
    <3>1. CASE Op(r) = "timeline" /\ AppendPosted(r)
      BY <1>4, <3>1, AppendPostedType DEF InsertUnacknowledged, At
    <3>2. CASE postmortem' = [postmortem EXCEPT ![Inc(r)] = TRUE] /\ UNCHANGED <<rows, trail>>
      BY <2>1, <3>2 DEF TypeOK, StoreOK
    <3>3. QED
      BY <1>4, <3>1, <3>2 DEF InsertUnacknowledged
  <2>3. told' \in SUBSET Answer
    BY <1>1, <1>4 DEF InsertUnacknowledged, At
  <2>4. RestOK'
    BY <1>4, RestType DEF InsertUnacknowledged
  <2>5. QED
    BY <1>4, <2>2, <2>3, <2>4, TypeParts, FinishType, Unchanged DEF InsertUnacknowledged
<1>5. ASSUME NEW r \in Requests, PublishFails(r)
      PROVE  TypeOK'
  <2>1. RestOK'
    BY <1>5, RestType DEF PublishFails
  <2>2. QED
    BY <1>5, <2>1, TypeParts, FinishType, Unchanged DEF PublishFails
<1>6. ASSUME NEW p \in Replicas, Crash(p)
      PROVE  TypeOK'
  <2>1. Served(p) \in SUBSET Requests
    BY DEF Served
  <2>2. QED
    BY <1>6, <2>1, TypeParts, DropType, Unchanged DEF Crash
<1>7. QED
  BY <1>2, <1>3, <1>4, <1>5, <1>6 DEF Faulty

LEMMA ArriveTypes ==
    ASSUME IInv, NEW r \in Requests, NEW i \in Incidents, NEW o \in Ops, NEW a \in Args[o],
           NEW p \in Replicas, Arrive(r, i, o, a, p)
    PROVE  TypeOK'
<1> USE DEF IInv
<1>1. [op |-> o, incident |-> i, arg |-> a, replica |-> p] \in Request
  BY RequestMade, OpsAssumption
<1>2. RequestsOK'
  BY <1>1 DEF Arrive, Goto, TypeOK, RequestsOK, PcValues
<1>3. RestOK'
  BY DEF Arrive, TypeOK, RestOK
<1>4. QED
  BY <1>2, <1>3, TypeParts, Unchanged DEF Arrive

LEMMA NextTypes == IInv /\ Next => TypeOK'
  BY TxnTypes, StatementTypes, FaultTypes, ArriveTypes DEF Next, Step

-----------------------------------------------------------------------------
(* What the steps of others leave to a request *)

\* The step changes nothing that c still relies on.
Steady(c) ==
    LET row == rows[Inc(c)]
        new == rows'[Inc(c)]
    IN  /\ row \in Row => new \in Row
        /\ row \in Row /\ row.status \notin Active => new.status \notin Active
        /\ Op(c) = "status" /\ pc[c] \in {"check", "write", "commit"} => new.status = row.status
        /\ Op(c) \in Locking /\ pc[c] \in {"write", "commit"} => new = row
        /\ Declaring(c) => new = row
        /\ HasResolution(trail[Inc(c)]) => HasResolution(trail'[Inc(c)])

\* The step leaves c where it is and takes none of its locks.
Untouched(c) ==
    /\ pc'[c] = pc[c] /\ req'[c] = req[c] /\ seen'[c] = seen[c]
    /\ pc[c] # "idle" =>
          /\ advisory[LockOf[Inc(c)]] = c => advisory'[LockOf[Inc(c)]] = c
          /\ rowLock[Inc(c)] = c => rowLock'[Inc(c)] = c

LEMMA SoundStays ==
    ASSUME IInv, NEW c \in Requests, Untouched(c), pc[c] # "idle" => Steady(c)
    PROVE  Sound(c)'
<1>1. CASE pc[c] = "idle"
  BY <1>1 DEF Sound, Untouched
<1>2. CASE pc[c] # "idle"
  <2>1. /\ Op(c)' = Op(c) /\ Inc(c)' = Inc(c) /\ Arg(c)' = Arg(c)
        /\ pc'[c] = pc[c] /\ seen'[c] = seen[c]
    BY DEF Untouched, Op, Inc, Arg
  <2>2. Op(c) \in OpsAt[pc[c]] /\ LocksHeld(c) /\ ReadHolds(c) /\ Steady(c)
    BY <1>2, InFlight
  <2>3. (Op(c) \in OpsAt[pc[c]])'
    BY <2>1, <2>2 DEF OpsAt
  <2>4. LocksHeld(c)'
    BY <1>2, <2>1, <2>2 DEF LocksHeld, Untouched
  <2>5. ReadHolds(c)'
    <3>1. Op(c) = "status" /\ pc[c] \in {"check", "write", "commit"} => StillAllowed(c)'
      BY <2>1, <2>2 DEF ReadHolds, StillAllowed, Steady
    <3>2. Op(c) \in Locking /\ pc[c] \in {"write", "commit"} => StillAccepted(c)'
      BY <2>1, <2>2 DEF ReadHolds, StillAccepted, Steady
    <3>3. QED
      BY <2>1, <2>2, <3>1, <3>2 DEF ReadHolds, Steady, Declaring
  <2>6. QED
    BY <2>3, <2>4, <2>5 DEF Sound
<1>3. QED
  BY <1>1, <1>2

\* A step of the requests of R keeps every request sound if it leaves the others
\* alone and its own sound.
LEMMA OthersStay ==
    ASSUME IInv, NEW R \in SUBSET Requests,
           \A c \in Requests \ R : Untouched(c) /\ (pc[c] # "idle" => Steady(c)),
           \A r \in R : Sound(r)' /\ (Declaring(r)' => Declaring(r) /\ req'[r] = req[r])
    PROVE  (\A c \in Requests : Sound(c))' /\ OneDeclaration'
<1>1. \A c \in Requests : Sound(c)'
  BY SoundStays
<1>2. \A c \in Requests : Declaring(c)' => Declaring(c) /\ Inc(c)' = Inc(c)
  BY DEF Untouched, Declaring, Op, Inc
<1>3. OneDeclaration'
  BY <1>2 DEF IInv, OneDeclaration
<1>4. QED
  BY <1>1, <1>3

\* A step that leaves the tables alone disturbs nobody.
LEMMA StoreUnchanged ==
    ASSUME UNCHANGED <<rows, trail>>, NEW c \in Requests
    PROVE  Steady(c)
  BY DEF Steady

\* Nor does a COMMIT: the locks that c holds keep it from the columns c read.
LEMMA ApplySteady ==
    ASSUME IInv, NEW r \in Requests, pc[r] = "commit", Apply(r),
           NEW c \in Requests, c # r, pc[c] # "idle"
    PROVE  Steady(c)
<1>1. CASE Inc(c) # Inc(r)
  BY <1>1, InFlight DEF IInv, TypeOK, Apply, Steady
<1>2. CASE Inc(c) = Inc(r)
  <2> DEFINE i   == Inc(c)
             row == rows[i]
  <2>1. /\ i \in Incidents
        /\ rows'[i] = Written(r)
        /\ trail'[i] = Append(trail[i], EntryOf(r))
        /\ trail[i] \in Seq(Entry)
        /\ EntryOf(r) \in Entry
    BY <1>2, InFlight, EntryOfType DEF IInv, TypeOK, Apply
  <2>2. HasResolution(trail[i]) => HasResolution(trail'[i])
    BY <2>1, ResolutionStays
  <2>3. Written(r) \in Row
    BY WrittenType
  <2>4. /\ Op(c) = "status" /\ pc[c] \in {"check", "write", "commit"} => advisory[LockOf[i]] = c /\ row \in Row
        /\ Op(c) \in Locking /\ pc[c] \in {"write", "commit"} => rowLock[i] = c
    BY InFlight DEF LocksHeld, ReadHolds, StillAllowed
  <2>5. rowLock[i] = r
    BY <1>2, AtCommit
  <2>6. ~Declaring(c) \/ Op(r) # "declare"
    BY <1>2 DEF IInv, OneDeclaration, Declaring
  <2>7. CASE Op(r) = "declare"
    BY <1>2, <2>1, <2>2, <2>3, <2>4, <2>5, <2>6, <2>7, AtCommit, NoRowAssumption DEF Steady, Declaring
  <2>8. CASE Op(r) = "status"
    <3>1. row \in Row /\ advisory[LockOf[i]] = r /\ Arg(r) \in ValidTransitions[row.status]
      BY <1>2, <2>8, AtCommit DEF StillAllowed
    <3>2. Written(r).status = Arg(r)
      BY <1>2, <2>8, <3>1, AtCommit, RowUpdates DEF Written
    <3>3. row.status \notin Active => Arg(r) \notin Active
      BY <3>1 DEF Row, Statuses, Active, ValidTransitions
    <3>4. ~Declaring(c)
      BY <3>1, InFlight, NoRowAssumption DEF ReadHolds
    <3>5. QED
      BY <2>1, <2>2, <2>3, <2>4, <2>5, <3>1, <3>2, <3>3, <3>4 DEF Steady
  <2>9. CASE Op(r) \in Locking
    <3>1. row \in Row
      BY <1>2, <2>9, AtCommit DEF StillAccepted, Locking
    <3>2. Written(r).status = row.status
      <4>1. CASE Op(r) = "severity"
        BY <1>2, <3>1, <4>1 DEF Written, Row
      <4>2. CASE Op(r) = "responders"
        BY <1>2, <3>1, <4>2 DEF Written, Row
      <4>3. QED
        BY <2>9, <4>1, <4>2 DEF Locking
    <3>3. ~Declaring(c)
      BY <3>1, InFlight, NoRowAssumption DEF ReadHolds
    <3>4. QED
      BY <2>1, <2>2, <2>3, <2>4, <2>5, <3>1, <3>2, <3>3 DEF Steady
  <2>10. QED
    BY <2>7, <2>8, <2>9, AtCommit DEF Locking
<1>3. QED
  BY <1>1, <1>2

\* Nor does the INSERT of a timeline entry.
LEMMA AppendPostedSteady ==
    ASSUME IInv, NEW r \in Requests, pc[r] # "idle", Op(r) = "timeline", AppendPosted(r),
           NEW c \in Requests, pc[c] # "idle"
    PROVE  Steady(c)
<1>1. Posted(Arg(r)) \in Entry
  BY InFlight, ArgTypes, EntryKinds
<1>2. HasResolution(trail[Inc(c)]) => HasResolution(trail'[Inc(c)])
  BY <1>1, InFlight, ResolutionStays DEF IInv, TypeOK, AppendPosted
<1>3. rows' = rows
  BY DEF AppendPosted
<1>4. QED
  BY <1>2, <1>3 DEF Steady

-----------------------------------------------------------------------------
(* Every step keeps every request sound *)

AllSound == (\A c \in Requests : Sound(c)) /\ OneDeclaration

\* The requests that end, whatever the reason, disturb nobody.
LEMMA FinishSound ==
    ASSUME IInv, NEW R \in SUBSET Requests, Finish(R), Unlock(R) \/ UNCHANGED locks,
           \A c \in Requests \ R : pc[c] # "idle" => Steady(c)
    PROVE  AllSound'
<1>1. ASSUME NEW c \in Requests \ R
      PROVE  Untouched(c)
  <2>1. pc'[c] = pc[c] /\ req'[c] = req[c] /\ seen'[c] = seen[c]
    BY DEF Finish
  <2>2. ASSUME pc[c] # "idle"
        PROVE  /\ advisory[LockOf[Inc(c)]] = c => advisory'[LockOf[Inc(c)]] = c
               /\ rowLock[Inc(c)] = c => rowLock'[Inc(c)] = c
    BY <2>2, InFlight, LockAssumption DEF Unlock, locks
  <2>3. QED
    BY <2>1, <2>2 DEF Untouched
<1>2. ASSUME NEW r \in R
      PROVE  Sound(r)' /\ ~Declaring(r)'
  BY DEF Finish, Sound, Declaring
<1>3. QED
  BY <1>1, <1>2, OthersStay DEF AllSound

\* A request that goes on disturbs nobody if the others keep their locks.
LEMMA GotoSound ==
    ASSUME IInv, NEW r \in Requests, NEW label, Goto(r, label), req' = req,
           \A c \in Requests \ {r} : seen'[c] = seen[c],
           \A c \in Requests \ {r} : pc[c] # "idle" =>
               /\ advisory[LockOf[Inc(c)]] = c => advisory'[LockOf[Inc(c)]] = c
               /\ rowLock[Inc(c)] = c => rowLock'[Inc(c)] = c
               /\ Steady(c),
           Sound(r)', Declaring(r)' => Declaring(r)
    PROVE  AllSound'
<1>1. \A c \in Requests \ {r} : Untouched(c)
  BY DEF Goto, Untouched, IInv, TypeOK
<1>2. ASSUME NEW c \in {r}
      PROVE  Sound(c)' /\ (Declaring(c)' => Declaring(c) /\ req'[c] = req[c])
  <2>1. c = r
    OBVIOUS
  <2>2. QED
    BY <2>1
<1>3. \A c \in Requests \ {r} : pc[c] # "idle" => Steady(c)
  OBVIOUS
<1>4. {r} \in SUBSET Requests
  OBVIOUS
<1>5. QED
  BY <1>1, <1>2, <1>3, <1>4, OthersStay DEF AllSound

LEMMA ConnectSound ==
    ASSUME IInv, NEW r \in Requests, Connect(r)
    PROVE  AllSound'
<1>1. /\ pc[r] = "connect" /\ Op(r) \in Txn /\ ReadHolds(r)
      /\ Op(r)' = Op(r) /\ Inc(r)' = Inc(r)
      /\ pc'[r] = (IF Op(r) = "declare" THEN "write" ELSE IF Op(r) = "status" THEN "lock" ELSE "select")
  BY InFlight DEF Connect, At, Goto, OpsAt, IInv, TypeOK, Op, Inc
<1>2. Sound(r)'
  BY <1>1 DEF Sound, OpsAt, Txn, Locking, LocksHeld, ReadHolds, Declaring, Connect, store
<1>3. Declaring(r)' => Declaring(r)
  BY <1>1 DEF Declaring
<1>4. QED
  BY <1>2, <1>3, GotoSound, StoreUnchanged DEF Connect, locks, store

LEMMA AcquireAdvisorySound ==
    ASSUME IInv, NEW r \in Requests, AcquireAdvisory(r)
    PROVE  AllSound'
<1>1. /\ pc[r] = "lock" /\ Op(r) = "status" /\ Inc(r) \in Incidents /\ LockOf[Inc(r)] \in Locks
      /\ Op(r)' = Op(r) /\ Inc(r)' = Inc(r) /\ pc'[r] = "read"
      /\ advisory' = [advisory EXCEPT ![LockOf[Inc(r)]] = r]
      /\ advisory'[LockOf[Inc(r)]] = r
  BY InFlight, LockAssumption DEF AcquireAdvisory, At, Goto, OpsAt, IInv, TypeOK, Op, Inc
<1>2. Sound(r)'
  BY <1>1 DEF Sound, OpsAt, Locking, LocksHeld, ReadHolds, Declaring
<1>3. ASSUME NEW c \in Requests, pc[c] # "idle", advisory[LockOf[Inc(c)]] = c
      PROVE  advisory'[LockOf[Inc(c)]] = c
  <2>1. LockOf[Inc(c)] \in Locks /\ LockOf[Inc(c)] # LockOf[Inc(r)]
    BY <1>3, InFlight, LockAssumption DEF AcquireAdvisory
  <2>2. QED
    BY <1>1, <1>3, <2>1 DEF IInv, TypeOK
<1>4. ~Declaring(r)'
  BY <1>1 DEF Declaring
<1>5. QED
  BY <1>2, <1>3, <1>4, GotoSound, StoreUnchanged DEF AcquireAdvisory, store

LEMMA ReadStatusSound ==
    ASSUME IInv, NEW r \in Requests, ReadStatus(r)
    PROVE  AllSound'
<1> DEFINE row == rows[Inc(r)]
<1>1. /\ pc[r] = "read" /\ Op(r) = "status" /\ Inc(r) \in Incidents /\ row \in Row \cup {NoRow}
      /\ advisory[LockOf[Inc(r)]] = r
      /\ Op(r)' = Op(r) /\ Inc(r)' = Inc(r) /\ Arg(r)' = Arg(r)
      /\ pc'[r] = (IF ~Allowed(row, Arg(r)) THEN "rollback"
                   ELSE IF row.status = "mitigating" THEN "check" ELSE "write")
      /\ seen'[r] = row
  BY InFlight DEF ReadStatus, At, Goto, OpsAt, LocksHeld, IInv, TypeOK, Op, Inc, Arg
<1>2. UNCHANGED <<rows, trail, locks>>
  BY DEF ReadStatus, store
<1>3. Sound(r)'
  <2>1. CASE ~Allowed(row, Arg(r))
    BY <1>1, <2>1 DEF Sound, OpsAt, LocksHeld, ReadHolds, Locking, Declaring
  <2>2. CASE Allowed(row, Arg(r))
    <3>1. row \in Row /\ Arg(r) \in ValidTransitions[row.status]
      BY <1>1, <2>2 DEF Allowed
    <3>2. StillAllowed(r)' /\ pc'[r] \in {"check", "write"}
      BY <1>1, <1>2, <2>2, <3>1 DEF StillAllowed
    <3>3. QED
      BY <1>1, <1>2, <3>1, <3>2 DEF Sound, OpsAt, Txn, LocksHeld, ReadHolds, Locking, Declaring, locks
  <2>3. QED
    BY <2>1, <2>2
<1>4. ~Declaring(r)'
  BY <1>1 DEF Declaring
<1>5. QED
  BY <1>2, <1>3, <1>4, GotoSound, StoreUnchanged DEF ReadStatus, locks, IInv, TypeOK

LEMMA CheckResolutionSound ==
    ASSUME IInv, NEW r \in Requests, CheckResolution(r)
    PROVE  AllSound'
<1>1. /\ pc[r] = "check" /\ Op(r) = "status" /\ LocksHeld(r) /\ ReadHolds(r) /\ StillAllowed(r)
      /\ Op(r)' = Op(r) /\ Inc(r)' = Inc(r) /\ Arg(r)' = Arg(r)
      /\ pc'[r] = (IF HasResolution(trail[Inc(r)]) THEN "write" ELSE "rollback")
  BY InFlight DEF CheckResolution, At, Goto, OpsAt, ReadHolds, IInv, TypeOK, Op, Inc, Arg
<1>2. UNCHANGED <<rows, trail, seen, locks>>
  BY DEF CheckResolution, store
<1>3. Sound(r)'
  <2>1. CASE HasResolution(trail[Inc(r)])
    <3>1. StillAllowed(r)'
      BY <1>1, <1>2, <2>1 DEF StillAllowed
    <3>2. QED
      BY <1>1, <1>2, <2>1, <3>1 DEF Sound, OpsAt, Txn, LocksHeld, ReadHolds, Locking, Declaring, locks
  <2>2. CASE ~HasResolution(trail[Inc(r)])
    BY <1>1, <2>2 DEF Sound, OpsAt, LocksHeld, ReadHolds, Locking, Declaring
  <2>3. QED
    BY <2>1, <2>2
<1>4. ~Declaring(r)'
  BY <1>1 DEF Declaring
<1>5. QED
  BY <1>2, <1>3, <1>4, GotoSound, StoreUnchanged DEF CheckResolution, locks

\* Taking a free row lock takes it from nobody.
LEMMA RowLockTaken ==
    ASSUME IInv, NEW r \in Requests, Inc(r) \in Incidents, rowLock[Inc(r)] \in {Nobody, r},
           rowLock' = [rowLock EXCEPT ![Inc(r)] = r],
           NEW c \in Requests, c # r, pc[c] # "idle", rowLock[Inc(c)] = c
    PROVE  rowLock'[Inc(c)] = c
<1>1. Inc(c) \in Incidents /\ Inc(c) # Inc(r)
  BY InFlight, LockAssumption
<1>2. QED
  BY <1>1 DEF IInv, TypeOK

LEMMA SelectForUpdateSound ==
    ASSUME IInv, NEW r \in Requests, SelectForUpdate(r)
    PROVE  AllSound'
<1> DEFINE row == rows[Inc(r)]
<1>1. /\ pc[r] = "select" /\ Op(r) \in Locking /\ Inc(r) \in Incidents /\ row \in Row \cup {NoRow}
      /\ Op(r)' = Op(r) /\ Inc(r)' = Inc(r) /\ Arg(r)' = Arg(r)
  BY InFlight DEF SelectForUpdate, At, OpsAt, IInv, TypeOK, Op, Inc, Arg
<1>2. UNCHANGED <<rows, trail, advisory>> /\ req' = req
  BY DEF SelectForUpdate, store
<1>3. CASE row = NoRow
  <2>1. /\ Goto(r, "rollback") /\ pc'[r] = "rollback"
        /\ UNCHANGED <<rowLock, seen>>
    BY <1>1, <1>3 DEF SelectForUpdate, Goto, IInv, TypeOK
  <2>2. Sound(r)' /\ ~Declaring(r)'
    BY <1>1, <2>1 DEF Sound, OpsAt, LocksHeld, ReadHolds, Locking, Declaring
  <2>3. QED
    BY <1>2, <2>1, <2>2, GotoSound, StoreUnchanged
<1>4. CASE row # NoRow
  <2> DEFINE label == IF Accepts(row, Op(r), Arg(r)) THEN "write" ELSE "rollback"
  <2>1. /\ Goto(r, label) /\ pc'[r] = label
        /\ rowLock[Inc(r)] = Nobody
        /\ rowLock' = [rowLock EXCEPT ![Inc(r)] = r] /\ rowLock'[Inc(r)] = r
        /\ seen' = [seen EXCEPT ![r] = row] /\ seen'[r] = row
    BY <1>1, <1>4 DEF SelectForUpdate, Goto, IInv, TypeOK
  <2> HIDE DEF label
  <2>2. Sound(r)' /\ ~Declaring(r)'
    <3>1. CASE Accepts(row, Op(r), Arg(r))
      <4>1. StillAccepted(r)'
        BY <1>1, <1>2, <1>4, <2>1, <3>1 DEF StillAccepted
      <4>2. pc'[r] = "write"
        BY <2>1, <3>1 DEF label
      <4>3. QED
        BY <1>1, <1>4, <2>1, <4>1, <4>2 DEF Sound, OpsAt, Txn, LocksHeld, ReadHolds, Locking, Declaring
    <3>2. CASE ~Accepts(row, Op(r), Arg(r))
      <4>1. pc'[r] = "rollback"
        BY <2>1, <3>2 DEF label
      <4>2. QED
        BY <1>1, <4>1 DEF Sound, OpsAt, LocksHeld, ReadHolds, Locking, Declaring
    <3>3. QED
      BY <3>1, <3>2
  <2>3. \A c \in Requests \ {r} : seen'[c] = seen[c]
    BY <2>1 DEF IInv, TypeOK
  <2>4. \A c \in Requests \ {r} : pc[c] # "idle" => (rowLock[Inc(c)] = c => rowLock'[Inc(c)] = c)
    BY <1>1, <2>1, RowLockTaken
  <2>5. QED
    BY <1>2, <2>1, <2>2, <2>3, <2>4, GotoSound, StoreUnchanged
<1>5. QED
  BY <1>3, <1>4

LEMMA WriteSound ==
    ASSUME IInv, NEW r \in Requests, Write(r)
    PROVE  AllSound'
<1>1. /\ pc[r] = "write" /\ Op(r) \in Txn /\ Inc(r) \in Incidents /\ LocksHeld(r) /\ ReadHolds(r)
      /\ Op(r)' = Op(r) /\ Inc(r)' = Inc(r) /\ Arg(r)' = Arg(r)
      /\ pc'[r] = "commit" /\ rowLock'[Inc(r)] = r
  BY InFlight DEF Write, At, Goto, OpsAt, IInv, TypeOK, Op, Inc, Arg
<1>2. UNCHANGED <<rows, trail, seen, advisory>>
  BY DEF Write, store
<1>3. Op(r) = "status" => StillAllowed(r)'
  BY <1>1, <1>2 DEF ReadHolds, StillAllowed
<1>4. Op(r) \in Locking => StillAccepted(r)'
  BY <1>1, <1>2 DEF ReadHolds, StillAccepted
<1>5. Sound(r)'
  BY <1>1, <1>2, <1>3, <1>4 DEF Sound, OpsAt, Txn, LocksHeld, ReadHolds, Declaring
<1>6. Declaring(r)' => Declaring(r)
  BY <1>1 DEF Declaring
<1>7. \A c \in Requests \ {r} : pc[c] # "idle" => (rowLock[Inc(c)] = c => rowLock'[Inc(c)] = c)
  BY <1>1, RowLockTaken DEF Write
<1>8. QED
  BY <1>2, <1>5, <1>6, <1>7, GotoSound, StoreUnchanged DEF Write

LEMMA CommitSound ==
    ASSUME IInv, NEW r \in Requests, Commit(r)
    PROVE  AllSound'
<1>1. /\ pc[r] = "commit" /\ Op(r) \in Txn /\ ReadHolds(r)
      /\ Op(r)' = Op(r) /\ seen' = seen /\ req' = req
  BY InFlight DEF Commit, At, OpsAt, Op
<1>2. PICK label \in {"reselect", "publish"} :
          /\ Goto(r, label)
          /\ label = "reselect" => Op(r) \in Locking
  BY DEF Commit
<1>3. pc'[r] = label
  BY <1>2 DEF Goto, IInv, TypeOK
<1>4. Sound(r)' /\ ~Declaring(r)'
  BY <1>1, <1>2, <1>3 DEF Sound, OpsAt, Txn, Locking, LocksHeld, ReadHolds, Declaring
<1>5. ASSUME NEW c \in Requests \ {r}, pc[c] # "idle"
      PROVE  /\ advisory[LockOf[Inc(c)]] = c => advisory'[LockOf[Inc(c)]] = c
             /\ rowLock[Inc(c)] = c => rowLock'[Inc(c)] = c
             /\ Steady(c)
  BY <1>1, <1>5, InFlight, LockAssumption, ApplySteady DEF Commit, Unlock
<1>6. QED
  BY <1>1, <1>2, <1>4, <1>5, GotoSound

LEMMA ReselectSound ==
    ASSUME IInv, NEW r \in Requests, Reselect(r)
    PROVE  AllSound'
<1>1. /\ pc[r] = "reselect" /\ Op(r) \in Locking /\ ReadHolds(r)
      /\ Op(r)' = Op(r) /\ pc'[r] = "publish" /\ seen' = seen
  BY InFlight DEF Reselect, At, Goto, OpsAt, IInv, TypeOK, Op
<1>2. Sound(r)' /\ ~Declaring(r)'
  BY <1>1 DEF Sound, OpsAt, Txn, Locking, LocksHeld, ReadHolds, Declaring
<1>3. QED
  BY <1>1, <1>2, GotoSound, StoreUnchanged DEF Reselect, store, locks

\* Publish, Rollback and the answers that end a request without touching a row.
LEMMA EndSound ==
    ASSUME IInv, NEW r \in Requests,
           Publish(r) \/ Rollback(r) \/ FetchTimeline(r) \/ StatementFails(r) \/ PublishFails(r)
    PROVE  AllSound'
<1>1. UNCHANGED <<rows, trail>>
  BY DEF Publish, Rollback, FetchTimeline, StatementFails, PublishFails, store
<1>2. Finish({r}) /\ (Unlock({r}) \/ UNCHANGED locks)
  BY DEF Publish, Rollback, FetchTimeline, StatementFails, PublishFails
<1>3. {r} \in SUBSET Requests
  OBVIOUS
<1>4. QED
  BY <1>1, <1>2, <1>3, FinishSound, StoreUnchanged

LEMMA FindSound ==
    ASSUME IInv, NEW r \in Requests, Find(r)
    PROVE  AllSound'
<1>1. /\ pc[r] = "find" /\ Op(r) \in {"timeline", "postmortem"} /\ Inc(r) \in Incidents
      /\ rows[Inc(r)] \in Row \cup {NoRow}
  BY InFlight DEF Find, At, OpsAt, IInv, TypeOK
<1>2. UNCHANGED <<rows, trail, advisory, rowLock>>
  BY DEF Find, store, locks
<1>3. CASE Finish({r})
  BY <1>2, <1>3, FinishSound, StoreUnchanged DEF locks
<1>4. CASE ~Finish({r})
  <2> DEFINE label == IF Op(r) = "postmortem" THEN "existing" ELSE "take"
  <2>1. /\ ~Refuses(rows[Inc(r)], Op(r))
        /\ Goto(r, label) /\ pc'[r] = label /\ req' = req /\ seen' = seen
        /\ Op(r)' = Op(r) /\ Inc(r)' = Inc(r)
    BY <1>4 DEF Find, Goto, IInv, TypeOK, Op, Inc
  <2>2. /\ rows[Inc(r)] \in Row
        /\ Op(r) = "postmortem" => rows[Inc(r)].status \notin Active
    BY <1>1, <2>1 DEF Refuses
  <2>3. Sound(r)' /\ ~Declaring(r)'
    BY <1>1, <1>2, <2>1, <2>2 DEF Sound, OpsAt, LocksHeld, ReadHolds, Locking, Declaring
  <2> HIDE DEF label
  <2>4. QED
    BY <1>2, <2>1, <2>3, GotoSound, StoreUnchanged
<1>5. QED
  BY <1>3, <1>4

\* A post-mortem or a timeline entry that goes on to its next statement.
LEMMA StatementSound ==
    ASSUME IInv, NEW r \in Requests, NEW label \in {"take", "insert", "fetch"}, Goto(r, label),
           pc[r] \in {"existing", "take", "insert"}, label = "fetch" => Op(r) = "postmortem",
           UNCHANGED <<rows, trail, locks, req, seen>>
    PROVE  AllSound'
<1>1. /\ Op(r) \in {"timeline", "postmortem"} /\ ReadHolds(r)
      /\ Op(r)' = Op(r) /\ Inc(r)' = Inc(r) /\ pc'[r] = label
  BY InFlight DEF Goto, OpsAt, IInv, TypeOK, Op, Inc
<1>2. Sound(r)' /\ ~Declaring(r)'
  BY <1>1 DEF Sound, OpsAt, LocksHeld, ReadHolds, Locking, Declaring
<1>3. QED
  BY <1>1, <1>2, GotoSound, StoreUnchanged DEF locks

LEMMA PostMortemSound ==
    ASSUME IInv, NEW r \in Requests, FindExisting(r) \/ TakeClient(r) \/ InsertPostMortem(r)
    PROVE  AllSound'
<1>1. UNCHANGED <<rows, trail, locks>>
  BY DEF FindExisting, TakeClient, InsertPostMortem, store
<1>2. CASE Finish({r})
  BY <1>1, <1>2, FinishSound, StoreUnchanged
<1>3. CASE ~Finish({r})
  <2>1. PICK label \in {"take", "insert", "fetch"} :
            Goto(r, label) /\ (label = "fetch" => Op(r) = "postmortem")
    BY <1>3 DEF FindExisting, TakeClient, InsertPostMortem
  <2>2. pc[r] \in {"existing", "take", "insert"} /\ UNCHANGED <<req, seen>>
    BY <1>3 DEF FindExisting, TakeClient, InsertPostMortem, At
  <2>3. QED
    BY <1>1, <2>1, <2>2, StatementSound
<1>4. QED
  BY <1>2, <1>3

LEMMA InsertSound ==
    ASSUME IInv, NEW r \in Requests, InsertEntry(r) \/ InsertUnacknowledged(r)
    PROVE  AllSound'
<1>1. pc[r] = "insert" /\ Finish({r}) /\ UNCHANGED locks
  BY DEF InsertEntry, InsertUnacknowledged, At
<1>2. ASSUME NEW c \in Requests, pc[c] # "idle"
      PROVE  Steady(c)
  BY <1>1, <1>2, AppendPostedSteady, StoreUnchanged DEF InsertEntry, InsertUnacknowledged
<1>3. QED
  BY <1>1, <1>2, FinishSound

LEMMA CommitUnacknowledgedSound ==
    ASSUME IInv, NEW r \in Requests, CommitUnacknowledged(r)
    PROVE  AllSound'
<1>1. PICK R \in SUBSET Requests : r \in R /\ Drop(R)
  <2>1. r \in Served(req[r].replica)
    BY DEF CommitUnacknowledged, At, Served
  <2>2. Served(req[r].replica) \in SUBSET Requests
    BY DEF Served
  <2>3. QED
    BY <2>1, <2>2 DEF CommitUnacknowledged
<1>2. \A c \in Requests \ R : pc[c] # "idle" => Steady(c)
  BY <1>1, ApplySteady DEF CommitUnacknowledged, At
<1>3. QED
  BY <1>1, <1>2, FinishSound DEF Drop

LEMMA CrashSound ==
    ASSUME IInv, NEW p \in Replicas, Crash(p)
    PROVE  AllSound'
<1>1. UNCHANGED <<rows, trail>> /\ Drop(Served(p)) /\ Served(p) \in SUBSET Requests
  BY DEF Crash, store, Served
<1>2. QED
  BY <1>1, FinishSound, StoreUnchanged DEF Drop

LEMMA ArriveSound ==
    ASSUME IInv, NEW r \in Requests, NEW i \in Incidents, NEW o \in Ops, NEW a \in Args[o],
           NEW p \in Replicas, Arrive(r, i, o, a, p)
    PROVE  AllSound'
<1>1. /\ pc[r] = "idle"
      /\ pc'[r] = (IF o \in Txn THEN "connect" ELSE "find")
      /\ Op(r)' = o /\ Inc(r)' = i
      /\ o = "declare" => Fresh(i)
      /\ o \in AllOps
  BY OpsAssumption DEF Arrive, At, Goto, IInv, TypeOK, Op, Inc
<1>2. UNCHANGED <<rows, trail, advisory, rowLock, seen>>
  BY DEF Arrive, store, locks
<1>3. Sound(r)'
  BY <1>1, <1>2 DEF Sound, OpsAt, AllOps, Txn, Locking, LocksHeld, ReadHolds, Declaring, Fresh
<1>4. ASSUME NEW c \in Requests, c # r
      PROVE  /\ pc'[c] = pc[c] /\ req'[c] = req[c]
             /\ Sound(c)'
             /\ Declaring(c)' => Declaring(c) /\ Inc(c)' = Inc(c) /\ (o = "declare" => Inc(c) # i)
  <2>1. pc'[c] = pc[c] /\ req'[c] = req[c]
    BY <1>4 DEF Arrive, Goto, IInv, TypeOK
  <2>2. Sound(c)'
    BY <1>2, <2>1, SoundStays, StoreUnchanged DEF Untouched
  <2>3. Declaring(c)' => Declaring(c) /\ Inc(c)' = Inc(c)
    BY <2>1 DEF Declaring, Op, Inc
  <2>4. Declaring(c) => req[c] # Idle
    BY InFlight, RequestFields DEF Declaring
  <2>5. QED
    BY <1>1, <2>1, <2>2, <2>3, <2>4 DEF Fresh, Inc
<1>5. OneDeclaration'
  <2>1. ASSUME NEW c \in Requests, NEW d \in Requests, Declaring(c)', Declaring(d)',
               Inc(c)' = Inc(d)', c # d
        PROVE  FALSE
    <3>1. Declaring(r)' => o = "declare"
      BY <1>1 DEF Declaring
    <3>2. CASE c = r
      BY <1>1, <1>4, <2>1, <3>1, <3>2
    <3>3. CASE d = r
      BY <1>1, <1>4, <2>1, <3>1, <3>3
    <3>4. CASE c # r /\ d # r
      BY <1>4, <2>1, <3>4 DEF IInv, OneDeclaration
    <3>5. QED
      BY <3>2, <3>3, <3>4
  <2>2. QED
    BY <2>1 DEF OneDeclaration
<1>6. ASSUME NEW c \in Requests
      PROVE  Sound(c)'
  <2>1. CASE c = r
    BY <1>3, <2>1
  <2>2. CASE c # r
    BY <1>4, <2>2
  <2>3. QED
    BY <2>1, <2>2
<1>7. QED
  BY <1>5, <1>6 DEF AllSound

LEMMA NextSound == IInv /\ Next => AllSound'
<1> SUFFICES ASSUME IInv, Next
             PROVE  AllSound'
  OBVIOUS
<1>1. ASSUME NEW r \in Requests, Step(r)
      PROVE  AllSound'
  BY <1>1, ConnectSound, AcquireAdvisorySound, ReadStatusSound, CheckResolutionSound,
     SelectForUpdateSound, WriteSound, CommitSound, ReselectSound, EndSound, FindSound,
     StatementSound, PostMortemSound, InsertSound DEF Step
<1>2. ASSUME NEW r \in Requests, Faulty(r)
      PROVE  AllSound'
  BY <1>2, EndSound, InsertSound, CommitUnacknowledgedSound DEF Faulty
<1>3. ASSUME NEW p \in Replicas, Crash(p)
      PROVE  AllSound'
  BY <1>3, CrashSound
<1>4. QED
  BY <1>1, <1>2, <1>3, ArriveSound DEF Next

LEMMA InitHolds == Init => IInv
<1> SUFFICES ASSUME Init
             PROVE  IInv
  OBVIOUS
<1>1. TypeOK
  BY BoundAssumption DEF Init, TypeOK, PcValues
<1>2. \A r \in Requests : pc[r] = "idle"
  BY DEF Init
<1>3. QED
  BY <1>1, <1>2 DEF IInv, Sound, OneDeclaration, Declaring

LEMMA StutterHolds == IInv /\ UNCHANGED vars => IInv'
<1> SUFFICES ASSUME IInv, UNCHANGED vars
             PROVE  IInv'
  OBVIOUS
<1>1. TypeOK'
  BY DEF IInv, TypeOK, vars
<1>2. AllSound'
  BY StoreUnchanged, SoundStays DEF vars, Untouched, IInv, AllSound, OneDeclaration, Declaring, Op, Inc
<1>3. QED
  BY <1>1, <1>2 DEF IInv, AllSound

\* Whatever interleaving of requests, crashes and failed statements: a transaction
\* past its lock statement holds its lock, and what its handler read of the row
\* (status.ts, severity.ts, responders.ts) is still so when it commits.
THEOREM InductiveInvariant == Spec => []IInv
<1>1. IInv /\ [Next]_vars => IInv'
  <2>1. IInv /\ Next => IInv'
    BY NextTypes, NextSound DEF IInv, AllSound
  <2>2. QED
    BY <2>1, StutterHolds
<1>2. QED
  BY <1>1, InitHolds, PTL DEF Spec

\* Every variable keeps its type.
THEOREM TypeCorrect == Spec => []TypeOK
<1>1. IInv => TypeOK
  BY DEF IInv
<1>2. QED
  BY <1>1, InductiveInvariant, PTL
=============================================================================
