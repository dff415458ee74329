------------------------- MODULE IncidentLifecycle -------------------------
(***************************************************************************)
(* The write handlers of the incident-engine, run by concurrent requests   *)
(* on several replicas against one PostgreSQL database.  A request         *)
(* advances by one statement (one await) at a time; a replica's pool       *)
(* bounds its clients.  The database isolates transactions at READ         *)
(* COMMITTED: what a transaction writes is visible from its COMMIT on, and *)
(* it excludes others only by its advisory lock and by its row lock.       *)
(***************************************************************************)
EXTENDS IncidentData, FiniteSets

CONSTANTS Requests,   \* the requests that may be in flight at once
          Replicas,   \* the incident-engine pods
          PoolMax,    \* the clients of one pod's pool
          Locks,      \* the advisory lock keys
          LockOf,     \* the key of an incident id: a hash, so two ids may share it
          Nobody,     \* no holder of a lock
          Ops,        \* the endpoints the clients call
          Levels,     \* the severities the clients name
          MaxTrail,   \* bound: no more posts or assignments on a timeline this long
          MaxFaults   \* bound: how many faults may happen

AllOps  == {"declare", "status", "severity", "responders", "timeline", "postmortem"}
Txn     == {"declare", "status", "severity", "responders"}
Locking == {"severity", "responders"}   \* those that SELECT ... FOR UPDATE

ASSUME LockAssumption  == LockOf \in [Incidents -> Locks] /\ Nobody \notin Requests
ASSUME OpsAssumption   == Ops \subseteq AllOps /\ Levels \subseteq Severities
ASSUME BoundAssumption == PoolMax \in Nat \ {0} /\ MaxTrail \in Nat /\ MaxFaults \in Nat

VARIABLES rows,         \* the committed rows, by incident
          trail,        \* the committed timelines, in commit order
          postmortem,   \* the incidents that have a post-mortem row
          advisory,     \* the request whose transaction holds an advisory lock
          rowLock,      \* the request whose transaction holds a row lock
          clients,      \* the requests that hold a client of their replica's pool
          pc,           \* the statement each request is about to run
          req,          \* what each request asks
          seen,         \* the row as the handler read it
          told,         \* the answers clients were given: 2xx and 5xx
          stream,       \* the events appended to the incident-events stream
          faults        \* the faults so far

store == <<rows, trail, postmortem>>
locks == <<advisory, rowLock>>
vars  == <<rows, trail, postmortem, advisory, rowLock, clients, pc, req, seen,
           told, stream, faults>>

-----------------------------------------------------------------------------
(* Requests *)

\* What each endpoint accepts once its validation has passed.
Args == [declare |-> Levels, status |-> Statuses, severity |-> Levels,
         responders |-> SUBSET People \ {{}}, timeline |-> EntryTypes,
         postmortem |-> {"draft"}]

Request == UNION {[op: {o}, incident: Incidents, arg: Args[o], replica: Replicas] : o \in AllOps}
Idle    == [op |-> "idle"]

Answer == UNION {[op: {o}, incident: Incidents, arg: Args[o], code: {200, 500, 503}] : o \in AllOps}

\* The error code of each handler's catch block.
ErrorCode == [declare |-> 503, status |-> 500, severity |-> 500, responders |-> 500,
              timeline |-> 503, postmortem |-> 503]

PcValues == {"idle", "connect", "lock", "read", "check", "select", "write", "commit", "reselect",
             "publish", "rollback", "find", "existing", "take", "insert", "fetch"}

TypeOK == /\ rows \in [Incidents -> Row \cup {NoRow}]
          /\ trail \in [Incidents -> Seq(Entry)]
          /\ postmortem \in [Incidents -> BOOLEAN]
          /\ advisory \in [Locks -> Requests \cup {Nobody}]
          /\ rowLock \in [Incidents -> Requests \cup {Nobody}]
          /\ clients \in SUBSET Requests
          /\ pc \in [Requests -> PcValues]
          /\ req \in [Requests -> Request \cup {Idle}]
          /\ \A r \in Requests : pc[r] # "idle" => req[r] \in Request
          /\ seen \in [Requests -> Row \cup {NoRow}]
          /\ told \in SUBSET Answer
          /\ stream \in SUBSET [incident: Incidents, entry: Entry]
          /\ faults \in 0..MaxFaults

Init == /\ rows = [i \in Incidents |-> NoRow]
        /\ trail = [i \in Incidents |-> << >>]
        /\ postmortem = [i \in Incidents |-> FALSE]
        /\ advisory = [k \in Locks |-> Nobody]
        /\ rowLock = [i \in Incidents |-> Nobody]
        /\ clients = {}
        /\ pc = [r \in Requests |-> "idle"]
        /\ req = [r \in Requests |-> Idle]
        /\ seen = [r \in Requests |-> NoRow]
        /\ told = {}
        /\ stream = {}
        /\ faults = 0

Inc(r) == req[r].incident
Op(r)  == req[r].op
Arg(r) == req[r].arg

Goto(r, label) == pc' = [pc EXCEPT ![r] = label]
At(r, label)   == pc[r] = label

\* Slip: the request is forgotten while its handler still runs.
FinishKeepsPc(R) == /\ UNCHANGED pc
                    /\ req' = [r \in Requests |-> IF r \in R THEN Idle ELSE req[r]]
                    /\ seen' = [r \in Requests |-> IF r \in R THEN NoRow ELSE seen[r]]

\* The requests of R are over: answered or, if their replica died, dropped.
Finish(R) == /\ pc' = [r \in Requests |-> IF r \in R THEN "idle" ELSE pc[r]]
             /\ req' = [r \in Requests |-> IF r \in R THEN Idle ELSE req[r]]
             /\ seen' = [r \in Requests |-> IF r \in R THEN NoRow ELSE seen[r]]

\* COMMIT, ROLLBACK and a lost connection drop every lock of the transaction.
Unlock(R) == /\ advisory' = [k \in Locks |-> IF advisory[k] \in R THEN Nobody ELSE advisory[k]]
             /\ rowLock' = [i \in Incidents |-> IF rowLock[i] \in R THEN Nobody ELSE rowLock[i]]

Tell(r, code) == told' = told \cup {[op |-> Op(r), incident |-> Inc(r), arg |-> Arg(r), code |-> code]}

ClientFree(p) == Cardinality({c \in clients : req[c].replica = p}) < PoolMax

\* An INSERT that refers to an incident takes its row's key-share lock, which
\* SELECT ... FOR UPDATE excludes and a plain UPDATE does not.
KeyShareBlocked(i) == rowLock[i] # Nobody /\ Op(rowLock[i]) \in Locking

\* Each declaration has an incident id of its own, a fresh UUID.
Fresh(i) == rows[i] = NoRow /\ \A c \in Requests : req[c] # Idle => req[c].incident # i

Arrive(r, i, o, a, p) ==
    /\ At(r, "idle")
    /\ o = "declare" => Fresh(i)
    /\ o \in {"timeline", "responders"} => Len(trail[i]) < MaxTrail
    /\ req' = [req EXCEPT ![r] = [op |-> o, incident |-> i, arg |-> a, replica |-> p]]
    /\ Goto(r, IF o \in Txn THEN "connect" ELSE "find")
    /\ UNCHANGED <<store, locks, clients, seen, told, stream, faults>>

-----------------------------------------------------------------------------
(* Handlers that run one transaction: declare, status, severity, responders *)

\* pool.connect() and BEGIN.
Connect(r) ==
    /\ At(r, "connect")
    /\ ClientFree(req[r].replica)
    /\ clients' = clients \cup {r}
    /\ Goto(r, IF Op(r) = "declare" THEN "write" ELSE IF Op(r) = "status" THEN "lock" ELSE "select")
    /\ UNCHANGED <<store, locks, req, seen, told, stream, faults>>

\* Slip: the lock is taken without waiting for its holder (a try-lock whose result
\* nobody looks at).
AcquireUnchecked(r) ==
    /\ At(r, "lock")
    /\ advisory' = [advisory EXCEPT ![LockOf[Inc(r)]] = IF @ = Nobody THEN r ELSE @]
    /\ Goto(r, "read")
    /\ UNCHANGED <<store, rowLock, clients, req, seen, told, stream, faults>>

\* status: SELECT pg_advisory_xact_lock(hash of the id)
AcquireAdvisory(r) ==
    /\ At(r, "lock")
    /\ advisory[LockOf[Inc(r)]] = Nobody
    /\ advisory' = [advisory EXCEPT ![LockOf[Inc(r)]] = r]
    /\ Goto(r, "read")
    /\ UNCHANGED <<store, rowLock, clients, req, seen, told, stream, faults>>

\* status: the plain SELECT, then the checks that need no other query.
Allowed(row, target) == row # NoRow /\ target \in ValidTransitions[row.status]

ReadStatus(r) ==
    LET row == rows[Inc(r)]
    IN  /\ At(r, "read")
        /\ seen' = [seen EXCEPT ![r] = row]
        /\ Goto(r, IF ~Allowed(row, Arg(r)) THEN "rollback"
                   ELSE IF row.status = "mitigating" THEN "check" ELSE "write")
        /\ UNCHANGED <<store, locks, clients, req, told, stream, faults>>

\* Slip: the count of the resolution entries is not compared with zero.
CheckNothing(r) ==
    /\ At(r, "check")
    /\ Goto(r, "write")
    /\ UNCHANGED <<store, locks, clients, req, seen, told, stream, faults>>

\* status: no resolution without a resolution entry.
CheckResolution(r) ==
    /\ At(r, "check")
    /\ Goto(r, IF HasResolution(trail[Inc(r)]) THEN "write" ELSE "rollback")
    /\ UNCHANGED <<store, locks, clients, req, seen, told, stream, faults>>

\* Slip: < for <= lets a severity be "escalated" to itself.
AcceptsSameLevel(row, o, a) ==
    /\ row.status \in Active
    /\ o = "severity" => /\ row.severity # "critical"
                         /\ SeverityOrder[a] >= SeverityOrder[row.severity]

\* severity, responders: SELECT ... FOR UPDATE, then the handler's checks.
Accepts(row, o, a) ==
    /\ row.status \in Active
    /\ o = "severity" => /\ row.severity # "critical"
                         /\ SeverityOrder[a] > SeverityOrder[row.severity]

\* Slip: the SELECT without FOR UPDATE.
SelectPlain(r) ==
    LET row == rows[Inc(r)]
    IN  /\ At(r, "select")
        /\ seen' = [seen EXCEPT ![r] = row]
        /\ Goto(r, IF row # NoRow /\ Accepts(row, Op(r), Arg(r)) THEN "write" ELSE "rollback")
        /\ UNCHANGED <<store, locks, clients, req, told, stream, faults>>

SelectForUpdate(r) ==
    LET row == rows[Inc(r)]
    IN  /\ At(r, "select")
        /\ \/ /\ row = NoRow
              /\ Goto(r, "rollback")
              /\ UNCHANGED <<rowLock, seen>>
           \/ /\ row # NoRow
              /\ rowLock[Inc(r)] = Nobody
              /\ rowLock' = [rowLock EXCEPT ![Inc(r)] = r]
              /\ seen' = [seen EXCEPT ![r] = row]
              /\ Goto(r, IF Accepts(row, Op(r), Arg(r)) THEN "write" ELSE "rollback")
        /\ UNCHANGED <<store, advisory, clients, req, told, stream, faults>>

\* Slip: an assignment replaces the list instead of merging into it.
WrittenUnmerged(r) ==
    LET row == rows[Inc(r)]
    IN  CASE Op(r) = "declare"  -> NewIncident(Arg(r))
          [] Op(r) = "status"   -> WithStatus(row, Arg(r))
          [] Op(r) = "severity" -> [row EXCEPT !.severity = Arg(r)]
          [] OTHER              -> [row EXCEPT !.responders = Arg(r)]

\* The row version and the entry that the transaction of r has written: the columns
\* of its UPDATE over the latest committed version of the others.
Written(r) ==
    LET row == rows[Inc(r)]
    IN  CASE Op(r) = "declare"  -> NewIncident(Arg(r))
          [] Op(r) = "status"   -> WithStatus(row, Arg(r))
          [] Op(r) = "severity" -> [row EXCEPT !.severity = Arg(r)]
          [] OTHER              -> [row EXCEPT !.responders = seen[r].responders \cup Arg(r)]

EntryOf(r) ==
    CASE Op(r) = "declare"  -> Detection
      [] Op(r) = "status"   -> StatusEntry(seen[r].status, Arg(r))
      [] Op(r) = "severity" -> SeverityEntry(seen[r].severity, Arg(r))
      [] OTHER              -> RespondersEntry(Recorded(Arg(r), seen[r].responders))

\* Slip: the event is published from inside the transaction.
WriteAndPublish(r) ==
    /\ At(r, "write")
    /\ rowLock[Inc(r)] \in {Nobody, r}
    /\ rowLock' = [rowLock EXCEPT ![Inc(r)] = r]
    /\ stream' = stream \cup {[incident |-> Inc(r), entry |-> EntryOf(r)]}
    /\ Goto(r, "commit")
    /\ UNCHANGED <<store, advisory, clients, req, seen, told, faults>>

\* The UPDATE (or the INSERT of the incident) and the INSERT of its timeline entry,
\* which nobody else sees before the COMMIT; the UPDATE waits for the row lock.
Write(r) ==
    /\ At(r, "write")
    /\ rowLock[Inc(r)] \in {Nobody, r}
    /\ rowLock' = [rowLock EXCEPT ![Inc(r)] = r]
    /\ Goto(r, "commit")
    /\ UNCHANGED <<store, advisory, clients, req, seen, told, stream, faults>>

Apply(r) == /\ rows' = [rows EXCEPT ![Inc(r)] = Written(r)]
            /\ trail' = [trail EXCEPT ![Inc(r)] = Append(@, EntryOf(r))]
            /\ UNCHANGED postmortem

\* COMMIT.  declare and status answer at once and give their client back; severity and
\* responders read the row again first.
Commit(r) ==
    /\ At(r, "commit")
    /\ Apply(r)
    /\ Unlock({r})
    /\ \/ /\ Op(r) \in Locking
          /\ Goto(r, "reselect")
          /\ UNCHANGED <<clients, told>>
       \/ /\ Op(r) \notin Locking
          /\ Goto(r, "publish")
          /\ Tell(r, 200)
          /\ clients' = clients \ {r}
    /\ UNCHANGED <<req, seen, stream, faults>>

\* Slip: the handler answers and returns before it publishes.
ReselectAndReturn(r) ==
    /\ At(r, "reselect")
    /\ Tell(r, 200)
    /\ clients' = clients \ {r}
    /\ Finish({r})
    /\ UNCHANGED <<store, locks, stream, faults>>

Reselect(r) ==
    /\ At(r, "reselect")
    /\ Tell(r, 200)
    /\ clients' = clients \ {r}
    /\ Goto(r, "publish")
    /\ UNCHANGED <<store, locks, req, seen, stream, faults>>

\* publishIncidentEvent, which runs after the answer and is not awaited.
Publish(r) ==
    /\ At(r, "publish")
    /\ stream' = stream \cup {[incident |-> Inc(r), entry |-> EntryOf(r)]}
    /\ Finish({r})
    /\ UNCHANGED <<store, locks, clients, told, faults>>

\* Slip: an early return that gives the client back with its transaction open.
RollbackKeepsLocks(r) ==
    /\ At(r, "rollback")
    /\ clients' = clients \ {r}
    /\ Finish({r})
    /\ UNCHANGED <<store, locks, told, stream, faults>>

\* ROLLBACK and a 400 or 404 answer.
Rollback(r) ==
    /\ At(r, "rollback")
    /\ Unlock({r})
    /\ clients' = clients \ {r}
    /\ Finish({r})
    /\ UNCHANGED <<store, told, stream, faults>>

-----------------------------------------------------------------------------
(* Handlers of single statements: timeline, postmortem.  pool.query borrows a *)
(* client for the statement; where the statement may wait, taking the client  *)
(* is a step of its own.                                                      *)

\* The SELECT of the incident: 404 and, for a post-mortem, 400 while it is active.
Refuses(row, o) == row # NoRow => o = "postmortem" /\ row.status \in Active

Find(r) ==
    /\ At(r, "find")
    /\ ClientFree(req[r].replica)
    /\ \/ Refuses(rows[Inc(r)], Op(r)) /\ Finish({r})
       \/ /\ ~Refuses(rows[Inc(r)], Op(r))
          /\ Goto(r, IF Op(r) = "postmortem" THEN "existing" ELSE "take")
          /\ UNCHANGED <<req, seen>>
    /\ UNCHANGED <<store, locks, clients, told, stream, faults>>

\* postmortem: the SELECT of an existing post-mortem: 409.
FindExisting(r) ==
    /\ At(r, "existing")
    /\ ClientFree(req[r].replica)
    /\ \/ postmortem[Inc(r)] /\ Finish({r})
       \/ ~postmortem[Inc(r)] /\ Goto(r, "take") /\ UNCHANGED <<req, seen>>
    /\ UNCHANGED <<store, locks, clients, told, stream, faults>>

TakeClient(r) ==
    /\ At(r, "take")
    /\ ClientFree(req[r].replica)
    /\ clients' = clients \cup {r}
    /\ Goto(r, "insert")
    /\ UNCHANGED <<store, locks, req, seen, told, stream, faults>>

AppendPosted(r) == /\ trail' = [trail EXCEPT ![Inc(r)] = Append(@, Posted(Arg(r)))]
                   /\ UNCHANGED <<rows, postmortem>>

InsertEntry(r) ==
    /\ At(r, "insert") /\ Op(r) = "timeline"
    /\ ~KeyShareBlocked(Inc(r))
    /\ AppendPosted(r)
    /\ Tell(r, 200)
    /\ clients' = clients \ {r}
    /\ Finish({r})
    /\ UNCHANGED <<locks, stream, faults>>

\* The INSERT of the post-mortem: the UNIQUE constraint refuses a second one, and
\* the handler's catch answers.
InsertPostMortem(r) ==
    /\ At(r, "insert") /\ Op(r) = "postmortem"
    /\ ~KeyShareBlocked(Inc(r))
    /\ clients' = clients \ {r}
    /\ \/ /\ ~postmortem[Inc(r)]
          /\ postmortem' = [postmortem EXCEPT ![Inc(r)] = TRUE]
          /\ Goto(r, "fetch")
          /\ UNCHANGED <<told, req, seen>>
       \/ /\ postmortem[Inc(r)]
          /\ Tell(r, ErrorCode[Op(r)])
          /\ Finish({r})
          /\ UNCHANGED postmortem
    /\ UNCHANGED <<rows, trail, locks, stream, faults>>

\* postmortem: the timeline for the answer.
FetchTimeline(r) ==
    /\ At(r, "fetch")
    /\ ClientFree(req[r].replica)
    /\ Tell(r, 200)
    /\ Finish({r})
    /\ UNCHANGED <<store, locks, clients, stream, faults>>

-----------------------------------------------------------------------------
(* Faults *)

Fault == faults < MaxFaults /\ faults' = faults + 1

\* Slip: a catch block that releases the client without a ROLLBACK.
FailsWithoutRollback(r) ==
    /\ Fault
    /\ pc[r] \notin {"idle", "connect", "publish"}
    /\ clients' = clients \ {r}
    /\ Tell(r, ErrorCode[Op(r)])
    /\ Finish({r})
    /\ UNCHANGED <<store, locks, stream>>

\* A statement fails: the handler's catch rolls back and answers.  Either the connection
\* survives, or the catch ignores that it does not (status), or pool.query held it.
\* Past the COMMIT ("reselect", "fetch") what was written stays.
StatementFails(r) ==
    /\ Fault
    /\ pc[r] \notin {"idle", "connect", "publish"}
    /\ Unlock({r})
    /\ clients' = clients \ {r}
    /\ Tell(r, ErrorCode[Op(r)])
    /\ Finish({r})
    /\ UNCHANGED <<store, stream>>

\* The requests of replica p are dropped, its connections closed and its open
\* transactions rolled back: the pod is killed, or the rejection of pool.connect(),
\* or of the ROLLBACK in a catch block, is unhandled and ends the process.
Served(p) == {r \in Requests : pc[r] # "idle" /\ req[r].replica = p}

Drop(R) == Unlock(R) /\ clients' = clients \ R /\ Finish(R)

Crash(p) ==
    /\ Fault
    /\ Served(p) # {}
    /\ Drop(Served(p))
    /\ UNCHANGED <<store, told, stream>>

\* The database commits and the connection is lost before the handler learns of it.
\* Only the status handler survives the failure of the ROLLBACK that follows.
CommitUnacknowledged(r) ==
    /\ Fault
    /\ At(r, "commit")
    /\ Apply(r)
    /\ \/ Op(r) = "status" /\ Drop({r}) /\ Tell(r, ErrorCode[Op(r)])
       \/ Op(r) # "status" /\ Drop(Served(req[r].replica)) /\ UNCHANGED told
    /\ UNCHANGED stream

InsertUnacknowledged(r) ==
    /\ Fault
    /\ At(r, "insert")
    /\ ~KeyShareBlocked(Inc(r))
    /\ \/ Op(r) = "timeline" /\ AppendPosted(r)
       \/ /\ Op(r) = "postmortem"
          /\ postmortem' = [postmortem EXCEPT ![Inc(r)] = TRUE]
          /\ UNCHANGED <<rows, trail>>
    /\ Tell(r, ErrorCode[Op(r)])
    /\ clients' = clients \ {r}
    /\ Finish({r})
    /\ UNCHANGED <<locks, stream>>

\* XADD fails: the error is logged and the event is gone.
PublishFails(r) ==
    /\ Fault
    /\ At(r, "publish")
    /\ Finish({r})
    /\ UNCHANGED <<store, locks, clients, told, stream>>

-----------------------------------------------------------------------------
Step(r) == \/ Connect(r) \/ AcquireAdvisory(r) \/ ReadStatus(r) \/ CheckResolution(r)
           \/ SelectForUpdate(r) \/ Write(r) \/ Commit(r) \/ Reselect(r) \/ Publish(r)
           \/ Rollback(r) \/ Find(r) \/ FindExisting(r) \/ TakeClient(r) \/ InsertEntry(r)
           \/ InsertPostMortem(r) \/ FetchTimeline(r)

Faulty(r) == \/ StatementFails(r) \/ CommitUnacknowledged(r) \/ InsertUnacknowledged(r)
             \/ PublishFails(r)

Next == \/ \E r \in Requests :
              \/ \E i \in Incidents, o \in Ops, p \in Replicas : \E a \in Args[o] : Arrive(r, i, o, a, p)
              \/ Step(r)
              \/ Faulty(r)
        \/ \E p \in Replicas : Crash(p)

Spec == Init /\ [][Next]_vars

-----------------------------------------------------------------------------
(* Safety *)

\* The status column and the audit entries tell one story: starting at declared,
\* every transition that was applied is recorded once, in order, and follows the
\* state machine (status.ts, concurrent transitions under the advisory lock).
AuditTrail ==
    \A i \in Incidents : rows[i] # NoRow =>
        /\ Chained(trail[i], "status", rows[i].status)
        /\ \A k \in Places(trail[i], "status") : trail[i][k].to \in ValidTransitions[trail[i][k].from]
        /\ Places(trail[i], "status") = {} => rows[i].status = "declared"

\* The severity column and the escalation entries agree in the same way, and no
\* entry lowers or repeats a level (severity.ts, concurrent escalations).
SeverityTrail ==
    \A i \in Incidents : rows[i] # NoRow =>
        /\ Chained(trail[i], "severity", rows[i].severity)
        /\ \A k \in Places(trail[i], "severity") :
              SeverityOrder[trail[i][k].from] < SeverityOrder[trail[i][k].to]

\* The transition to resolved is recorded after a resolution entry that was already
\* committed (status.ts counts before it updates).
EvidenceFirst ==
    \A i \in Incidents : \A k \in Places(trail[i], "status") :
        trail[i][k].to = "resolved" => \E j \in 1..(k - 1) : trail[i][j] = Posted("resolution")

\* Nobody escalates or is assigned once an incident is resolved, even when the
\* status changes between the arrival and the COMMIT of the request
\* (severity.ts and responders.ts against status.ts).
FrozenOnceResolved ==
    \A i \in Incidents : \A k \in Places(trail[i], "status") :
        trail[i][k].to = "resolved" =>
            \A j \in Places(trail[i], "severity") \cup Places(trail[i], "responders") : j < k

\* What a client was told with a 2xx answer is in the database and stays there:
\* no concurrent request and no fault undoes or overwrites it.
InForce(a) ==
    LET row == rows[a.incident]
    IN  /\ row # NoRow
        /\ a.op = "status"     => Rank[row.status] >= Rank[a.arg]
        /\ a.op = "severity"   => SeverityOrder[row.severity] >= SeverityOrder[a.arg]
        /\ a.op = "responders" => a.arg \subseteq row.responders
        /\ a.op = "timeline"   => \E k \in 1..Len(trail[a.incident]) : trail[a.incident][k] = Posted(a.arg)
        /\ a.op = "postmortem" => postmortem[a.incident] /\ row.status \notin Active

AcknowledgedKept == \A a \in told : a.code = 200 => InForce(a)

\* An event is on the stream only for a change that was committed (events.ts is
\* called after COMMIT, never from a transaction that may roll back).
PublishedIsCommitted ==
    \A ev \in stream : \E k \in 1..Len(trail[ev.incident]) : trail[ev.incident][k] = ev.entry

\* Without faults no committed change stays unpublished once its request is over.
EverythingPublished ==
    faults = 0 /\ (\A r \in Requests : pc[r] = "idle") =>
        \A i \in Incidents : \A k \in 1..Len(trail[i]) :
            trail[i][k].kind # "posted" => [incident |-> i, entry |-> trail[i][k]] \in stream

\* Whatever fails, no lock outlives its transaction, no client outlives its request
\* and no pool lends more clients than it has.
NothingLeaks ==
    /\ \A k \in Locks : advisory[k] # Nobody =>
          advisory[k] \in clients /\ pc[advisory[k]] \in {"read", "check", "write", "commit", "rollback"}
    /\ \A i \in Incidents : rowLock[i] # Nobody =>
          rowLock[i] \in clients /\ pc[rowLock[i]] \in {"write", "commit", "rollback"}
    /\ \A p \in Replicas : Cardinality({c \in clients : req[c].replica = p}) <= PoolMax
    /\ \A c \in clients : pc[c] # "idle"

\* The handlers together implement the contract: every change of the row appears in
\* one step with its timeline entry, and only where the contract allows it.
Contract == INSTANCE IncidentContract
ImplementsContract == Contract!Spec

-----------------------------------------------------------------------------
(* The inductive invariant behind the safety properties *)

\* The endpoints whose handler reaches each statement.
OpsAt == [connect |-> Txn, lock |-> {"status"}, read |-> {"status"}, check |-> {"status"},
          select |-> Locking, write |-> Txn, commit |-> Txn, reselect |-> Locking, publish |-> Txn,
          rollback |-> {"status", "severity", "responders"}, find |-> {"timeline", "postmortem"},
          existing |-> {"postmortem"}, take |-> {"timeline", "postmortem"},
          insert |-> {"timeline", "postmortem"}, fetch |-> {"postmortem"}]

\* A transaction past its lock statement holds that lock.
LocksHeld(r) ==
    /\ Op(r) = "status" /\ pc[r] \in {"read", "check", "write", "commit"} => advisory[LockOf[Inc(r)]] = r
    /\ pc[r] = "commit" => rowLock[Inc(r)] = r
    /\ Op(r) \in Locking /\ pc[r] = "write" => rowLock[Inc(r)] = r

\* What a handler found when it read still holds when its transaction commits.
StillAllowed(r) ==
    LET row == rows[Inc(r)]
    IN  /\ row \in Row
        /\ row.status = seen[r].status
        /\ Arg(r) \in ValidTransitions[row.status]
        /\ pc[r] = "check" => row.status = "mitigating"
        /\ row.status = "mitigating" /\ pc[r] # "check" => HasResolution(trail[Inc(r)])

StillAccepted(r) ==
    LET row == rows[Inc(r)]
    IN  row \in Row /\ row = seen[r] /\ Accepts(row, Op(r), Arg(r))

Declaring(r) == pc[r] \in {"connect", "write", "commit"} /\ Op(r) = "declare"

ReadHolds(r) ==
    /\ Op(r) = "status" /\ pc[r] \in {"check", "write", "commit"} => StillAllowed(r)
    /\ Op(r) \in Locking /\ pc[r] \in {"write", "commit"} => StillAccepted(r)
    /\ Declaring(r) => rows[Inc(r)] = NoRow
    /\ Op(r) # "declare" /\ pc[r] \in {"check", "write", "commit", "reselect", "publish"} => seen[r] \in Row
    /\ pc[r] \in {"existing", "take", "insert", "fetch"} =>
          /\ rows[Inc(r)] \in Row
          /\ Op(r) = "postmortem" => rows[Inc(r)].status \notin Active

Sound(r) == pc[r] # "idle" => Op(r) \in OpsAt[pc[r]] /\ LocksHeld(r) /\ ReadHolds(r)

\* No two requests declare the same id.
OneDeclaration ==
    \A r, c \in Requests : Declaring(r) /\ Declaring(c) /\ Inc(r) = Inc(c) => r = c

\* Between a handler's read and its COMMIT nobody changes what it decided by: each
\* handler's locks cover the columns it reads (status.ts, severity.ts, responders.ts).
IInv == TypeOK /\ (\A r \in Requests : Sound(r)) /\ OneDeclaration

-----------------------------------------------------------------------------
(* Liveness *)

\* PostgreSQL's lock queues and pg-pool's queue of waiters are first come, first
\* served, so a request that can take its step again and again takes it at last.
FairSpec == Spec /\ \A r \in Requests : SF_vars(Step(r))

\* Every request is over at some time: no deadlock of locks and pools, no starvation.
EveryRequestEnds == \A r \in Requests : pc[r] # "idle" ~> pc[r] = "idle"
===========================================================================
