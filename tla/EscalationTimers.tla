-------------------------- MODULE EscalationTimers --------------------------
(***************************************************************************)
(* Automatic escalation in the notification-service: the replicas read the *)
(* incident events, keep one hash and one timer per incident in Redis, and *)
(* poll the timers.  Both polls are interval callbacks that nothing keeps  *)
(* from overlapping, so a run of one is a process here, advanced by one    *)
(* await at a time; whose run it is does not matter, as the replicas share *)
(* Redis and the name of the consumer.                                     *)
(***************************************************************************)
EXTENDS Naturals, Sequences, FiniteSets

CONSTANTS Incidents,
          Policies,      \* the ids of the policies, in the order of their keys
          LevelsOf,      \* the levels requested for each policy
          Consumers,     \* the runs of consumeIncidentEvents at one time
          Pollers,       \* the runs of checkExpiredTimers at one time
          BatchMax,      \* COUNT of XREADGROUP
          MaxTime,       \* bound: the last minute
          MaxChanges,    \* bound: the status changes of an incident
          FaultKinds,    \* the faults that may happen, each at most once
          MaxFaults      \* bound: how many of them

ASSUME EscalationAssumption ==
    /\ IsFiniteSet(Incidents)
    /\ Policies \subseteq Nat \ {0}
    /\ BatchMax \in Nat \ {0}
    /\ MaxTime \in Nat /\ MaxChanges \in Nat /\ MaxFaults \in Nat

VARIABLES now,        \* the minute it is
          history,    \* of each incident, when it was declared and each time its status changed
          unsent,     \* the events whose XADD has not reached Redis
          stream,     \* the events no consumer has read
          policies,   \* the stored policies
          hash,       \* escalation:{id}
          timers,     \* escalation-timers: the score of each incident, 0 for no member
          batch,      \* the events each consumer has read and not finished
          chosen,     \* the policy each consumer has looked up
          cpc,        \* the statement each consumer is about to run
          due,        \* the incidents each poller has found expired and not finished
          seen,       \* the hash each poller has read
          qpc,        \* the statement each poller is about to run
          notified,   \* which levels were delivered, and when
          entries,    \* the levels recorded in the timeline of the engine
          faults      \* the kinds of the faults so far

engine   == <<now, history, unsent>>
consumer == <<batch, chosen, cpc>>
poller   == <<due, seen, qpc>>
told     == <<notified, entries>>
vars     == <<engine, stream, policies, hash, timers, consumer, poller, told, faults>>

-----------------------------------------------------------------------------
(* Data *)

ValidChannels == {"slack", "email", "pagerduty"}

ValidLevel(level) ==
    /\ level.targets # {} /\ level.channels # {} /\ level.channels \subseteq ValidChannels
    /\ level.after \in Nat /\ 1 <= level.after /\ level.after <= 1440

\* Slip: a level may wait as long as the one before it.
NeverDescending(levels) == \A k \in 2..Len(levels) : levels[k].after >= levels[k - 1].after

\* Each level waits longer than the one before it.
Ascending(levels) == \A k \in 2..Len(levels) : levels[k].after > levels[k - 1].after

\* validateEscalationPolicyRequest
Accepts(levels) ==
    /\ Len(levels) \in 1..10
    /\ \A k \in 1..Len(levels) : ValidLevel(levels[k])
    /\ Ascending(levels)

\* Level k of a policy; levels count from 0.
LevelAt(p, k) == LevelsOf[p][k + 1]
Levels        == 0..9   \* a policy has ten levels at most

\* A missing field of the hash is 0 or FALSE: the code asks only whether there is a
\* policyId and whether timerActive is 'true'.  An absent hash has no field.
Hash   == [policy: Policies \cup {0}, level: Nat, since: Nat, active: BOOLEAN]
NoHash == [policy |-> 0, level |-> 0, since |-> 0, active |-> FALSE]

Event == [type: {"declared", "status_changed"}, incident: Incidents, at: Nat]
Told  == [level: Nat, at: Nat]

Active(i)      == Len(history[i]) \in 1..3
LastChange(i)  == history[i][Len(history[i])]
Live(row)      == row.policy # 0 /\ row.active

TypeOK == /\ now \in 0..MaxTime
          /\ history \in [Incidents -> Seq(0..MaxTime)]
          /\ unsent \subseteq Event
          /\ stream \in Seq(Event)
          /\ policies \subseteq Policies
          /\ hash \in [Incidents -> Hash]
          /\ timers \in [Incidents -> Nat]
          /\ batch \in [Consumers -> Seq(Event)]
          /\ chosen \in [Consumers -> Policies \cup {0}]
          /\ cpc \in [Consumers -> {"idle", "handle", "store", "arm", "disarm", "ack"}]
          /\ due \in [Pollers -> Seq(Incidents)]
          /\ seen \in [Pollers -> Hash]
          /\ qpc \in [Pollers -> {"idle", "read", "policy", "post", "advance", "schedule",
                                  "expire", "remove"}]
          /\ \A c \in Consumers : (cpc[c] = "idle") = (batch[c] = << >>)
          /\ \A q \in Pollers : (qpc[q] = "idle") = (due[q] = << >>)
          /\ notified \in [Incidents -> SUBSET Told]
          /\ entries \in [Incidents -> SUBSET Nat]
          /\ faults \subseteq FaultKinds

Init == /\ now = 0
        /\ history = [i \in Incidents |-> << >>]
        /\ unsent = {} /\ stream = << >>
        /\ policies = {}
        /\ hash = [i \in Incidents |-> NoHash]
        /\ timers = [i \in Incidents |-> 0]
        /\ batch = [c \in Consumers |-> << >>]
        /\ chosen = [c \in Consumers |-> 0]
        /\ cpc = [c \in Consumers |-> "idle"]
        /\ due = [q \in Pollers |-> << >>]
        /\ seen = [q \in Pollers |-> NoHash]
        /\ qpc = [q \in Pollers |-> "idle"]
        /\ notified = [i \in Incidents |-> {}]
        /\ entries = [i \in Incidents |-> {}]
        /\ faults = {}

Fault(kind) == /\ kind \in FaultKinds \ faults
               /\ Cardinality(faults) < MaxFaults
               /\ faults' = faults \cup {kind}

-----------------------------------------------------------------------------
(* The engine and time *)

Tick == /\ now < MaxTime
        /\ now' = now + 1
        /\ UNCHANGED <<history, unsent, stream, policies, hash, timers, consumer, poller, told, faults>>

\* A declaration or a status change is committed; its event is appended un-awaited.  Time
\* is left for the longest escalation.
Happens(i, type) ==
    /\ \A p \in Policies : \A k \in 1..Len(LevelsOf[p]) : now + LevelsOf[p][k].after <= MaxTime
    /\ history' = [history EXCEPT ![i] = Append(@, now)]
    /\ unsent' = unsent \cup {[type |-> type, incident |-> i, at |-> now]}
    /\ UNCHANGED <<now, stream, policies, hash, timers, consumer, poller, told, faults>>

Declare(i)      == history[i] = << >> /\ Happens(i, "declared")
ChangeStatus(i) == Len(history[i]) \in 1..MaxChanges /\ Happens(i, "status_changed")

\* The XADDs of two requests, of two pods perhaps, reach Redis in any order.
Publish == \E e \in unsent :
    /\ unsent' = unsent \ {e}
    /\ stream' = Append(stream, e)
    /\ UNCHANGED <<now, history, policies, hash, timers, consumer, poller, told, faults>>

\* publishIncidentEvent swallows a rejected XADD.
PublishFails == \E e \in unsent :
    /\ Fault("publish")
    /\ unsent' = unsent \ {e}
    /\ UNCHANGED <<now, history, stream, policies, hash, timers, consumer, poller, told>>

-----------------------------------------------------------------------------
(* POST /escalation-policies.  The sorted set that only the list is read from is left    *)
(* out.                                                                                  *)

StorePolicy(p) == /\ p \notin policies
                  /\ Accepts(LevelsOf[p])
                  /\ policies' = policies \cup {p}
                  /\ UNCHANGED <<engine, stream, hash, timers, consumer, poller, told, faults>>

-----------------------------------------------------------------------------
(* consumeIncidentEvents *)

\* The event a consumer is at.
Current(c) == Head(batch[c])

GotoC(c, label) == cpc' = [cpc EXCEPT ![c] = label]

Consume(c) ==
    LET n == IF Len(stream) < BatchMax THEN Len(stream) ELSE BatchMax
    IN  /\ cpc[c] = "idle" /\ stream # << >>
        /\ batch' = [batch EXCEPT ![c] = SubSeq(stream, 1, n)]
        /\ stream' = SubSeq(stream, n + 1, Len(stream))
        /\ GotoC(c, "handle")
        /\ UNCHANGED <<engine, policies, hash, timers, chosen, poller, told, faults>>

\* getFirstEscalationPolicy: the first key, of the policies stored so far.  Without one,
\* or when a call of it is rejected, the event is done with.
FindPolicy(c) ==
    /\ cpc[c] = "handle" /\ Current(c).type = "declared"
    /\ \/ /\ \E p \in policies : /\ \A r \in policies : p <= r
                                 /\ chosen' = [chosen EXCEPT ![c] = p]
          /\ GotoC(c, "store")
          /\ UNCHANGED faults
       \/ policies = {} /\ GotoC(c, "ack") /\ UNCHANGED <<chosen, faults>>
       \/ policies # {} /\ Fault("lookup") /\ GotoC(c, "ack") /\ UNCHANGED chosen
    /\ UNCHANGED <<engine, stream, policies, hash, timers, batch, poller, told>>

\* Slip: the sequence counts from when the event is handled.
StoreStateNow(c) ==
    LET e == Current(c)
    IN  /\ cpc[c] = "store"
        /\ hash' = [hash EXCEPT ![e.incident] =
                       [policy |-> chosen[c], level |-> 0, since |-> now, active |-> TRUE]]
        /\ GotoC(c, "arm")
        /\ UNCHANGED <<engine, stream, policies, timers, batch, chosen, poller, told, faults>>

StoreState(c) ==
    LET e == Current(c)
    IN  /\ cpc[c] = "store"
        /\ hash' = [hash EXCEPT ![e.incident] =
                       [policy |-> chosen[c], level |-> 0, since |-> e.at, active |-> TRUE]]
        /\ GotoC(c, "arm")
        /\ UNCHANGED <<engine, stream, policies, timers, batch, chosen, poller, told, faults>>

Arm(c) ==
    LET e == Current(c)
    IN  /\ cpc[c] = "arm"
        /\ timers' = [timers EXCEPT ![e.incident] = e.at + LevelAt(chosen[c], 0).after]
        /\ GotoC(c, "ack")
        /\ UNCHANGED <<engine, stream, policies, hash, batch, chosen, poller, told, faults>>

\* handleStatusChanged: DEL, then ZREM.  Nothing arms the next sequence.
DropState(c) ==
    /\ cpc[c] = "handle" /\ Current(c).type = "status_changed"
    /\ hash' = [hash EXCEPT ![Current(c).incident] = NoHash]
    /\ GotoC(c, "disarm")
    /\ UNCHANGED <<engine, stream, policies, timers, batch, chosen, poller, told, faults>>

Disarm(c) ==
    /\ cpc[c] = "disarm"
    /\ timers' = [timers EXCEPT ![Current(c).incident] = 0]
    /\ GotoC(c, "ack")
    /\ UNCHANGED <<engine, stream, policies, hash, batch, chosen, poller, told, faults>>

Ack(c) ==
    /\ cpc[c] = "ack"
    /\ batch' = [batch EXCEPT ![c] = Tail(@)]
    /\ GotoC(c, IF Len(batch[c]) = 1 THEN "idle" ELSE "handle")
    /\ chosen' = [chosen EXCEPT ![c] = 0]
    /\ UNCHANGED <<engine, stream, policies, hash, timers, poller, told, faults>>

\* A call is rejected, which ends the run of the consumer, or its pod dies: the rest of
\* the batch is pending for ever, as only '>' is read.
ConsumerStops(c) ==
    /\ Fault("consumer") /\ cpc[c] # "idle"
    /\ batch' = [batch EXCEPT ![c] = << >>]
    /\ chosen' = [chosen EXCEPT ![c] = 0]
    /\ GotoC(c, "idle")
    /\ UNCHANGED <<engine, stream, policies, hash, timers, poller, told>>

ConsumerStep(c) == \/ Consume(c) \/ FindPolicy(c) \/ StoreState(c) \/ Arm(c)
                   \/ DropState(c) \/ Disarm(c) \/ Ack(c)

-----------------------------------------------------------------------------
(* checkExpiredTimers and triggerEscalation *)

At(q)           == Head(due[q])
GotoQ(q, label) == qpc' = [qpc EXCEPT ![q] = label]

\* The end of triggerEscalation: the next expired incident.
NextDue(q) == /\ due' = [due EXCEPT ![q] = Tail(@)]
              /\ seen' = [seen EXCEPT ![q] = NoHash]
              /\ GotoQ(q, IF Len(due[q]) = 1 THEN "idle" ELSE "read")

\* Slip: all timers are fetched.
AllTimers == {i \in Incidents : timers[i] # 0}

Expired == {i \in Incidents : timers[i] \in 1..now}

\* ZRANGEBYSCORE: the expired incidents, by score
Poll(q) ==
    /\ qpc[q] = "idle" /\ Expired # {}
    /\ \E s \in [1..Cardinality(Expired) -> Expired] :
          /\ \A i \in Expired : \E k \in DOMAIN s : s[k] = i
          /\ \A j, k \in DOMAIN s : j < k => timers[s[j]] <= timers[s[k]]
          /\ due' = [due EXCEPT ![q] = s]
    /\ GotoQ(q, "read")
    /\ UNCHANGED <<engine, stream, policies, hash, timers, consumer, seen, told, faults>>

\* HGETALL: a timer without a live hash is removed.
ReadState(q) ==
    /\ qpc[q] = "read"
    /\ seen' = [seen EXCEPT ![q] = hash[At(q)]]
    /\ GotoQ(q, IF Live(hash[At(q)]) THEN "policy" ELSE "remove")
    /\ UNCHANGED <<engine, stream, policies, hash, timers, consumer, due, told, faults>>

\* GET of the policy, which nobody deletes; the deliveries follow at once, as the stubs
\* of the channels do no I/O.
Notify(q) ==
    LET k == seen[q].level
    IN  /\ qpc[q] = "policy"
        /\ k < Len(LevelsOf[seen[q].policy])
        /\ notified' = [notified EXCEPT ![At(q)] = @ \cup {[level |-> k, at |-> now]}]
        /\ GotoQ(q, "post")
        /\ UNCHANGED <<engine, stream, policies, hash, timers, consumer, due, seen, entries, faults>>

\* A GET that is rejected counts as a policy that does not exist.  (A level beyond the
\* last, which leads here too, is in no live hash.)
LookupFails(q) ==
    /\ Fault("lookup") /\ qpc[q] = "policy"
    /\ GotoQ(q, "expire")
    /\ UNCHANGED <<engine, stream, policies, hash, timers, consumer, due, seen, told>>

\* createEscalationTimelineEntry; whatever goes wrong is swallowed.
PostEntry(q) ==
    /\ qpc[q] = "post"
    /\ \/ /\ entries' = [entries EXCEPT ![At(q)] = @ \cup {seen[q].level}]
          /\ UNCHANGED faults
       \/ Fault("post") /\ UNCHANGED entries
    /\ GotoQ(q, "advance")
    /\ UNCHANGED <<engine, stream, policies, hash, timers, consumer, due, seen, notified>>

NextLevel(q) == seen[q].level + 1

\* Slip: the last level counts as beyond the end.
IsLastButOne(q) == NextLevel(q) + 1 >= Len(LevelsOf[seen[q].policy])

IsLast(q) == NextLevel(q) >= Len(LevelsOf[seen[q].policy])

\* Slip: the state is written back whole.
AdvanceWhole(q) ==
    /\ qpc[q] = "advance"
    /\ hash' = [hash EXCEPT ![At(q)] =
                   [seen[q] EXCEPT !.level = NextLevel(q), !.active = ~IsLast(q)]]
    /\ GotoQ(q, IF IsLast(q) THEN "remove" ELSE "schedule")
    /\ UNCHANGED <<engine, stream, policies, timers, consumer, due, seen, told, faults>>

\* HSET of the next level; after the last one timerActive becomes 'false'.  A hash that
\* was deleted meanwhile comes back with these fields only.
Advance(q) ==
    /\ qpc[q] = "advance"
    /\ hash' = [hash EXCEPT ![At(q)].level = NextLevel(q),
                            ![At(q)].active = @ /\ ~IsLast(q)]
    /\ GotoQ(q, IF IsLast(q) THEN "remove" ELSE "schedule")
    /\ UNCHANGED <<engine, stream, policies, timers, consumer, due, seen, told, faults>>

\* ZADD at the next level's time, counted from the last status change.
Schedule(q) ==
    /\ qpc[q] = "schedule"
    /\ timers' = [timers EXCEPT ![At(q)] = seen[q].since + LevelAt(seen[q].policy, NextLevel(q)).after]
    /\ NextDue(q)
    /\ UNCHANGED <<engine, stream, policies, hash, consumer, told, faults>>

\* The escalation is given up: HSET timerActive 'false'.
Expire(q) ==
    /\ qpc[q] = "expire"
    /\ hash' = [hash EXCEPT ![At(q)].active = FALSE]
    /\ GotoQ(q, "remove")
    /\ UNCHANGED <<engine, stream, policies, timers, consumer, due, seen, told, faults>>

\* Slip: a timer whose hash is gone is passed over.
KeepOrphanTimer(q) ==
    /\ qpc[q] = "remove"
    /\ timers' = [timers EXCEPT ![At(q)] = IF Live(seen[q]) THEN 0 ELSE @]
    /\ NextDue(q)
    /\ UNCHANGED <<engine, stream, policies, hash, consumer, told, faults>>

\* ZREM
DropTimer(q) ==
    /\ qpc[q] = "remove"
    /\ timers' = [timers EXCEPT ![At(q)] = 0]
    /\ NextDue(q)
    /\ UNCHANGED <<engine, stream, policies, hash, consumer, told, faults>>

\* A call is rejected, which ends the run of the poller, or its pod dies.
PollerStops(q) ==
    /\ Fault("poller") /\ qpc[q] # "idle"
    /\ due' = [due EXCEPT ![q] = << >>]
    /\ seen' = [seen EXCEPT ![q] = NoHash]
    /\ GotoQ(q, "idle")
    /\ UNCHANGED <<engine, stream, policies, hash, timers, consumer, told>>

PollerStep(q) == \/ Poll(q) \/ ReadState(q) \/ Notify(q) \/ PostEntry(q) \/ Advance(q)
                 \/ Schedule(q) \/ Expire(q) \/ DropTimer(q)

-----------------------------------------------------------------------------
Next == \/ Tick \/ Publish \/ PublishFails
        \/ \E i \in Incidents : Declare(i) \/ ChangeStatus(i)
        \/ \E p \in Policies : StorePolicy(p)
        \/ \E c \in Consumers : ConsumerStep(c) \/ ConsumerStops(c)
        \/ \E q \in Pollers : PollerStep(q) \/ LookupFails(q) \/ PollerStops(q)

Spec == Init /\ [][Next]_vars

\* Time passes, an appended event arrives, both interval timers fire and Node's event
\* loop gets to every await that is answered.
FairSpec == /\ Spec
            /\ WF_vars(Tick) /\ WF_vars(Publish)
            /\ \A c \in Consumers : WF_vars(ConsumerStep(c))
            /\ \A q \in Pollers : WF_vars(PollerStep(q))

-----------------------------------------------------------------------------
(* Safety *)

\* Every stored policy has its levels in strictly increasing order, any two of them
\* (escalation-policies.ts compares neighbours only).
LevelsIncrease ==
    \A p \in policies : \A j, k \in 1..Len(LevelsOf[p]) :
        j < k => LevelsOf[p][j].after < LevelsOf[p][k].after

\* The first level is never told before the incident stood still for its time,
\* whatever overlaps and fails (timer-manager.ts, handleIncidentDeclared).
FirstLevelWhenDue ==
    \A i \in Incidents : \A n \in notified[i] :
        n.level = 0 => \E p \in policies : n.at >= Head(history[i]) + LevelAt(p, 0).after

\* Requirement 12.2: each successive level is told only after its notifyAfter threshold,
\* measured from the last status change.
EscalatesWhenDue ==
    \A i \in Incidents : \A n \in notified[i] :
        \E p \in policies : /\ n.level < Len(LevelsOf[p])
                            /\ n.at >= Head(history[i]) + LevelAt(p, n.level).after

Declares(e, i) == e.type = "declared" /\ e.incident = i

\* The declaration of an incident is on its way: its escalation may still be armed.
Awaited(i) ==
    \/ history[i] = << >>
    \/ \E e \in unsent : Declares(e, i)
    \/ \E k \in 1..Len(stream) : Declares(stream[k], i)
    \/ \E c \in Consumers : \E k \in 1..Len(batch[c]) :
          /\ Declares(batch[c][k], i)
          /\ k = 1 => cpc[c] \in {"handle", "store"}

Phase(i) == IF Live(hash[i]) THEN "live" ELSE IF Awaited(i) THEN "new" ELSE "stopped"

\* A level is under way from the HGETALL that finds the escalation live.
Underway(i) == {seen[q].level : q \in {x \in Pollers : qpc[x] = "policy" /\ At(x) = i}}

Contract == INSTANCE EscalationContract
                WITH Incidents <- Incidents,
                     Levels    <- Levels,
                     phase     <- [i \in Incidents |-> Phase(i)],
                     underway  <- [i \in Incidents |-> Underway(i)],
                     told      <- [i \in Incidents |-> {n.level : n \in notified[i]}]

\* However consumers and pollers overlap and whatever fails, no level is skipped, and an
\* escalation that a status change or its last level has stopped begins no level again:
\* what a slow poller writes back does not revive it (triggerEscalation).
ImplementsContract == Contract!Spec

-----------------------------------------------------------------------------
(* The inductive invariant *)

\* A declaration carries the time it was made.
Recorded(e) == e.type = "declared" => history[e.incident] # << >> /\ e.at = Head(history[e.incident])

\* The declaration of an incident is in one place and once: not sent, unread, or in the
\* batch of one consumer.
Placed ==
    /\ \A e \in unsent : Recorded(e)
    /\ \A j \in 1..Len(stream) :
          /\ Recorded(stream[j])
          /\ stream[j].type = "declared" =>
                /\ stream[j] \notin unsent
                /\ \A k \in 1..Len(stream) : stream[k] = stream[j] => k = j
                /\ \A c \in Consumers : \A k \in 1..Len(batch[c]) : batch[c][k] # stream[j]
    /\ \A c \in Consumers : \A j \in 1..Len(batch[c]) :
          /\ Recorded(batch[c][j])
          /\ batch[c][j].type = "declared" =>
                /\ batch[c][j] \notin unsent
                /\ \A d \in Consumers : \A k \in 1..Len(batch[d]) :
                      batch[d][k] = batch[c][j] => d = c /\ k = j

\* Until its declaration is handled nothing is known of an incident.
Untouched(i) == Awaited(i) => /\ hash[i].policy = 0 /\ timers[i] = 0 /\ notified[i] = {}
                              /\ \A q \in Pollers : \A k \in 1..Len(due[q]) : due[q][k] # i

\* The time of the first level of some policy has come at a moment.
Ripe(i, moment) == \E p \in policies : moment >= Head(history[i]) + LevelAt(p, 0).after

\* What a hash says, when it was written or read: its policy is stored, it counts from the
\* declaration, the levels before its own were told, and its own there is while it is active.
Grounded(row, i) ==
    row.policy # 0 =>
        /\ row.policy \in policies /\ row.since = Head(history[i])
        /\ \A k \in 0..(row.level - 1) : \E n \in notified[i] : n.level = k
        /\ row.active => row.level < Len(LevelsOf[row.policy])

\* What a poller has read still agrees with the hash, unless that is deleted.
Reading(q) ==
    /\ \A k \in 1..Len(due[q]) : Ripe(due[q][k], now)
    /\ qpc[q] \in {"policy", "post", "advance", "schedule", "expire"} =>
          /\ Live(seen[q]) /\ Grounded(seen[q], At(q))
          /\ hash[At(q)].policy \in {0, seen[q].policy}
    /\ qpc[q] \in {"post", "advance"} => \E n \in notified[At(q)] : n.level = seen[q].level
    /\ qpc[q] = "schedule" => ~IsLast(q)

\* An incident is armed once, by its declaration; whatever the pollers write later leaves
\* it with the policy it was armed with, or without one.
IInv == /\ TypeOK /\ Placed
        /\ \A p \in policies : Accepts(LevelsOf[p])
        /\ \A c \in Consumers : cpc[c] \in {"store", "arm"} =>
                                    Current(c).type = "declared" /\ chosen[c] \in policies
        /\ \A i \in Incidents : Untouched(i)
        /\ \A i \in Incidents : Grounded(hash[i], i)
        /\ \A i \in Incidents : timers[i] # 0 => Ripe(i, timers[i])
        /\ \A q \in Pollers : Reading(q)
        /\ FirstLevelWhenDue

-----------------------------------------------------------------------------
(* Liveness *)

\* An armed escalation tells every level of its policy and records it, unless the status
\* changes, though pollers overlap and die; only a failed lookup or post excuses it.
ArmedIsEscalated ==
    [](faults \subseteq {"poller", "consumer", "publish"}) =>
        \A i \in Incidents : \A p \in Policies :
            (hash[i].policy = p /\ hash[i].active /\ timers[i] # 0) ~>
                \/ Len(history[i]) > 1
                \/ 0..(Len(LevelsOf[p]) - 1) \subseteq entries[i]

\* The timer of a stopped escalation goes, also one that a slow poller has put back
\* after the status change: the next poll finds no live hash and removes it.
StoppedTimerGoes ==
    \A i \in Incidents : Phase(i) = "stopped" ~> timers[i] = 0

\* Requirements 12.1 and 12.4: a status change resets the sequence, so an incident that
\* stands still after it, in an active status, is escalated to the first level again.
StandstillEscalates ==
    \A i \in Incidents : \A n \in 2..(MaxChanges + 1) :
        (Active(i) /\ Len(history[i]) = n /\ policies # {}) ~>
            \/ Len(history[i]) # n
            \/ \E m \in notified[i] : m.level = 0 /\ m.at > LastChange(i)
=============================================================================
