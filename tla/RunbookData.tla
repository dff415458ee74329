---------------------------- MODULE RunbookData ----------------------------
(***************************************************************************)
(* Runbooks and the results of their steps, shared by ExecutionContract    *)
(* (what an execution's row promises) and RunbookWorker (how the workers   *)
(* run it).                                                                *)
(***************************************************************************)
EXTENDS Integers, Sequences, FiniteSets

CONSTANTS Executions,   \* the ids of the executions
          StepsOf,      \* the steps of each execution's runbook, as stored
          RollbackOf    \* its rollback steps, as stored

\* Of a step: its place, whether a human or a command does it, and its retries.
RunbookStep == [order: Int, type: {"manual", "automated"}, retries: 0..10]

\* A stored list is in any order, but no two of its steps have the same place.
Listed(steps) == /\ steps \in Seq(RunbookStep)
                 /\ \A j, k \in 1..Len(steps) : steps[j].order = steps[k].order => j = k

ASSUME PlanAssumption ==
    /\ StepsOf \in [Executions -> Seq(RunbookStep)]
    /\ RollbackOf \in [Executions -> Seq(RunbookStep)]
    /\ \A e \in Executions : StepsOf[e] # << >> /\ Listed(StepsOf[e]) /\ Listed(RollbackOf[e])

\* Slip: the steps run in the order they are stored in.
AsStored(steps) == steps

\* The steps sorted by order: the k-th is the one with k - 1 steps before it.
Ascending(steps) ==
    [k \in 1..Len(steps) |->
        CHOOSE s \in {steps[j] : j \in 1..Len(steps)} :
            Cardinality({j \in 1..Len(steps) : steps[j].order < s.order}) = k - 1]

Descending(steps) == [k \in 1..Len(steps) |-> Ascending(steps)[Len(steps) + 1 - k]]

\* The lists as they are executed: the steps in order, the rollback steps in reverse.
Forward  == [e \in Executions |-> Ascending(StepsOf[e])]
Backward == [e \in Executions |-> Descending(RollbackOf[e])]

Result == [order: Int, status: {"success", "failed", "skipped", "timed_out"}, retryCount: Nat]

Outcome(step, status, count) == [order |-> step.order, status |-> status, retryCount |-> count]

\* What executing a step may record.  A timeout is not retried; retryCount counts the
\* failed attempts, so it exceeds the retries by one when they are exhausted.
OutcomesOf(step) ==
    IF step.type = "manual" THEN {Outcome(step, "skipped", 0)}
    ELSE {Outcome(step, s, n) : s \in {"success", "timed_out"}, n \in 0..step.retries}
           \cup {Outcome(step, "failed", step.retries + 1)}

Bad(result)     == result.status \in {"failed", "timed_out"}
AnyBad(results) == \E k \in 1..Len(results) : Bad(results[k])

\* The results of the first steps of a list, in their order.
Follows(results, steps) ==
    /\ Len(results) <= Len(steps)
    /\ \A k \in 1..Len(results) : results[k] \in OutcomesOf(steps[k])

\* The results that executing every step of a list may record.
RunsOf(steps) ==
    {u \in [1..Len(steps) -> UNION {OutcomesOf(steps[k]) : k \in 1..Len(steps)}] :
        Follows(u, steps)}
============================================================================
