------------------------- MODULE ExecutionContract -------------------------
(***************************************************************************)
(* What the row of a runbook execution promises its readers: the results   *)
(* grow step by step in the runbook's order, and the final status is the   *)
(* one the results call for.  The watchdog may fail an execution meanwhile *)
(* and the executor, if it still runs, overrides it.                       *)
(***************************************************************************)
EXTENDS RunbookData

VARIABLES status,    \* of each execution; "none" until it is triggered
          results,   \* its step_results
          error      \* who set its error: nobody, the watchdog, a failed step

vars == <<status, results, error>>

Init == /\ status = [e \in Executions |-> "none"]
        /\ results = [e \in Executions |-> << >>]
        /\ error = [e \in Executions |-> "none"]

\* An execution whose outcome is open: running, or failed by the watchdog only.
Open(e) == status[e] = "running" \/ (status[e] = "failed" /\ error[e] = "watchdog")

Trigger(e) == /\ status[e] = "none"
              /\ status' = [status EXCEPT ![e] = "pending"]
              /\ UNCHANGED <<results, error>>

Start(e) == /\ status[e] = "pending"
            /\ status' = [status EXCEPT ![e] = "running"]
            /\ UNCHANGED <<results, error>>

Record(e, result) ==
    LET steps == Forward[e]
        k     == Len(results[e]) + 1
    IN  /\ Open(e)
        /\ k <= Len(steps)
        /\ ~AnyBad(results[e])
        /\ result \in OutcomesOf(steps[k])
        /\ results' = [results EXCEPT ![e] = Append(@, result)]
        /\ UNCHANGED <<status, error>>

Interrupt(E) == /\ \A e \in E : status[e] = "running"
                /\ status' = [e \in Executions |-> IF e \in E THEN "failed" ELSE status[e]]
                /\ error' = [e \in Executions |-> IF e \in E THEN "watchdog" ELSE error[e]]
                /\ UNCHANGED results

Complete(e) == /\ Open(e)
               /\ Len(results[e]) = Len(StepsOf[e]) /\ ~AnyBad(results[e])
               /\ status' = [status EXCEPT ![e] = "completed"]
               /\ UNCHANGED <<results, error>>

\* Every rollback step runs, whether or not one before it fails.
RollBack(e) ==
    /\ Open(e)
    /\ AnyBad(results[e])
    /\ \E undone \in RunsOf(Backward[e]) :
          /\ status' = [status EXCEPT ![e] = IF AnyBad(undone) THEN "failed" ELSE "rolled_back"]
          /\ results' = [results EXCEPT ![e] = @ \o undone]
    /\ error' = [error EXCEPT ![e] = "step"]

Next == \/ \E e \in Executions :
              \/ Trigger(e) \/ Start(e) \/ Complete(e) \/ RollBack(e)
              \/ \E k \in 1..Len(StepsOf[e]) :
                    \E result \in OutcomesOf(Forward[e][k]) : Record(e, result)
        \/ \E E \in SUBSET Executions : Interrupt(E)

Spec == Init /\ [][Next]_vars
============================================================================
