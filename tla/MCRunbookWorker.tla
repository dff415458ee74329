--------------------------- MODULE MCRunbookWorker ---------------------------
(* An instance of RunbookWorker for TLC. *)
EXTENDS RunbookWorker, TLC

CONSTANTS e1, e2

Automated(n, retries) == [order |-> n, type |-> "automated", retries |-> retries]
Manual(n)             == [order |-> n, type |-> "manual", retries |-> 0]

\* A runbook with its steps stored out of order, one of them manual and one retried, and
\* two rollback steps; and one with a manual step only.
MCStepsOf    == (e1 :> <<Automated(5, 1), Automated(1, 0), Manual(3)>>) @@ (e2 :> <<Manual(1)>>)
MCRollbackOf == (e1 :> <<Automated(2, 0), Automated(4, 0)>>) @@ (e2 :> << >>)
=============================================================================
