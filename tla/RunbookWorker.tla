--------------------------- MODULE RunbookWorker ---------------------------
(***************************************************************************)
(* Executions of runbooks: the handler of the incident-engine that inserts *)
(* an execution and appends it to a Redis stream; the replicas of the      *)
(* runbook-worker, which read their stream as one consumer group, run the  *)
(* steps, record and report each result, roll back after a failed step and *)
(* acknowledge the message; and the watchdog of each replica, which fails  *)
(* executions that make no progress.  A process advances by one await at a *)
(* time.                                                                   *)
(***************************************************************************)
EXTENDS RunbookData

CONSTANTS Workers,      \* the runbook-worker pods
          BatchMax,     \* the messages one XREADGROUP returns at most
          EngineStream, \* the stream the engine appends to
          FaultKinds,   \* the faults that may happen: "append", "throw", "ack", "crash"
          MaxFaults     \* bound: how many of them

ASSUME WorkerAssumption == BatchMax \in Nat \ {0} /\ MaxFaults \in Nat

VARIABLES status, results, error,   \* the rows of runbook_executions
          progress,   \* their last_progress_at: NULL, within the timeout or beyond it
          request,    \* how far the engine's handler is
          stream,     \* the messages of the workers' stream that nobody has read
          batch,      \* the messages each worker has read and not finished
          pc,         \* the statement each worker is about to run
          done,       \* the results of the steps, as the executor collects them
          undone,     \* those of the rollback steps
          attempt,    \* the failed attempts at the current step
          ran,        \* the commands run for each execution, in order
          reports,    \* the results reported on the progress stream
          faults      \* the faults so far

STREAM_KEY == "stream:runbook-executions"

table  == <<status, results, error, progress>>
local  == <<pc, batch, done, undone, attempt>>
vars   == <<status, results, error, progress, request, stream, batch, pc, done, undone, attempt,
            ran, reports, faults>>

StatusValues == {"none", "pending", "running", "completed", "failed", "rolled_back"}
PcValues     == {"poll", "start", "step", "save", "report", "rollback", "settle", "ack"}
Command      == [undo: BOOLEAN, order: Int]

TypeOK == /\ status \in [Executions -> StatusValues]
          /\ results \in [Executions -> Seq(Result)]
          /\ error \in [Executions -> {"none", "watchdog", "step"}]
          /\ progress \in [Executions -> {"null", "recent", "stale"}]
          /\ request \in [Executions -> {"none", "append", "accepted", "refused"}]
          /\ stream \in Seq(Executions)
          /\ batch \in [Workers -> Seq(Executions)]
          /\ pc \in [Workers -> PcValues]
          /\ \A w \in Workers : (pc[w] = "poll") = (batch[w] = << >>)
          /\ done \in [Workers -> Seq(Result)]
          /\ undone \in [Workers -> Seq(Result)]
          /\ attempt \in [Workers -> Nat]
          /\ ran \in [Executions -> Seq(Command)]
          /\ reports \in [Executions -> Seq(Result)]
          /\ faults \in 0..MaxFaults

Init == /\ status = [e \in Executions |-> "none"]
        /\ results = [e \in Executions |-> << >>]
        /\ error = [e \in Executions |-> "none"]
        /\ progress = [e \in Executions |-> "null"]
        /\ request = [e \in Executions |-> "none"]
        /\ stream = << >>
        /\ batch = [w \in Workers |-> << >>]
        /\ pc = [w \in Workers |-> "poll"]
        /\ done = [w \in Workers |-> << >>]
        /\ undone = [w \in Workers |-> << >>]
        /\ attempt = [w \in Workers |-> 0]
        /\ ran = [e \in Executions |-> << >>]
        /\ reports = [e \in Executions |-> << >>]
        /\ faults = 0

Final(s) == s[Len(s)]

\* The execution a worker is at, its runbook and whether the worker rolls back.
Exec(w)    == Head(batch[w])
Steps(w)   == Forward[Exec(w)]
Undo(w)    == Backward[Exec(w)]
Undoing(w) == AnyBad(done[w])

Goto(w, label) == pc' = [pc EXCEPT ![w] = label]
At(w, label)   == pc[w] = label

\* The list the worker is at and what it has collected of it.
List(w)      == IF Undoing(w) THEN Undo(w) ELSE Steps(w)
Collected(w) == IF Undoing(w) THEN undone[w] ELSE done[w]
Current(w)   == List(w)[Len(Collected(w)) + 1]

\* After a step: the next one or, at the end of the list, the final status.
NextStep(w) == IF Len(Collected(w)) < Len(List(w)) THEN "step" ELSE "settle"

-----------------------------------------------------------------------------
(* The engine: POST /runbooks/:id/execute, for an incident and a runbook there are *)

\* INSERT the execution
Trigger(e) ==
    /\ request[e] = "none"
    /\ request' = [request EXCEPT ![e] = "append"]
    /\ status' = [status EXCEPT ![e] = "pending"]
    /\ UNCHANGED <<results, error, progress, stream, local, ran, reports, faults>>

Appended(e) == stream' = IF EngineStream = STREAM_KEY THEN Append(stream, e) ELSE stream

\* XADD, and 202
Accept(e) ==
    /\ request[e] = "append"
    /\ request' = [request EXCEPT ![e] = "accepted"]
    /\ Appended(e)
    /\ UNCHANGED <<table, local, ran, reports, faults>>

\* XADD is rejected, though Redis may have done it, and the answer is 503; or the engine
\* dies in between.  The row stays pending.
AppendFails(e) ==
    /\ "append" \in FaultKinds /\ faults < MaxFaults /\ faults' = faults + 1
    /\ request[e] = "append"
    /\ request' = [request EXCEPT ![e] = "refused"]
    /\ Appended(e) \/ UNCHANGED stream
    /\ UNCHANGED <<table, local, ran, reports>>

-----------------------------------------------------------------------------
(* The consumer *)

\* Slip: the messages stay readable, as after reading them without the group.
PollKeeps(w) ==
    /\ At(w, "poll") /\ stream # << >>
    /\ batch' = [batch EXCEPT ![w] = <<Head(stream)>>]
    /\ Goto(w, "start")
    /\ UNCHANGED <<table, request, stream, done, undone, attempt, ran, reports, faults>>

\* XREADGROUP ... '>': the oldest messages that no worker of the group has read.
Poll(w) ==
    LET n == IF Len(stream) < BatchMax THEN Len(stream) ELSE BatchMax
    IN  /\ At(w, "poll") /\ stream # << >>
        /\ batch' = [batch EXCEPT ![w] = SubSeq(stream, 1, n)]
        /\ stream' = SubSeq(stream, n + 1, Len(stream))
        /\ Goto(w, "start")
        /\ UNCHANGED <<table, request, done, undone, attempt, ran, reports, faults>>

Forget(w) == /\ done' = [done EXCEPT ![w] = << >>]
             /\ undone' = [undone EXCEPT ![w] = << >>]
             /\ attempt' = [attempt EXCEPT ![w] = 0]

\* Slip: only the first message of a batch is processed.
AckDropsBatch(w) ==
    /\ At(w, "ack")
    /\ batch' = [batch EXCEPT ![w] = << >>]
    /\ Goto(w, "poll")
    /\ Forget(w)
    /\ UNCHANGED <<table, request, stream, ran, reports, faults>>

\* Slip: the loop over the batch misses its end.
AckGoesOn(w) ==
    /\ At(w, "ack")
    /\ batch' = [batch EXCEPT ![w] = Tail(@)]
    /\ Goto(w, "start")
    /\ Forget(w)
    /\ UNCHANGED <<table, request, stream, ran, reports, faults>>

\* XACK, whatever the outcome, then the next message of the batch.
Ack(w) ==
    /\ At(w, "ack")
    /\ batch' = [batch EXCEPT ![w] = Tail(@)]
    /\ Goto(w, IF Len(batch[w]) = 1 THEN "poll" ELSE "start")
    /\ Forget(w)
    /\ UNCHANGED <<table, request, stream, ran, reports, faults>>

-----------------------------------------------------------------------------
(* The executor *)

\* fetchRunbookSteps and markExecutionRunning.
Start(w) ==
    /\ At(w, "start")
    /\ status' = [status EXCEPT ![Exec(w)] = "running"]
    /\ Goto(w, NextStep(w))
    /\ UNCHANGED <<results, error, progress, request, stream, batch, done, undone, attempt, ran, reports, faults>>

\* The result of the current step: a step's is saved, then reported; a rollback step's
\* is reported only.
Collect(w, result) ==
    \/ /\ ~Undoing(w)
       /\ done' = [done EXCEPT ![w] = Append(@, result)]
       /\ Goto(w, "save")
       /\ UNCHANGED undone
    \/ /\ Undoing(w)
       /\ undone' = [undone EXCEPT ![w] = Append(@, result)]
       /\ Goto(w, "report")
       /\ UNCHANGED done

SkipManual(w) ==
    /\ At(w, "step")
    /\ Current(w).type = "manual"
    /\ Collect(w, Outcome(Current(w), "skipped", 0))
    /\ UNCHANGED <<table, request, stream, batch, attempt, ran, reports, faults>>

\* One run of the step's command: it succeeds, it times out, or it fails and is tried
\* again after the backoff until the retries are exhausted.
Attempt(w) ==
    LET step == Current(w)
    IN  /\ At(w, "step")
        /\ step.type = "automated"
        /\ ran' = [ran EXCEPT ![Exec(w)] = Append(@, [undo |-> Undoing(w), order |-> step.order])]
        /\ \/ /\ \/ Collect(w, Outcome(step, "success", attempt[w]))
                 \/ Collect(w, Outcome(step, "timed_out", attempt[w]))
                 \/ attempt[w] = step.retries /\ Collect(w, Outcome(step, "failed", attempt[w] + 1))
              /\ attempt' = [attempt EXCEPT ![w] = 0]
           \/ /\ attempt[w] < step.retries
              /\ attempt' = [attempt EXCEPT ![w] = @ + 1]
              /\ UNCHANGED <<pc, done, undone>>
        /\ UNCHANGED <<table, request, stream, batch, reports, faults>>

\* Slip: only last_progress_at is written.
SaveProgressOnly(w) ==
    /\ At(w, "save")
    /\ progress' = [progress EXCEPT ![Exec(w)] = "recent"]
    /\ Goto(w, "report")
    /\ UNCHANGED <<status, results, error, request, stream, batch, done, undone, attempt, ran, reports, faults>>

\* updateExecutionStepResults
Save(w) ==
    /\ At(w, "save")
    /\ results' = [results EXCEPT ![Exec(w)] = done[w]]
    /\ progress' = [progress EXCEPT ![Exec(w)] = "recent"]
    /\ Goto(w, "report")
    /\ UNCHANGED <<status, error, request, stream, batch, done, undone, attempt, ran, reports, faults>>

\* publishProgress.  After the report of a failed step the executor turns to the rollback.
Report(w) ==
    LET turning == Undoing(w) /\ undone[w] = << >>
    IN  /\ At(w, "report")
        /\ reports' = [reports EXCEPT ![Exec(w)] = Append(@, IF undone[w] = << >> THEN Final(done[w])
                                                            ELSE Final(undone[w]))]
        /\ Goto(w, IF turning THEN "rollback" ELSE NextStep(w))
        /\ UNCHANGED <<table, request, stream, batch, done, undone, attempt, ran, faults>>

\* fetchRollbackSteps
FetchRollback(w) ==
    /\ At(w, "rollback")
    /\ Goto(w, NextStep(w))
    /\ UNCHANGED <<table, request, stream, batch, done, undone, attempt, ran, reports, faults>>

\* Slip: a rollback in which a step failed counts as rolled back.
SettleBlindly(w) ==
    LET e == Exec(w)
    IN  /\ At(w, "settle")
        /\ \/ /\ ~Undoing(w)
              /\ status' = [status EXCEPT ![e] = "completed"]
              /\ UNCHANGED <<results, error>>
           \/ /\ Undoing(w)
              /\ status' = [status EXCEPT ![e] = "rolled_back"]
              /\ results' = [results EXCEPT ![e] = done[w] \o undone[w]]
              /\ error' = [error EXCEPT ![e] = "step"]
        /\ Goto(w, "ack")
        /\ UNCHANGED <<progress, request, stream, batch, done, undone, attempt, ran, reports, faults>>

\* The final UPDATE, whatever the status is by now.
Settle(w) ==
    LET e == Exec(w)
    IN  /\ At(w, "settle")
        /\ \/ /\ ~Undoing(w)
              /\ status' = [status EXCEPT ![e] = "completed"]
              /\ UNCHANGED <<results, error>>
           \/ /\ Undoing(w)
              /\ status' = [status EXCEPT ![e] = IF AnyBad(undone[w]) THEN "failed" ELSE "rolled_back"]
              /\ results' = [results EXCEPT ![e] = done[w] \o undone[w]]
              /\ error' = [error EXCEPT ![e] = "step"]
        /\ Goto(w, "ack")
        /\ UNCHANGED <<progress, request, stream, batch, done, undone, attempt, ran, reports, faults>>

-----------------------------------------------------------------------------
(* Time and the watchdog *)

\* The timeout passes since the last progress of an execution.
TimeoutPasses(e) ==
    /\ status[e] = "running" /\ progress[e] = "recent"
    /\ progress' = [progress EXCEPT ![e] = "stale"]
    /\ UNCHANGED <<status, results, error, request, stream, local, ran, reports, faults>>

\* Running executions whose last_progress_at is older than the timeout: NULL is not.
Stalled == {e \in Executions : status[e] = "running" /\ progress[e] = "stale"}

\* Slip: the UPDATE does not ask for the status.
WatchdogIgnoresStatus ==
    LET E == {e \in Executions : progress[e] = "stale" /\ status[e] # "failed"}
    IN  /\ E # {}
        /\ status' = [e \in Executions |-> IF e \in E THEN "failed" ELSE status[e]]
        /\ error' = [e \in Executions |-> IF e \in E THEN "watchdog" ELSE error[e]]
        /\ UNCHANGED <<results, progress, request, stream, local, ran, reports, faults>>

\* Slip: the watchdog is never started.
WatchdogOff == FALSE /\ UNCHANGED vars

\* checkStalledExecutions: one UPDATE, of any replica.
Watchdog ==
    /\ Stalled # {}
    /\ status' = [e \in Executions |-> IF e \in Stalled THEN "failed" ELSE status[e]]
    /\ error' = [e \in Executions |-> IF e \in Stalled THEN "watchdog" ELSE error[e]]
    /\ UNCHANGED <<results, progress, request, stream, local, ran, reports, faults>>

-----------------------------------------------------------------------------
(* Faults *)

Fault(kind) == kind \in FaultKinds /\ faults < MaxFaults /\ faults' = faults + 1

\* A query or an XADD is rejected: executeRunbook throws, and processMessage logs that
\* and acknowledges the message.
Throw(w) ==
    /\ Fault("throw")
    /\ pc[w] \in {"start", "save", "report", "rollback", "settle"}
    /\ Goto(w, "ack")
    /\ UNCHANGED <<table, request, stream, batch, done, undone, attempt, ran, reports>>

\* The worker is back at the loop and the rest of its batch, read but neither processed
\* nor acknowledged, is never read again.
Abandon(w) == /\ batch' = [batch EXCEPT ![w] = << >>]
              /\ Goto(w, "poll")
              /\ Forget(w)
              /\ UNCHANGED <<table, request, stream, ran, reports>>

\* The XACK is rejected: the consumer loop catches that outside its loops over the batch.
AckFails(w) == Fault("ack") /\ At(w, "ack") /\ Abandon(w)

\* The process dies, or is told to stop, and starts anew.
Crash(w) == Fault("crash") /\ pc[w] # "poll" /\ Abandon(w)

-----------------------------------------------------------------------------
Step(w) == \/ Poll(w) \/ Start(w) \/ SkipManual(w) \/ Attempt(w) \/ Save(w) \/ Report(w)
           \/ FetchRollback(w) \/ Settle(w) \/ Ack(w)

Next == \/ \E e \in Executions : Trigger(e) \/ Accept(e) \/ AppendFails(e) \/ TimeoutPasses(e)
        \/ \E w \in Workers : Step(w) \/ Throw(w) \/ AckFails(w) \/ Crash(w)
        \/ Watchdog

Spec == Init /\ [][Next]_vars

\* Node's event loop gets to every await that is answered, time passes, and the
\* interval timer of the watchdog fires.
FairSpec == /\ Spec
            /\ \A w \in Workers : WF_vars(Step(w))
            /\ \A e \in Executions : WF_vars(Accept(e)) /\ WF_vars(TimeoutPasses(e))
            /\ WF_vars(Watchdog)

-----------------------------------------------------------------------------
(* Safety *)

Honest(e) ==
    LET steps == Forward[e]
        undo  == Backward[e]
        row   == results[e]
        Turn(k) == Bad(row[k]) /\ \A j \in 1..(k - 1) : ~Bad(row[j])
        Undone(k) == SubSeq(row, k + 1, Len(row))
    IN  /\ status[e] = "completed" =>
              Follows(row, steps) /\ Len(row) = Len(steps) /\ ~AnyBad(row)
        /\ status[e] = "rolled_back" \/ error[e] = "step" =>
              \E k \in 1..Len(row) :
                  /\ Turn(k)
                  /\ Follows(SubSeq(row, 1, k), steps)
                  /\ Follows(Undone(k), undo) /\ Len(Undone(k)) = Len(undo)
                  /\ status[e] = IF AnyBad(Undone(k)) THEN "failed" ELSE "rolled_back"

\* The final status is the one that the recorded results call for, also when the
\* watchdog has failed the execution meanwhile (executor.ts, the final UPDATEs).
HonestStatus == \A e \in Executions : Honest(e)

\* How often a command was run for an execution.
Runs(e, command) == Cardinality({j \in 1..Len(ran[e]) : ran[e][j] = command})

\* One command may be run before another.
Precedes(a, b) == \/ ~a.undo /\ b.undo
                  \/ a.undo = b.undo /\ IF b.undo THEN a.order >= b.order ELSE a.order <= b.order

InOrder(e) ==
    LET Of(c) == IF c.undo THEN RollbackOf[e] ELSE StepsOf[e]
    IN  /\ \A j, k \in 1..Len(ran[e]) : j < k => Precedes(ran[e][j], ran[e][k])
        /\ \A k \in 1..Len(ran[e]) :
              \E n \in 1..Len(Of(ran[e][k])) :
                  LET step == Of(ran[e][k])[n]
                  IN  /\ step.type = "automated" /\ step.order = ran[e][k].order
                      /\ Runs(e, ran[e][k]) <= step.retries + 1

\* The commands run in the runbook's order, each at most once and once per retry, then
\* those of the rollback in reverse order; none is run again by another worker, after a
\* crash or by a redelivery (consumer.ts reads with '>' only).
CommandsInOrder == \A e \in Executions : InOrder(e)

Leads(e) == \A k \in 1..Len(reports[e]) :
                \/ k <= Len(results[e]) /\ results[e][k] = reports[e][k]
                \/ k > Len(results[e]) /\ AnyBad(results[e])

\* The progress stream never runs ahead of the row: a step's result is reported only
\* once it is saved, so a crash between the two loses the report and not the result.
RowLeadsStream == \A e \in Executions : Leads(e)

\* Once an execution is completed or rolled back nobody touches its row: neither the
\* watchdog nor another worker.
OutcomeStays ==
    [][\A e \in Executions : status[e] \in {"completed", "rolled_back"} =>
            status'[e] = status[e] /\ results'[e] = results[e] /\ error'[e] = error[e]]_vars

Contract == INSTANCE ExecutionContract WITH status <- status, results <- results, error <- error
ImplementsContract == Contract!Spec

-----------------------------------------------------------------------------
(* The inductive invariant *)

Sent(e) == request[e] \in {"accepted", "refused"}

\* A message is in one place and once: unread, or in the batch of the worker that read
\* it.  Until that worker starts it its execution is pending.
Owned ==
    /\ \A j \in 1..Len(stream) :
          /\ Sent(stream[j]) /\ status[stream[j]] = "pending"
          /\ \A k \in 1..Len(stream) : stream[k] = stream[j] => k = j
          /\ \A w \in Workers : \A k \in 1..Len(batch[w]) : batch[w][k] # stream[j]
    /\ \A w \in Workers : \A j \in 1..Len(batch[w]) :
          /\ Sent(batch[w][j])
          /\ j > 1 \/ At(w, "start") => status[batch[w][j]] = "pending"
          /\ \A v \in Workers : \A k \in 1..Len(batch[v]) :
                batch[v][k] = batch[w][j] => v = w /\ k = j

\* The row of an execution that nobody has started says nothing; "failed" has an author.
RowOK(e) == /\ (status[e] = "none") = (request[e] = "none")
            /\ request[e] = "append" => status[e] = "pending"
            /\ status[e] \in {"none", "pending"} =>
                  /\ results[e] = << >> /\ error[e] = "none" /\ progress[e] = "null"
                  /\ ran[e] = << >> /\ reports[e] = << >>
            /\ status[e] = "running" => error[e] = "none"

\* The results a worker has in memory, and what of them is in the row and on the stream.
Collecting(w) ==
    LET e   == Exec(w)
        all == done[w] \o undone[w]
    IN  /\ status[e] = "running" \/ (status[e] = "failed" /\ error[e] = "watchdog")
        /\ Follows(done[w], Steps(w)) /\ Follows(undone[w], Undo(w))
        /\ \A k \in 1..(Len(done[w]) - 1) : ~Bad(done[w][k])
        /\ ~Undoing(w) => undone[w] = << >>
        /\ At(w, "step") => Len(Collected(w)) < Len(List(w))
        /\ At(w, "save") => undone[w] = << >>
        /\ pc[w] \in {"save", "report"} => done[w] # << >>
        /\ At(w, "rollback") => Undoing(w) /\ undone[w] = << >>
        /\ At(w, "settle") => Len(Collected(w)) = Len(List(w))
        /\ results[e] = IF At(w, "save") THEN SubSeq(done[w], 1, Len(done[w]) - 1) ELSE done[w]
        /\ reports[e] = SubSeq(all, 1, Len(all) - IF pc[w] \in {"save", "report"} THEN 1 ELSE 0)

\* The commands a worker has run: those of the steps it has collected, and the failed
\* attempts at the current one.
Running(w) ==
    LET e == Exec(w)
    IN  /\ attempt[w] > 0 => /\ At(w, "step") /\ Current(w).type = "automated"
                             /\ attempt[w] <= Current(w).retries
                             /\ Runs(e, [undo |-> Undoing(w), order |-> Current(w).order]) = attempt[w]
        /\ \A j \in 1..Len(ran[e]) :
              LET c    == ran[e][j]
                  list == IF c.undo THEN Undo(w) ELSE Steps(w)
                  got  == IF c.undo THEN undone[w] ELSE done[w]
              IN  \E n \in 1..Len(list) :
                      /\ list[n].order = c.order
                      /\ n <= Len(got) \/ (n = Len(got) + 1 /\ c.undo = Undoing(w) /\ attempt[w] > 0)

\* One worker runs an execution, once, and its memory, the row, the stream and the
\* commands agree at each of its statements.
IInv == /\ TypeOK /\ Owned
        /\ \A e \in Executions : RowOK(e)
        /\ \A w \in Workers :
              /\ pc[w] \in {"poll", "start"} => done[w] = << >> /\ undone[w] = << >> /\ attempt[w] = 0
              /\ pc[w] \in {"step", "save", "report", "rollback", "settle"} => Collecting(w) /\ Running(w)
        /\ HonestStatus /\ CommandsInOrder /\ RowLeadsStream

-----------------------------------------------------------------------------
(* Liveness *)

AtWork(e, w) == batch[w] # << >> /\ Exec(w) = e /\ pc[w] \notin {"start", "ack"}

\* Without faults every triggered execution gets the outcome its steps call for, though
\* the watchdog may fail it on the way.
EveryExecutionSettles ==
    [](faults = 0) => \A e \in Executions :
        status[e] = "pending" ~> status[e] \in {"completed", "rolled_back"} \/ error[e] = "step"

\* An execution whose worker is gone after a recorded step does not stay running: the
\* watchdog fails it.
RecordedStallFails ==
    \A e \in Executions :
        (status[e] = "running" /\ progress[e] # "null" /\ \A w \in Workers : ~AtWork(e, w))
            ~> status[e] # "running"

\* README.md, communication: an execution that the engine has accepted reaches a worker.
TriggeredIsRead == \A e \in Executions : request[e] = "accepted" ~> status[e] # "pending"

\* design.md, graceful degradation: an execution whose worker loses its connection is
\* failed by the watchdog, whenever that happens.
StallFails ==
    \A e \in Executions :
        (status[e] = "running" /\ \A w \in Workers : ~AtWork(e, w)) ~> status[e] # "running"
============================================================================
