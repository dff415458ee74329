------------------------ MODULE NotificationDelivery ------------------------
(***************************************************************************)
(* Notifications of the notification-service, which come over HTTP or from *)
(* a Redis stream: each is recorded as pending, listed, delivered with up  *)
(* to three attempts and given its final status.  The replicas read the    *)
(* stream as one group; a handler advances by one await at a time.         *)
(***************************************************************************)
EXTENDS Naturals, Sequences

CONSTANTS Notes,       \* the notifications
          Pods,        \* the replicas
          BatchMax,    \* COUNT of XREADGROUP
          FaultKinds,  \* the faults that may happen: "rejected", "crash"
          MaxFaults    \* bound: how many of them

ASSUME NotificationAssumption == BatchMax \in Nat \ {0} /\ MaxFaults \in Nat /\ "none" \notin Pods

VARIABLES kind,      \* how each came: over HTTP, or as which kind of message
          host,      \* the replica that handles it
          pc,        \* the statement its handler is about to run
          stream,    \* the messages no replica has read
          batch,     \* those each replica has read and not finished
          row,       \* notification:{id}
          listed,    \* incident:{id}:notifications
          tries,     \* its delivery attempts
          sent,      \* those that succeeded
          result,    \* the outcome the handler has in memory
          faults     \* the faults so far

redis   == <<row, listed>>
memory  == <<tries, sent, result>>
queues  == <<stream, batch>>
vars    == <<kind, host, pc, stream, batch, row, listed, tries, sent, result, faults>>

MaxAttempts == 3

\* A message may lack a field, as one with a single field "data" does, name a channel
\* that has no handler, or hold recipients that do not parse.
MessageKinds == {"message", "unknown", "incomplete", "garbled"}
Outcomes     == {"delivered", "failed"}
Row          == [status: {"none", "pending"} \cup Outcomes, retryCount: 0..MaxAttempts, error: BOOLEAN]
Steps        == {"store", "index", "send", "count", "recount", "settle", "retries", "error", "finish"}

TypeOK == /\ kind \in [Notes -> {"none", "http"} \cup MessageKinds]
          /\ host \in [Notes -> Pods \cup {"none"}]
          /\ pc \in [Notes -> Steps \cup {"new", "queued", "done", "lost"}]
          /\ stream \in Seq(Notes)
          /\ batch \in [Pods -> Seq(Notes)]
          /\ row \in [Notes -> Row]
          /\ listed \subseteq Notes
          /\ tries \in [Notes -> 0..MaxAttempts]
          /\ sent \in [Notes -> 0..MaxAttempts]
          /\ result \in [Notes -> Outcomes \cup {"none"}]
          /\ \A n \in Notes : pc[n] \in Steps /\ kind[n] # "http" => Head(batch[host[n]]) = n
          /\ faults \in 0..MaxFaults

Init == /\ kind = [n \in Notes |-> "none"]
        /\ host = [n \in Notes |-> "none"]
        /\ pc = [n \in Notes |-> "new"]
        /\ stream = << >>
        /\ batch = [p \in Pods |-> << >>]
        /\ row = [n \in Notes |-> [status |-> "none", retryCount |-> 0, error |-> FALSE]]
        /\ listed = {}
        /\ tries = [n \in Notes |-> 0]
        /\ sent = [n \in Notes |-> 0]
        /\ result = [n \in Notes |-> "none"]
        /\ faults = 0

At(n, label)   == pc[n] = label
Goto(n, label) == pc' = [pc EXCEPT ![n] = label]
Http(n)        == kind[n] = "http"

Fault(f) == f \in FaultKinds /\ faults < MaxFaults /\ faults' = faults + 1

-----------------------------------------------------------------------------
(* Where notifications come from *)

\* POST /notifications, with a body that passes validateNotificationRequest.
Submit(n, p) ==
    /\ At(n, "new")
    /\ kind' = [kind EXCEPT ![n] = "http"]
    /\ host' = [host EXCEPT ![n] = p]
    /\ Goto(n, "store")
    /\ UNCHANGED <<queues, redis, memory, faults>>

\* A message is appended to stream:notifications.
Enqueue(n, k) ==
    /\ At(n, "new")
    /\ kind' = [kind EXCEPT ![n] = k]
    /\ stream' = Append(stream, n)
    /\ Goto(n, "queued")
    /\ UNCHANGED <<host, batch, redis, memory, faults>>

\* Slip: the messages of the group that are not acknowledged are read again.
ReadPending(p) ==
    LET pending == SelectSeq(stream, LAMBDA n : pc[n] \in {"queued", "lost"})
    IN  /\ batch[p] = << >> /\ pending # << >>
        /\ batch' = [batch EXCEPT ![p] = <<Head(pending)>>]
        /\ host' = [host EXCEPT ![Head(pending)] = p]
        /\ Goto(Head(pending), "queued")
        /\ UNCHANGED <<kind, stream, redis, memory, faults>>

\* XREADGROUP ... '>'
Read(p) ==
    LET k == IF Len(stream) < BatchMax THEN Len(stream) ELSE BatchMax
    IN  /\ batch[p] = << >> /\ stream # << >>
        /\ batch' = [batch EXCEPT ![p] = SubSeq(stream, 1, k)]
        /\ stream' = SubSeq(stream, k + 1, Len(stream))
        /\ host' = [n \in Notes |-> IF \E j \in 1..k : stream[j] = n THEN p ELSE host[n]]
        /\ UNCHANGED <<kind, pc, redis, memory, faults>>

-----------------------------------------------------------------------------
(* The handlers: processMessage and the handler of POST /notifications *)

\* The loop goes on to the next message of the batch.
NextMessage(n) == batch' = [batch EXCEPT ![host[n]] = IF Http(n) THEN @ ELSE Tail(@)]

\* processMessage throws: the message is not acknowledged, and so never read again.
Skip(n) == /\ Goto(n, "lost")
           /\ NextMessage(n)
           /\ UNCHANGED <<kind, host, stream, redis, memory>>

\* An incomplete message is acknowledged without a record.
Open(n) ==
    /\ At(n, "queued") /\ \E p \in Pods : batch[p] # << >> /\ Head(batch[p]) = n
    /\ \/ /\ kind[n] # "garbled"
          /\ Goto(n, IF kind[n] = "incomplete" THEN "finish" ELSE "store")
          /\ UNCHANGED <<kind, host, queues, redis, memory>>
       \/ kind[n] = "garbled" /\ Skip(n)
    /\ UNCHANGED faults

\* Slip: the list is written after the delivery.
StoreOnly(n) ==
    /\ At(n, "store")
    /\ row' = [row EXCEPT ![n].status = "pending"]
    /\ Goto(n, "send")
    /\ UNCHANGED <<kind, host, queues, listed, memory, faults>>

Store(n) ==
    /\ At(n, "store")
    /\ row' = [row EXCEPT ![n].status = "pending"]
    /\ Goto(n, "index")
    /\ UNCHANGED <<kind, host, queues, listed, memory, faults>>

Index(n) ==
    /\ At(n, "index")
    /\ listed' = listed \cup {n}
    /\ Goto(n, "send")
    /\ UNCHANGED <<kind, host, queues, row, memory, faults>>

\* The attempts are over: the outcome is known.
Conclude(n, outcome) == result' = [result EXCEPT ![n] = outcome] /\ Goto(n, "settle")

\* Slip: the loop ends one attempt early.
RetryLess(n, k) ==
    \/ k + 1 < MaxAttempts /\ Goto(n, "send") /\ UNCHANGED result
    \/ k + 1 >= MaxAttempts /\ Conclude(n, "failed")

\* Slip: the loop ends one attempt late.
RetryMore(n, k) ==
    \/ k <= MaxAttempts /\ Goto(n, "send") /\ UNCHANGED result
    \/ k > MaxAttempts /\ Conclude(n, "failed")

\* After the k-th attempt has failed: another one, or the end.
Retry(n, k) ==
    \/ k < MaxAttempts /\ Goto(n, "send") /\ UNCHANGED result
    \/ k = MaxAttempts /\ Conclude(n, "failed")

\* One call of the channel's handler; the waits between the attempts are left out.  The
\* HTTP handler counts every attempt in Redis, the stream consumer in memory.
Send(n) ==
    /\ At(n, "send")
    /\ tries' = [tries EXCEPT ![n] = @ + 1]
    /\ \/ /\ kind[n] # "unknown"
          /\ sent' = [sent EXCEPT ![n] = @ + 1]
          /\ \/ Http(n) /\ Goto(n, "count") /\ UNCHANGED result
             \/ ~Http(n) /\ Conclude(n, "delivered")
       \/ /\ \/ Http(n) /\ Goto(n, "recount") /\ UNCHANGED result
             \/ ~Http(n) /\ Retry(n, tries[n] + 1)
          /\ UNCHANGED sent
    /\ UNCHANGED <<kind, host, queues, redis, faults>>

\* HTTP: HSET retryCount after a delivery that succeeded, within the try.
Count(n) ==
    /\ At(n, "count")
    /\ row' = [row EXCEPT ![n].retryCount = tries[n] - 1]
    /\ Conclude(n, "delivered")
    /\ UNCHANGED <<kind, host, queues, listed, tries, sent, faults>>

\* That HSET is rejected: the attempt counts as failed though it delivered.
CountFails(n) ==
    /\ Fault("rejected") /\ At(n, "count")
    /\ Goto(n, "recount")
    /\ UNCHANGED <<kind, host, queues, redis, memory>>

\* HTTP: HSET retryCount in the catch.
Recount(n) ==
    /\ At(n, "recount")
    /\ row' = [row EXCEPT ![n].retryCount = tries[n]]
    /\ Retry(n, tries[n])
    /\ UNCHANGED <<kind, host, queues, listed, tries, sent, faults>>

\* HSET status
Settle(n) ==
    /\ At(n, "settle")
    /\ row' = [row EXCEPT ![n].status = result[n]]
    /\ Goto(n, IF ~Http(n) THEN "retries" ELSE IF result[n] = "failed" THEN "error" ELSE "finish")
    /\ UNCHANGED <<kind, host, queues, listed, memory, faults>>

\* Slip: the attempts are saved for the retries.
SaveAttempts(n) ==
    /\ At(n, "retries")
    /\ row' = [row EXCEPT ![n].retryCount = tries[n]]
    /\ Goto(n, IF result[n] = "failed" THEN "error" ELSE "finish")
    /\ UNCHANGED <<kind, host, queues, listed, memory, faults>>

\* Stream: HSET retryCount
SaveRetries(n) ==
    /\ At(n, "retries")
    /\ row' = [row EXCEPT ![n].retryCount = IF result[n] = "failed" THEN MaxAttempts ELSE tries[n] - 1]
    /\ Goto(n, IF result[n] = "failed" THEN "error" ELSE "finish")
    /\ UNCHANGED <<kind, host, queues, listed, memory, faults>>

\* HSET error
SaveError(n) ==
    /\ At(n, "error")
    /\ row' = [row EXCEPT ![n].error = TRUE]
    /\ Goto(n, "finish")
    /\ UNCHANGED <<kind, host, queues, listed, memory, faults>>

\* Slip: the consumer stops after the first message of a batch.
FinishBatch(n) ==
    /\ At(n, "finish")
    /\ Goto(n, "done")
    /\ batch' = [batch EXCEPT ![host[n]] = IF Http(n) THEN @ ELSE << >>]
    /\ UNCHANGED <<kind, host, stream, redis, memory, faults>>

\* The answer 201, or XACK and the next message.
Finish(n) ==
    /\ At(n, "finish")
    /\ Goto(n, "done")
    /\ NextMessage(n)
    /\ UNCHANGED <<kind, host, stream, redis, memory, faults>>

-----------------------------------------------------------------------------
(* Faults *)

\* A replica dies, with its handlers and its batch.
Dies(p) == /\ pc' = [n \in Notes |-> IF host[n] = p /\ pc[n] \in Steps \cup {"queued"} THEN "lost"
                                     ELSE pc[n]]
           /\ batch' = [batch EXCEPT ![p] = << >>]
           /\ UNCHANGED <<kind, host, stream, redis, memory>>

Crash(p) == Fault("crash") /\ Dies(p)

\* A call of Redis is rejected: the consumer loop catches that, message by message; in an
\* HTTP handler it is an unhandled rejection, which ends the process.
Rejected(n) ==
    /\ Fault("rejected")
    /\ pc[n] \in Steps \ {"send", "count"}
    /\ Http(n) => pc[n] # "finish"
    /\ \/ ~Http(n) /\ Skip(n)
       \/ Http(n) /\ Dies(host[n])

-----------------------------------------------------------------------------
Handler(n) == \/ Open(n) \/ Store(n) \/ Index(n) \/ Send(n) \/ Count(n) \/ Recount(n)
              \/ Settle(n) \/ SaveRetries(n) \/ SaveError(n) \/ Finish(n)

Next == \/ \E n \in Notes :
              \/ Handler(n) \/ CountFails(n) \/ Rejected(n)
              \/ \E p \in Pods : Submit(n, p)
              \/ \E k \in MessageKinds : Enqueue(n, k)
        \/ \E p \in Pods : Read(p) \/ Crash(p)

Spec == Init /\ [][Next]_vars

\* Node's event loop gets to every await that is answered, and the loop of the consumer
\* never ends.
FairSpec == /\ Spec
            /\ \A n \in Notes : WF_vars(Handler(n))
            /\ \A p \in Pods : WF_vars(Read(p))

-----------------------------------------------------------------------------
(* Safety *)

\* A final status is true: "delivered" only after a delivery, "failed" only after three
\* attempts none of which delivered - unless Redis was down between a delivery and its
\* count, which only the HTTP handler takes for a failed attempt (deliverWithRetry).
HonestOutcome ==
    \A n \in Notes :
        /\ row[n].status = "delivered" => sent[n] > 0
        /\ row[n].status = "failed" => tries[n] = MaxAttempts /\ ((Http(n) /\ faults > 0) \/ sent[n] = 0)

\* A message is delivered at most once, also when its replica dies between the delivery
\* and XACK; an HTTP request more than once only when Redis was down in between.
SentOnce == \A n \in Notes : sent[n] <= IF Http(n) THEN 1 + faults ELSE 1

\* What was delivered is always found in the incident's list, with its record
\* (processMessage and POST: HSET and ZADD before the delivery).
SentIsListed == \A n \in Notes : sent[n] > 0 => n \in listed /\ row[n].status # "none"

\* A handler that has ended without a fault leaves the final record: the number of
\* retries, and an error exactly if it failed (requirement 10.2).
FinalRecord ==
    \A n \in Notes : At(n, "done") /\ kind[n] # "incomplete" =>
        /\ row[n].status \in Outcomes
        /\ row[n].error = (row[n].status = "failed")
        /\ row[n].retryCount = IF row[n].status = "failed" THEN MaxAttempts ELSE tries[n] - 1

-----------------------------------------------------------------------------
(* The inductive invariant *)

\* A message is in one place and once: unread, or in the batch of the replica that read
\* it, which handles the first of the batch only.
Placed ==
    /\ \A j \in 1..Len(stream) :
          LET n == stream[j]
          IN  /\ At(n, "queued") /\ kind[n] \in MessageKinds /\ host[n] = "none"
              /\ \A k \in 1..Len(stream) : stream[k] = n => k = j
    /\ \A p \in Pods : \A j \in 1..Len(batch[p]) :
          LET n == batch[p][j]
          IN  /\ pc[n] \in Steps \cup {"queued"} /\ kind[n] \in MessageKinds /\ host[n] = p
              /\ j > 1 => At(n, "queued")
              /\ \A k \in 1..Len(batch[p]) : batch[p][k] = n => k = j
    /\ \A n \in Notes : pc[n] \in Steps =>
          /\ host[n] \in Pods
          /\ ~Http(n) => kind[n] \in MessageKinds /\ batch[host[n]] # << >>
    /\ \A n \in Notes : At(n, "new") => host[n] = "none"

\* Deliveries that were taken for failed attempts: each cost a rejected call of Redis.
Miscounted(n) == sent[n] <= IF Http(n) THEN faults ELSE 0
Delivered(n)  == sent[n] \in 1..(IF Http(n) THEN 1 + faults ELSE 1)

Untouched(n) == row[n].status = "none" /\ ~row[n].error /\ tries[n] = 0 /\ sent[n] = 0
Underway(n)  == row[n].status = "pending" /\ ~row[n].error /\ result[n] = "none" /\ n \in listed
Retries(n)   == IF result[n] = "failed" THEN MaxAttempts ELSE tries[n] - 1

\* The outcome in memory is what the attempts came to.
Concluded(n) == /\ n \in listed /\ tries[n] > 0
                /\ \/ result[n] = "delivered" /\ Delivered(n)
                   \/ result[n] = "failed" /\ tries[n] = MaxAttempts /\ Miscounted(n)

\* What each statement of a handler relies on.
Progress(n) ==
    /\ sent[n] <= tries[n]
    /\ pc[n] \in {"new", "queued", "store"} => Untouched(n) /\ result[n] = "none"
    /\ At(n, "index") => /\ row[n].status = "pending" /\ ~row[n].error /\ result[n] = "none"
                         /\ tries[n] = 0 /\ sent[n] = 0
    /\ At(n, "send") => Underway(n) /\ tries[n] < MaxAttempts /\ Miscounted(n)
    /\ At(n, "count") => Underway(n) /\ tries[n] > 0 /\ Delivered(n) /\ Http(n)
    /\ At(n, "recount") => Underway(n) /\ tries[n] > 0 /\ Miscounted(n) /\ Http(n)
    /\ At(n, "settle") => /\ Concluded(n) /\ row[n].status = "pending" /\ ~row[n].error
                          /\ Http(n) => row[n].retryCount = Retries(n)
    /\ pc[n] \in {"retries", "error"} => Concluded(n) /\ row[n].status = result[n] /\ ~row[n].error
    /\ At(n, "error") => result[n] = "failed" /\ row[n].retryCount = Retries(n)
    /\ pc[n] \in {"finish", "done"} =>
          \/ kind[n] = "incomplete" /\ Untouched(n)
          \/ /\ Concluded(n) /\ row[n].status = result[n]
             /\ row[n].error = (result[n] = "failed") /\ row[n].retryCount = Retries(n)

\* Whatever a replica is interrupted at, what it leaves behind is true: every statement
\* finds its message in one place, and the record, the list and the attempts it relies on.
IInv == /\ TypeOK /\ Placed
        /\ \A n \in Notes : Progress(n)
        /\ HonestOutcome /\ SentOnce /\ SentIsListed

-----------------------------------------------------------------------------
(* Liveness *)

\* Requirement 10.4, without faults: every notification that is submitted, or enqueued as
\* a message that can be read, is settled, whatever is garbled around it.
EveryNoteSettles ==
    [](faults = 0) => \A n \in Notes :
        (kind[n] \in {"http", "message", "unknown"}) ~> row[n].status \in Outcomes
=============================================================================
