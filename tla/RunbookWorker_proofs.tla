------------------------- MODULE RunbookWorker_proofs -------------------------
(***************************************************************************)
(* Proofs about RunbookWorker, for every set of executions and runbooks,   *)
(* every number of workers and faults and every size of a batch: its       *)
(* inductive invariant IInv, the safety properties that follow from it,    *)
(* and that it implements ExecutionContract.                               *)
(***************************************************************************)
EXTENDS RunbookWorker, RunbookData_proofs

Answers == {"accepted", "refused"}
Busy == {"step", "save", "report", "rollback", "settle"}

\* What the inductive invariant says of one execution and of one worker.
ExecutionOK(e) == RowOK(e) /\ Honest(e) /\ InOrder(e) /\ Leads(e)
WorkerOK(w) == /\ pc[w] \in {"poll", "start"} => done[w] = << >> /\ undone[w] = << >> /\ attempt[w] = 0
               /\ pc[w] \in Busy => Collecting(w) /\ Running(w)

LEMMA InvParts ==
    /\ IInv <=> /\ TypeOK /\ Owned
                /\ \A e \in Executions : ExecutionOK(e)
                /\ \A w \in Workers : WorkerOK(w)
    /\ IInv' <=> /\ TypeOK' /\ Owned'
                 /\ \A e \in Executions : ExecutionOK(e)'
                 /\ \A w \in Workers : WorkerOK(w)'
  BY DEF IInv, ExecutionOK, WorkerOK, HonestStatus, CommandsInOrder, RowLeadsStream, Busy

-----------------------------------------------------------------------------
(* Who has which message *)

LEMMA Unread ==
    ASSUME TypeOK, Owned, NEW j \in 1..Len(stream)
    PROVE  /\ stream[j] \in Executions /\ Sent(stream[j]) /\ status[stream[j]] = "pending"
           /\ \A k \in 1..Len(stream) : stream[k] = stream[j] => k = j
           /\ \A w \in Workers : \A k \in 1..Len(batch[w]) : batch[w][k] # stream[j]
  BY ElementOfSeq DEF TypeOK, Owned

LEMMA InBatch ==
    ASSUME TypeOK, Owned, NEW w \in Workers, NEW j \in 1..Len(batch[w])
    PROVE  /\ batch[w][j] \in Executions /\ Sent(batch[w][j])
           /\ j > 1 \/ pc[w] = "start" => status[batch[w][j]] = "pending"
           /\ \A v \in Workers : \A k \in 1..Len(batch[v]) : batch[v][k] = batch[w][j] => v = w /\ k = j
<1>1. batch[w] \in Seq(Executions)
  BY DEF TypeOK
<1>2. batch[w][j] \in Executions
  BY <1>1, ElementOfSeq
<1>3. QED
  BY <1>2 DEF Owned, At

\* A worker past its poll is at the first message of its batch.
LEMMA AtWorkOn ==
    ASSUME TypeOK, Owned, NEW w \in Workers, pc[w] # "poll"
    PROVE  /\ batch[w] \in Seq(Executions) /\ batch[w] # << >> /\ Len(batch[w]) \in Nat \ {0}
           /\ Exec(w) \in Executions /\ Exec(w) = batch[w][1] /\ 1 \in 1..Len(batch[w])
           /\ Sent(Exec(w))
           /\ pc[w] = "start" => status[Exec(w)] = "pending"
<1>1. batch[w] \in Seq(Executions) /\ batch[w] # << >>
  BY DEF TypeOK
<1>2. Len(batch[w]) \in Nat \ {0} /\ Exec(w) = batch[w][1] /\ batch[w][1] \in Executions
  BY <1>1, DropFirst DEF Exec
<1>3. 1 \in 1..Len(batch[w])
  BY <1>2
<1>4. QED
  BY <1>1, <1>2, <1>3, InBatch

\* Two workers are never at the same execution.
LEMMA Elsewhere ==
    ASSUME TypeOK, Owned, NEW w \in Workers, NEW v \in Workers, v # w, pc[w] # "poll", pc[v] # "poll"
    PROVE  Exec(v) # Exec(w)
  BY AtWorkOn, InBatch

\* A step that moves no message: one worker goes on with its execution, which it has
\* started, and other executions that are pending stay so.
LEMMA OwnedOn ==
    ASSUME TypeOK, Owned, NEW w \in Workers, pc[w] # "poll", NEW label \in PcValues \ {"poll", "start"},
           Goto(w, label), UNCHANGED <<request, stream, batch>>,
           \A e \in Executions \ {Exec(w)} : status'[e] = status[e]
    PROVE  Owned'
<1>1. Exec(w) = batch[w][1] /\ 1 \in 1..Len(batch[w])
  BY AtWorkOn
<1>2. ASSUME NEW j \in 1..Len(stream)
      PROVE  request'[stream[j]] \in Answers /\ status'[stream[j]] = "pending"
  BY <1>1, Unread DEF Sent, Answers
<1>3. ASSUME NEW v \in Workers, NEW j \in 1..Len(batch[v]), j > 1 \/ pc'[v] = "start"
      PROVE  status'[batch[v][j]] = "pending"
  <2>1. batch[v][j] # Exec(w)
    <3>1. CASE v # w
      BY <1>1, <3>1, InBatch
    <3>2. CASE v = w
      <4>1. j > 1
        BY <1>3, <3>2 DEF Goto, TypeOK
      <4>2. QED
        BY <1>1, <3>2, <4>1, InBatch
    <3>3. QED
      BY <3>1, <3>2
  <2>2. j > 1 \/ pc[v] = "start"
    BY <1>3 DEF Goto, TypeOK
  <2>3. QED
    BY <2>1, <2>2, InBatch
<1>4. ASSUME NEW v \in Workers, NEW j \in 1..Len(batch[v])
      PROVE  request'[batch[v][j]] \in Answers
  BY InBatch DEF Sent, Answers
<1>5. /\ \A j \in 1..Len(stream) :
            /\ \A k \in 1..Len(stream) : stream[k] = stream[j] => k = j
            /\ \A v \in Workers : \A k \in 1..Len(batch[v]) : batch[v][k] # stream[j]
      /\ \A v \in Workers : \A j \in 1..Len(batch[v]) :
            \A u \in Workers : \A k \in 1..Len(batch[u]) : batch[u][k] = batch[v][j] => u = v /\ k = j
  BY DEF Owned
<1>6. stream' = stream /\ batch' = batch
  OBVIOUS
<1>7. QED
  BY <1>2, <1>3, <1>4, <1>5, <1>6 DEF Owned, At, Sent, Answers

\* A step of no worker.
LEMMA OwnedStill ==
    ASSUME TypeOK, Owned, UNCHANGED <<stream, batch, pc>>,
           \A e \in Executions : status[e] = "pending" => status'[e] = "pending",
           \A e \in Executions : Sent(e) => request'[e] \in Answers
    PROVE  Owned'
<1>1. ASSUME NEW j \in 1..Len(stream)
      PROVE  request'[stream[j]] \in Answers /\ status'[stream[j]] = "pending"
  BY Unread
<1>2. ASSUME NEW v \in Workers, NEW j \in 1..Len(batch[v])
      PROVE  request'[batch[v][j]] \in Answers /\ (j > 1 \/ pc[v] = "start" => status'[batch[v][j]] = "pending")
  BY InBatch
<1>3. QED
  BY <1>1, <1>2, Unread, InBatch DEF Owned, At, Sent, Answers

\* XADD: the message of an execution nobody has heard of, or none.
LEMMA OwnedAppend ==
    ASSUME TypeOK, Owned, NEW e \in Executions, request[e] = "append", status[e] = "pending",
           NEW answer \in {"accepted", "refused"}, request' = [request EXCEPT ![e] = answer],
           stream' = stream \/ stream' = Append(stream, e), UNCHANGED <<batch, pc, status>>
    PROVE  Owned'
<1>1. \A f \in Executions : Sent(f) => request'[f] \in Answers
  BY DEF Sent, TypeOK, Answers
<1>2. CASE stream' = stream
  BY <1>1, <1>2, OwnedStill
<1>3. CASE stream' = Append(stream, e)
  <2>1. /\ Len(stream) \in Nat /\ Len(stream') = Len(stream) + 1
        /\ \A j \in 1..Len(stream) : stream'[j] = stream[j]
        /\ stream'[Len(stream) + 1] = e
    BY <1>3, AppendOne DEF TypeOK
  <2>2. ~Sent(e) /\ request'[e] \in Answers
    BY DEF Sent, TypeOK, Answers
  <2>3. /\ \A j \in 1..Len(stream) : stream[j] # e
        /\ \A w \in Workers : \A k \in 1..Len(batch[w]) : batch[w][k] # e
    BY <2>2, Unread, InBatch
  <2>4. ASSUME NEW j \in 1..Len(stream')
        PROVE  /\ request'[stream'[j]] \in Answers /\ status'[stream'[j]] = "pending"
               /\ \A k \in 1..Len(stream') : stream'[k] = stream'[j] => k = j
               /\ \A w \in Workers : \A k \in 1..Len(batch[w]) : batch[w][k] # stream'[j]
    <3>1. CASE j = Len(stream) + 1
      <4>1. \A k \in 1..Len(stream') : stream'[k] = e => k = j
        BY <2>1, <2>3, <3>1
      <4>2. QED
        BY <2>1, <2>2, <2>3, <3>1, <4>1
    <3>2. CASE j \in 1..Len(stream)
      <4>1. stream'[j] = stream[j] /\ stream[j] # e
        BY <2>1, <2>3, <3>2
      <4>2. \A k \in 1..Len(stream') : stream'[k] = stream[j] => k = j
        BY <2>1, <3>2, <4>1, Unread
      <4>3. QED
        BY <1>1, <3>2, <4>1, <4>2, Unread
    <3>3. QED
      BY <2>1, <3>1, <3>2
  <2>5. ASSUME NEW v \in Workers, NEW j \in 1..Len(batch[v])
        PROVE  request'[batch[v][j]] \in Answers /\ (j > 1 \/ pc[v] = "start" => status[batch[v][j]] = "pending")
    BY <1>1, InBatch
  <2>6. QED
    BY <2>4, <2>5, InBatch DEF Owned, At, Sent, Answers
<1>4. QED
  BY <1>2, <1>3

\* XREADGROUP: the worker takes the oldest messages, which are nobody else's.
LEMMA OwnedPoll ==
    ASSUME TypeOK, Owned, NEW w \in Workers, Poll(w)
    PROVE  /\ Owned' /\ stream' \in Seq(Executions) /\ batch' \in [Workers -> Seq(Executions)]
           /\ batch'[w] # << >> /\ \A v \in Workers : v # w => batch'[v] = batch[v]
<1> DEFINE n == IF Len(stream) < BatchMax THEN Len(stream) ELSE BatchMax
<1>1. stream \in Seq(Executions) /\ Len(stream) \in Nat \ {0} /\ n \in 1..Len(stream)
  BY DropFirst, WorkerAssumption DEF TypeOK, Poll
<1>2. /\ batch' = [batch EXCEPT ![w] = SubSeq(stream, 1, n)]
      /\ stream' = SubSeq(stream, n + 1, Len(stream))
      /\ pc' = [pc EXCEPT ![w] = "start"] /\ status' = status /\ request' = request
  BY DEF Poll, Goto, table
<1> HIDE DEF n
<1>3. /\ SubSeq(stream, 1, n) \in Seq(Executions) /\ Len(SubSeq(stream, 1, n)) = n
      /\ \A j \in 1..n : SubSeq(stream, 1, n)[j] = stream[j]
      /\ stream' \in Seq(Executions) /\ Len(stream') = Len(stream) - n
      /\ \A j \in 1..(Len(stream) - n) : stream'[j] = stream[n + j]
  BY <1>1, <1>2, ReadPrefix
<1>4. /\ batch' \in [Workers -> Seq(Executions)] /\ Len(batch'[w]) = n
      /\ \A j \in 1..n : batch'[w][j] = stream[j]
      /\ \A v \in Workers : v # w => batch'[v] = batch[v] /\ pc'[v] = pc[v]
  BY <1>2, <1>3 DEF TypeOK
<1>5. batch'[w] # << >>
  BY <1>1, <1>4, EmptySeq
<1>6. ASSUME NEW j \in 1..Len(stream')
      PROVE  /\ request'[stream'[j]] \in Answers /\ status'[stream'[j]] = "pending"
             /\ \A k \in 1..Len(stream') : stream'[k] = stream'[j] => k = j
             /\ \A v \in Workers : \A k \in 1..Len(batch'[v]) : batch'[v][k] # stream'[j]
  <2>1. j \in 1..(Len(stream) - n) /\ n + j \in 1..Len(stream) /\ n + j \notin 1..n
    BY <1>1, <1>3
  <2>2. stream'[j] = stream[n + j]
    BY <1>3, <2>1
  <2>3. /\ Sent(stream[n + j]) /\ status[stream[n + j]] = "pending"
        /\ \A k \in 1..Len(stream) : stream[k] = stream[n + j] => k = n + j
        /\ \A v \in Workers : \A k \in 1..Len(batch[v]) : batch[v][k] # stream[n + j]
    BY <2>1, Unread
  <2>4. ASSUME NEW k \in 1..Len(stream'), stream'[k] = stream'[j]
        PROVE  k = j
    <3>1. k \in 1..(Len(stream) - n) /\ n + k \in 1..Len(stream)
      BY <1>1, <1>3
    <3>2. stream[n + k] = stream[n + j]
      BY <1>3, <2>2, <2>4, <3>1
    <3>3. n + k = n + j
      BY <2>3, <3>1, <3>2
    <3>4. QED
      BY <1>1, <2>1, <3>1, <3>3
  <2>5. ASSUME NEW v \in Workers, NEW k \in 1..Len(batch'[v])
        PROVE  batch'[v][k] # stream'[j]
    <3>1. CASE v # w
      BY <1>4, <2>2, <2>3, <3>1
    <3>2. CASE v = w
      <4>1. k \in 1..n /\ k \in 1..Len(stream) /\ batch'[v][k] = stream[k]
        BY <1>1, <1>4, <3>2
      <4>2. k # n + j
        BY <2>1, <4>1
      <4>3. QED
        BY <2>2, <2>3, <4>1, <4>2
    <3>3. QED
      BY <3>1, <3>2
  <2>6. QED
    BY <1>2, <2>2, <2>3, <2>4, <2>5 DEF Sent, Answers
<1>7. ASSUME NEW v \in Workers, NEW j \in 1..Len(batch'[v])
      PROVE  /\ request'[batch'[v][j]] \in Answers
             /\ j > 1 \/ pc'[v] = "start" => status'[batch'[v][j]] = "pending"
             /\ \A u \in Workers : \A k \in 1..Len(batch'[u]) :
                    batch'[u][k] = batch'[v][j] => u = v /\ k = j
  <2>1. CASE v = w
    <3>1. j \in 1..n /\ j \in 1..Len(stream) /\ batch'[v][j] = stream[j]
      BY <1>1, <1>4, <2>1
    <3>2. ASSUME NEW u \in Workers, NEW k \in 1..Len(batch'[u]), batch'[u][k] = stream[j]
          PROVE  u = v /\ k = j
      <4>1. u = w
        BY <1>4, <3>1, <3>2, Unread
      <4>2. k \in 1..n /\ k \in 1..Len(stream) /\ batch'[u][k] = stream[k]
        BY <1>1, <1>4, <4>1
      <4>3. QED
        BY <2>1, <3>1, <3>2, <4>1, <4>2, Unread
    <3>3. Sent(stream[j]) /\ status[stream[j]] = "pending"
      BY <3>1, Unread
    <3>4. QED
      BY <1>2, <3>1, <3>2, <3>3 DEF Sent, Answers
  <2>2. CASE v # w
    <3>1. batch'[v] = batch[v] /\ pc'[v] = pc[v] /\ j \in 1..Len(batch[v])
      BY <1>4, <2>2
    <3>a. /\ batch[v][j] \in Executions /\ Sent(batch[v][j])
          /\ j > 1 \/ pc[v] = "start" => status[batch[v][j]] = "pending"
          /\ \A u \in Workers : \A k \in 1..Len(batch[u]) : batch[u][k] = batch[v][j] => u = v /\ k = j
      BY <3>1, InBatch
    <3>2. ASSUME NEW u \in Workers, NEW k \in 1..Len(batch'[u]), batch'[u][k] = batch[v][j]
          PROVE  u = v /\ k = j
      <4>1. u # w
        <5>1. SUFFICES ASSUME u = w PROVE FALSE
          OBVIOUS
        <5>2. k \in 1..Len(stream) /\ batch'[u][k] = stream[k]
          BY <1>1, <1>4, <5>1
        <5>3. QED
          BY <3>1, <3>2, <5>2, Unread
      <4>2. QED
        BY <1>4, <3>1, <3>2, <3>a, <4>1
    <3>3. QED
      BY <1>2, <3>1, <3>2, <3>a DEF Sent, Answers
  <2>3. QED
    BY <2>1, <2>2
<1>8. QED
  BY <1>3, <1>4, <1>5, <1>6, <1>7 DEF Owned, At, Sent, Answers

\* XACK and the next message of the batch.
LEMMA OwnedAck ==
    ASSUME TypeOK, Owned, NEW w \in Workers, pc[w] # "poll",
           batch' = [batch EXCEPT ![w] = Tail(@)],
           Goto(w, IF Len(batch[w]) = 1 THEN "poll" ELSE "start"), UNCHANGED <<stream, status, request>>
    PROVE  /\ Owned' /\ batch' \in [Workers -> Seq(Executions)]
           /\ (pc'[w] = "poll") = (batch'[w] = << >>) /\ \A v \in Workers : v # w => batch'[v] = batch[v]
<1> DEFINE b == batch[w]
<1>1. /\ b \in Seq(Executions) /\ Len(b) \in Nat \ {0}
      /\ Tail(b) \in Seq(Executions) /\ Len(Tail(b)) = Len(b) - 1
      /\ \A j \in 1..(Len(b) - 1) : Tail(b)[j] = b[j + 1]
  BY AtWorkOn, DropFirst
<1>2. /\ batch' \in [Workers -> Seq(Executions)] /\ batch'[w] = Tail(b)
      /\ \A v \in Workers : v # w => batch'[v] = batch[v] /\ pc'[v] = pc[v]
      /\ pc'[w] = IF Len(b) = 1 THEN "poll" ELSE "start"
  BY <1>1 DEF TypeOK, Goto
<1>3. (pc'[w] = "poll") = (batch'[w] = << >>)
  <2>1. Tail(b) = << >> <=> Len(Tail(b)) = 0
    BY <1>1, EmptySeq
  <2>2. Len(Tail(b)) = 0 <=> Len(b) = 1
    BY <1>1
  <2>3. QED
    BY <1>2, <2>1, <2>2
<1>4. ASSUME NEW v \in Workers, NEW j \in 1..Len(batch'[v])
      PROVE  \E i \in 1..Len(batch[v]) :
                 batch'[v][j] = batch[v][i] /\ (IF v = w THEN i = j + 1 ELSE i = j)
  <2>1. CASE v # w
    BY <1>2, <2>1
  <2>2. CASE v = w
    <3>1. j \in 1..(Len(b) - 1)
      BY <1>1, <1>2, <2>2
    <3>2. j + 1 \in 1..Len(b) /\ batch'[v][j] = b[j + 1]
      BY <1>1, <1>2, <2>2, <3>1
    <3>3. QED
      BY <2>2, <3>2
  <2>3. QED
    BY <2>1, <2>2
<1>5. ASSUME NEW j \in 1..Len(stream), NEW v \in Workers, NEW k \in 1..Len(batch'[v])
      PROVE  batch'[v][k] # stream[j]
  BY <1>4, Unread
<1>6. ASSUME NEW v \in Workers, NEW j \in 1..Len(batch'[v])
      PROVE  /\ request[batch'[v][j]] \in Answers
             /\ j > 1 \/ pc'[v] = "start" => status[batch'[v][j]] = "pending"
             /\ \A u \in Workers : \A k \in 1..Len(batch'[u]) :
                    batch'[u][k] = batch'[v][j] => u = v /\ k = j
  <2>1. PICK i \in 1..Len(batch[v]) :
            batch'[v][j] = batch[v][i] /\ (IF v = w THEN i = j + 1 ELSE i = j)
    BY <1>4
  <2>2. /\ batch[v][i] \in Executions /\ Sent(batch[v][i])
        /\ i > 1 \/ pc[v] = "start" => status[batch[v][i]] = "pending"
        /\ \A u \in Workers : \A k \in 1..Len(batch[u]) : batch[u][k] = batch[v][i] => u = v /\ k = i
    BY InBatch
  <2>3. j \in Nat \ {0}
    <3>1. Len(batch'[v]) \in Nat
      BY <1>2, LenProperties
    <3>2. QED
      BY <3>1
  <2>4. j > 1 \/ pc'[v] = "start" => status[batch'[v][j]] = "pending"
    BY <1>2, <2>1, <2>2, <2>3
  <2>5. ASSUME NEW u \in Workers, NEW k \in 1..Len(batch'[u]), batch'[u][k] = batch'[v][j]
        PROVE  u = v /\ k = j
    <3>1. PICK l \in 1..Len(batch[u]) :
              batch'[u][k] = batch[u][l] /\ (IF u = w THEN l = k + 1 ELSE l = k)
      BY <1>4
    <3>2. u = v /\ l = i
      BY <2>1, <2>2, <2>5, <3>1
    <3>3. k \in Nat
      <4>1. Len(batch'[u]) \in Nat
        BY <1>2, LenProperties
      <4>2. QED
        BY <4>1
    <3>4. QED
      BY <2>1, <2>3, <3>1, <3>2, <3>3
  <2>6. QED
    BY <2>1, <2>2, <2>4, <2>5 DEF Sent, Answers
<1>7. ASSUME NEW j \in 1..Len(stream)
      PROVE  /\ request[stream[j]] \in Answers /\ status[stream[j]] = "pending"
             /\ \A k \in 1..Len(stream) : stream[k] = stream[j] => k = j
  BY Unread DEF Sent, Answers
<1>8. stream' = stream /\ status' = status /\ request' = request
  OBVIOUS
<1>9. Owned'
  BY <1>5, <1>6, <1>7, <1>8 DEF Owned, At, Sent, Answers
<1>10. QED
  BY <1>2, <1>3, <1>9

\* A worker that is gone leaves its batch to nobody.
LEMMA OwnedAbandon ==
    ASSUME TypeOK, Owned, NEW w \in Workers, Abandon(w), status' = status
    PROVE  /\ Owned' /\ batch' \in [Workers -> Seq(Executions)]
           /\ batch'[w] = << >> /\ \A v \in Workers : v # w => batch'[v] = batch[v]
<1>1. /\ batch' \in [Workers -> Seq(Executions)] /\ batch'[w] = << >>
      /\ \A v \in Workers : v # w => batch'[v] = batch[v] /\ pc'[v] = pc[v]
      /\ stream' = stream /\ request' = request
  BY EmptySeq DEF Abandon, Goto, TypeOK
<1>2. Len(batch'[w]) = 0
  BY <1>1, EmptySeq
<1>3. ASSUME NEW v \in Workers, NEW j \in 1..Len(batch'[v])
      PROVE  v # w /\ batch'[v] = batch[v] /\ pc'[v] = pc[v]
  BY <1>1, <1>2
<1>4. ASSUME NEW v \in Workers, NEW j \in 1..Len(batch'[v])
      PROVE  /\ request[batch'[v][j]] \in Answers
             /\ j > 1 \/ pc'[v] = "start" => status[batch'[v][j]] = "pending"
             /\ \A u \in Workers : \A k \in 1..Len(batch'[u]) :
                    batch'[u][k] = batch'[v][j] => u = v /\ k = j
  <2>1. batch'[v] = batch[v] /\ pc'[v] = pc[v] /\ j \in 1..Len(batch[v])
    BY <1>3
  <2>2. /\ batch[v][j] \in Executions /\ Sent(batch[v][j])
        /\ j > 1 \/ pc[v] = "start" => status[batch[v][j]] = "pending"
        /\ \A u \in Workers : \A k \in 1..Len(batch[u]) : batch[u][k] = batch[v][j] => u = v /\ k = j
    BY <2>1, InBatch
  <2>3. QED
    BY <1>3, <2>1, <2>2 DEF Sent, Answers
<1>5. ASSUME NEW j \in 1..Len(stream)
      PROVE  /\ request[stream[j]] \in Answers /\ status[stream[j]] = "pending"
             /\ \A k \in 1..Len(stream) : stream[k] = stream[j] => k = j
             /\ \A v \in Workers : \A k \in 1..Len(batch'[v]) : batch'[v][k] # stream[j]
  BY <1>3, Unread DEF Sent, Answers
<1>6. QED
  BY <1>1, <1>4, <1>5 DEF Owned, At, Sent, Answers

-----------------------------------------------------------------------------
(* What a step does not touch *)

LEMMA HonestSame ==
    ASSUME NEW e \in Executions, status'[e] = status[e], results'[e] = results[e], error'[e] = error[e], Honest(e)
    PROVE  Honest(e)'
  BY DEF Honest

LEMMA InOrderSame ==
    ASSUME NEW e \in Executions, ran'[e] = ran[e], InOrder(e)
    PROVE  InOrder(e)'
<1>1. \A c : {j \in 1..Len(ran'[e]) : ran'[e][j] = c} = {j \in 1..Len(ran[e]) : ran[e][j] = c}
  OBVIOUS
<1>2. ASSUME NEW k \in 1..Len(ran[e])
      PROVE  Runs(e, ran[e][k])' = Runs(e, ran[e][k])
  BY <1>1, Zenon DEF Runs
<1>3. QED
  BY <1>2 DEF InOrder

LEMMA LeadsSame ==
    ASSUME NEW e \in Executions, results'[e] = results[e], reports'[e] = reports[e], Leads(e)
    PROVE  Leads(e)'
  BY DEF Leads

SameRow(e) == /\ status'[e] = status[e] /\ results'[e] = results[e] /\ error'[e] = error[e]
              /\ progress'[e] = progress[e] /\ ran'[e] = ran[e] /\ reports'[e] = reports[e]

LEMMA ExecutionSame ==
    ASSUME NEW e \in Executions, SameRow(e), request'[e] = request[e], ExecutionOK(e)
    PROVE  ExecutionOK(e)'
<1>1. RowOK(e)'
  BY DEF SameRow, ExecutionOK, RowOK
<1>2. QED
  BY <1>1, HonestSame, InOrderSame, LeadsSame DEF SameRow, ExecutionOK

\* A worker that does not move finds its execution as it left it, unless the watchdog
\* has failed it.
LEMMA WorkerSame ==
    ASSUME NEW w \in Workers, WorkerOK(w),
           pc'[w] = pc[w], batch'[w] = batch[w], done'[w] = done[w], undone'[w] = undone[w],
           attempt'[w] = attempt[w],
           pc[w] \in Busy =>
               /\ \/ status'[Exec(w)] = status[Exec(w)] /\ error'[Exec(w)] = error[Exec(w)]
                  \/ status'[Exec(w)] = "failed" /\ error'[Exec(w)] = "watchdog"
               /\ results'[Exec(w)] = results[Exec(w)] /\ ran'[Exec(w)] = ran[Exec(w)]
               /\ reports'[Exec(w)] = reports[Exec(w)]
    PROVE  WorkerOK(w)'
<1>1. CASE pc[w] \notin Busy
  BY <1>1 DEF WorkerOK
<1>2. CASE pc[w] \in Busy
  <2>1. /\ Exec(w)' = Exec(w) /\ Steps(w)' = Steps(w) /\ Undo(w)' = Undo(w)
        /\ Undoing(w)' = Undoing(w) /\ List(w)' = List(w) /\ Collected(w)' = Collected(w)
        /\ Current(w)' = Current(w)
    BY DEF Exec, Steps, Undo, Undoing, List, Collected, Current
  <2>2. Collecting(w)'
    BY <1>2, <2>1 DEF WorkerOK, Collecting, At
  <2>3. Running(w)'
    <3>1. Runs(Exec(w), [undo |-> Undoing(w), order |-> Current(w).order])' =
              Runs(Exec(w), [undo |-> Undoing(w), order |-> Current(w).order])
      BY <1>2, <2>1, Zenon DEF Runs
    <3>2. QED
      BY <1>2, <2>1, <3>1 DEF WorkerOK, Running, At
  <2>4. QED
    BY <1>2, <2>2, <2>3 DEF WorkerOK, Busy
<1>3. QED
  BY <1>1, <1>2

\* What a worker relies on at its statements.
LEMMA WorkerView ==
    ASSUME TypeOK, Owned, NEW w \in Workers, WorkerOK(w), pc[w] # "poll"
    PROVE  /\ Exec(w) \in Executions
           /\ done[w] \in Seq(Result) /\ undone[w] \in Seq(Result) /\ attempt[w] \in Nat
           /\ Len(done[w]) \in Nat /\ Len(undone[w]) \in Nat
           /\ Steps(w) \in Seq(RunbookStep) /\ Undo(w) \in Seq(RunbookStep)
           /\ Len(Steps(w)) \in Nat \ {0} /\ Len(Undo(w)) \in Nat
           /\ results[Exec(w)] \in Seq(Result) /\ reports[Exec(w)] \in Seq(Result)
           /\ ran[Exec(w)] \in Seq(Command)
           /\ pc[w] = "start" => done[w] = << >> /\ undone[w] = << >> /\ attempt[w] = 0
           /\ pc[w] \in Busy => Collecting(w) /\ Running(w)
<1>1. Exec(w) \in Executions
  BY AtWorkOn
<1>2. /\ Steps(w) \in Seq(RunbookStep) /\ Undo(w) \in Seq(RunbookStep)
      /\ Len(Steps(w)) \in Nat \ {0}
  BY <1>1, Plans DEF Steps, Undo
<1>3. Len(Undo(w)) \in Nat
  BY <1>2, LenProperties
<1>4. done[w] \in Seq(Result) /\ undone[w] \in Seq(Result) /\ attempt[w] \in Nat
  BY DEF TypeOK
<1>5. Len(done[w]) \in Nat /\ Len(undone[w]) \in Nat
  BY <1>4, LenProperties
<1>6. QED
  BY <1>1, <1>2, <1>3, <1>4, <1>5 DEF TypeOK, WorkerOK

\* A statement of one worker: it touches its own memory and the rows of its execution.
Acts(w, label) == /\ Goto(w, label)
                  /\ UNCHANGED <<request, stream, batch>>
                  /\ \A e \in Executions \ {Exec(w)} : SameRow(e)
                  /\ \A v \in Workers \ {w} : /\ done'[v] = done[v] /\ undone'[v] = undone[v]
                                               /\ attempt'[v] = attempt[v]

LEMMA ActKeeps ==
    ASSUME IInv, NEW w \in Workers, pc[w] # "poll", NEW label \in PcValues \ {"poll", "start"},
           Acts(w, label), TypeOK', NEW x \in Executions, x = Exec(w), ExecutionOK(x)', WorkerOK(w)'
    PROVE  IInv'
<1>1. \A e \in Executions : ExecutionOK(e)'
  <2> TAKE e \in Executions
  <2>1. CASE e = x
    BY <2>1
  <2>2. CASE e # x
    BY <2>2, InvParts, ExecutionSame DEF Acts
  <2>3. QED
    BY <2>1, <2>2
<1>2. \A v \in Workers : WorkerOK(v)'
  <2> TAKE v \in Workers
  <2>1. CASE v = w
    BY <2>1
  <2>2. CASE v # w
    <3>1. pc'[v] = pc[v] /\ batch'[v] = batch[v]
      BY <2>2, InvParts DEF Acts, Goto, TypeOK
    <3>2. pc[v] \in Busy => Exec(v) \in Executions \ {Exec(w)}
      BY <2>2, InvParts, Elsewhere, AtWorkOn DEF Busy
    <3>3. QED
      BY <2>2, <3>1, <3>2, InvParts, WorkerSame DEF Acts, SameRow
  <2>3. QED
    BY <2>1, <2>2
<1>3. Owned'
  BY InvParts, OwnedOn DEF Acts, SameRow
<1>4. QED
  BY <1>1, <1>2, <1>3, InvParts

-----------------------------------------------------------------------------
(* The statements of the executor *)

\* What a worker's list and what it has collected of it are.
LEMMA ListView ==
    ASSUME TypeOK, Owned, NEW w \in Workers, WorkerOK(w), pc[w] # "poll"
    PROVE  /\ List(w) \in Seq(RunbookStep) /\ Collected(w) \in Seq(Result)
           /\ Len(List(w)) \in Nat /\ Len(Collected(w)) \in Nat
           /\ pc[w] \in Busy => Follows(Collected(w), List(w)) /\ Len(Collected(w)) <= Len(List(w))
           /\ pc[w] = "step" => /\ Current(w) \in RunbookStep
                                /\ Len(Collected(w)) + 1 \in 1..Len(List(w))
<1>1. /\ List(w) \in Seq(RunbookStep) /\ Collected(w) \in Seq(Result)
      /\ Len(List(w)) \in Nat /\ Len(Collected(w)) \in Nat
  BY WorkerView DEF List, Collected
<1>2. pc[w] \in Busy => Follows(Collected(w), List(w)) /\ Len(Collected(w)) <= Len(List(w))
  BY WorkerView DEF List, Collected, Collecting, Follows
<1>3. ASSUME pc[w] = "step"
      PROVE  Current(w) \in RunbookStep /\ Len(Collected(w)) + 1 \in 1..Len(List(w))
  <2>1. Len(Collected(w)) < Len(List(w))
    BY <1>3, WorkerView DEF Collecting, At, Busy
  <2>2. Len(Collected(w)) + 1 \in 1..Len(List(w))
    BY <1>1, <2>1
  <2>3. QED
    BY <1>1, <2>2, ElementOfSeq DEF Current
<1>4. QED
  BY <1>1, <1>2, <1>3

\* The inductive invariant of a worker at a statement, for its execution e, the results d
\* and u it has collected of the two lists, its failed attempts n, and the row.
Memory(e, d, u, label, st, er, row, sent) ==
    LET list == IF AnyBad(d) THEN Backward[e] ELSE Forward[e]
        got  == IF AnyBad(d) THEN u ELSE d
    IN  /\ st = "running" \/ (st = "failed" /\ er = "watchdog")
        /\ Follows(d, Forward[e]) /\ Follows(u, Backward[e])
        /\ \A k \in 1..(Len(d) - 1) : ~Bad(d[k])
        /\ ~AnyBad(d) => u = << >>
        /\ label = "step" => Len(got) < Len(list)
        /\ label = "save" => u = << >>
        /\ label \in {"save", "report"} => d # << >>
        /\ label = "rollback" => AnyBad(d) /\ u = << >>
        /\ label = "settle" => Len(got) = Len(list)
        /\ row = IF label = "save" THEN SubSeq(d, 1, Len(d) - 1) ELSE d
        /\ sent = SubSeq(d \o u, 1, Len(d \o u) - IF label \in {"save", "report"} THEN 1 ELSE 0)

NextOf(e, d, u) == IF AnyBad(d) THEN Backward[e][Len(u) + 1] ELSE Forward[e][Len(d) + 1]

Attempts(e, d, u, label, n, runs, cmds) ==
    /\ n > 0 => /\ label = "step" /\ NextOf(e, d, u).type = "automated"
                /\ n <= NextOf(e, d, u).retries /\ runs = n
    /\ \A j \in 1..Len(cmds) :
          LET list == IF cmds[j].undo THEN Backward[e] ELSE Forward[e]
              got  == IF cmds[j].undo THEN u ELSE d
          IN  \E k \in 1..Len(list) :
                  /\ list[k].order = cmds[j].order
                  /\ k <= Len(got) \/ (k = Len(got) + 1 /\ cmds[j].undo = AnyBad(d) /\ n > 0)

LEMMA CollectingNow ==
    ASSUME NEW w \in Workers, NEW e
    PROVE  /\ Exec(w) = e =>
                  (Collecting(w) <=> Memory(e, done[w], undone[w], pc[w], status[e], error[e], results[e], reports[e]))
           /\ Exec(w)' = e =>
                  (Collecting(w)' <=> Memory(e, done'[w], undone'[w], pc'[w], status'[e], error'[e], results'[e], reports'[e]))
  BY DEF Memory, Collecting, At, Steps, Undo, Undoing, List, Collected

LEMMA RunningNow ==
    ASSUME NEW w \in Workers, NEW e
    PROVE  /\ Exec(w) = e =>
                  (Running(w) <=>
                      Attempts(e, done[w], undone[w], pc[w], attempt[w],
                             Runs(e, [undo |-> Undoing(w), order |-> NextOf(e, done[w], undone[w]).order]), ran[e]))
           /\ Exec(w)' = e =>
                  (Running(w)' <=>
                      Attempts(e, done'[w], undone'[w], pc'[w], attempt'[w],
                             Runs(e, [undo |-> AnyBad(done[w]), order |-> NextOf(e, done[w], undone[w]).order])', ran'[e]))
<1>1. Exec(w) = e =>
          (Running(w) <=>
              Attempts(e, done[w], undone[w], pc[w], attempt[w],
                     Runs(e, [undo |-> Undoing(w), order |-> NextOf(e, done[w], undone[w]).order]), ran[e]))
  BY DEF Attempts, Running, NextOf, At, Steps, Undo, Undoing, List, Collected, Current
<1>2. Exec(w)' = e =>
          (Running(w)' <=>
              Attempts(e, done'[w], undone'[w], pc'[w], attempt'[w],
                     Runs(e, [undo |-> AnyBad(done[w]), order |-> NextOf(e, done[w], undone[w]).order])', ran'[e]))
  BY DEF Attempts, Running, NextOf, At, Steps, Undo, Undoing, List, Collected, Current
<1>3. QED
  BY <1>1, <1>2

\* A worker at its execution.
LEMMA Here ==
    ASSUME IInv, NEW w \in Workers, pc[w] \in Busy
    PROVE  /\ TypeOK /\ Owned /\ WorkerOK(w) /\ pc[w] # "poll" /\ Exec(w) \in Executions
           /\ done[w] \in Seq(Result) /\ undone[w] \in Seq(Result) /\ attempt[w] \in Nat
           /\ results[Exec(w)] \in Seq(Result) /\ reports[Exec(w)] \in Seq(Result)
           /\ ran[Exec(w)] \in Seq(Command) /\ ExecutionOK(Exec(w))
           /\ Undoing(w) = AnyBad(done[w]) /\ NextOf(Exec(w), done[w], undone[w]) = Current(w)
           /\ Memory(Exec(w), done[w], undone[w], pc[w], status[Exec(w)], error[Exec(w)],
                     results[Exec(w)], reports[Exec(w)])
           /\ Attempts(Exec(w), done[w], undone[w], pc[w], attempt[w],
                       Runs(Exec(w), [undo |-> Undoing(w), order |-> Current(w).order]), ran[Exec(w)])
<1>1. TypeOK /\ Owned /\ WorkerOK(w) /\ pc[w] # "poll"
  BY InvParts DEF Busy
<1>2. Undoing(w) = AnyBad(done[w]) /\ NextOf(Exec(w), done[w], undone[w]) = Current(w)
  BY DEF Undoing, NextOf, Current, List, Collected, Steps, Undo
<1>3. /\ Exec(w) \in Executions /\ done[w] \in Seq(Result) /\ undone[w] \in Seq(Result)
      /\ attempt[w] \in Nat /\ results[Exec(w)] \in Seq(Result) /\ reports[Exec(w)] \in Seq(Result)
      /\ ran[Exec(w)] \in Seq(Command) /\ Collecting(w) /\ Running(w)
  BY <1>1, WorkerView
<1>4. QED
  BY <1>1, <1>2, <1>3, InvParts, CollectingNow, RunningNow

LEMMA WorkerNow ==
    ASSUME NEW w \in Workers, NEW e, Exec(w)' = e, pc'[w] \in Busy,
           Memory(e, done'[w], undone'[w], pc'[w], status'[e], error'[e], results'[e], reports'[e]),
           Attempts(e, done'[w], undone'[w], pc'[w], attempt'[w],
                    Runs(e, [undo |-> AnyBad(done[w]), order |-> NextOf(e, done[w], undone[w]).order])', ran'[e])
    PROVE  WorkerOK(w)'
<1>1. Collecting(w)' /\ Running(w)'
  BY CollectingNow, RunningNow
<1>2. QED
  BY <1>1 DEF WorkerOK, Busy

\* The next result of the list a worker is at.
LEMMA OneMore ==
    ASSUME NEW e \in Executions, NEW d \in Seq(Result), NEW u \in Seq(Result), NEW st, NEW er, NEW row,
           NEW sent, Memory(e, d, u, "step", st, er, row, sent), NEW x \in OutcomesOf(NextOf(e, d, u))
    PROVE  /\ x \in Result /\ NextOf(e, d, u) \in RunbookStep
           /\ ~AnyBad(d) => Memory(e, Append(d, x), u, "save", st, er, row, sent)
           /\ AnyBad(d) => Memory(e, d, Append(u, x), "report", st, er, row, sent)
<1>1. /\ Forward[e] \in Seq(RunbookStep) /\ Backward[e] \in Seq(RunbookStep)
      /\ Len(d) \in Nat /\ Len(u) \in Nat
  BY Plans, LenProperties
<1>2. /\ Follows(d, Forward[e]) /\ Follows(u, Backward[e]) /\ row = d
      /\ sent = SubSeq(d \o u, 1, Len(d \o u))
      /\ st = "running" \/ (st = "failed" /\ er = "watchdog")
      /\ ~AnyBad(d) => u = << >>
      /\ \A k \in 1..(Len(d) - 1) : ~Bad(d[k])
  <2>1. sent = SubSeq(d \o u, 1, Len(d \o u) - 0)
    BY DEF Memory
  <2>2. Len(d \o u) - 0 = Len(d \o u)
    BY Joined
  <2>3. QED
    BY <2>1, <2>2 DEF Memory
<1>3. sent = d \o u /\ d \o u \in Seq(Result)
  BY <1>2, Joined, Whole
<1>4. CASE ~AnyBad(d)
  <2>1. Len(d) < Len(Forward[e]) /\ NextOf(e, d, u) = Forward[e][Len(d) + 1]
    BY <1>4 DEF Memory, NextOf
  <2>2. x \in Result /\ Follows(Append(d, x), Forward[e])
    BY <1>1, <1>2, <2>1, FollowsOn
  <2>3. NextOf(e, d, u) \in RunbookStep
    <3>1. Len(d) + 1 \in 1..Len(Forward[e])
      BY <1>1, <2>1, LenProperties
    <3>2. QED
      BY <1>1, <2>1, <3>1, ElementOfSeq
  <2> DEFINE t == Append(d, x)
  <2>4. /\ t \in Seq(Result) /\ Len(t) = Len(d) + 1
        /\ \A j \in 1..Len(d) : t[j] = d[j]
        /\ SubSeq(t, 1, Len(t) - 1) = d
    BY <2>2, AppendOne, FrontOfAppend
  <2>5. t \o << >> = t /\ u = << >> /\ d \o << >> = d
    BY <1>2, <1>4, <2>4, Whole
  <2> HIDE DEF t
  <2>6. t # << >>
    BY <1>1, <2>4, EmptySeq
  <2>7. \A k \in 1..(Len(t) - 1) : ~Bad(t[k])
    BY <1>1, <1>4, <2>4 DEF AnyBad
  <2>8. Memory(e, t, u, "save", st, er, row, sent)
    BY <1>2, <1>3, <2>2, <2>4, <2>5, <2>6, <2>7 DEF Memory, t
  <2>9. QED
    BY <1>4, <2>2, <2>3, <2>8 DEF t
<1>5. CASE AnyBad(d)
  <2>1. Len(u) < Len(Backward[e]) /\ NextOf(e, d, u) = Backward[e][Len(u) + 1]
    BY <1>5 DEF Memory, NextOf
  <2>2. x \in Result /\ Follows(Append(u, x), Backward[e])
    BY <1>1, <1>2, <2>1, FollowsOn
  <2>3. NextOf(e, d, u) \in RunbookStep
    <3>1. Len(u) + 1 \in 1..Len(Backward[e])
      BY <1>1, <2>1, LenProperties
    <3>2. QED
      BY <1>1, <2>1, <3>1, ElementOfSeq
  <2> DEFINE t == Append(u, x)
  <2>4. d \o t = Append(d \o u, x)
    BY <2>2, JoinedAppend
  <2>5. SubSeq(d \o t, 1, Len(d \o t) - 1) = d \o u
    BY <1>3, <2>2, <2>4, FrontOfAppend
  <2>6. d # << >>
    BY <1>5, NoResults
  <2> HIDE DEF t
  <2>7. Memory(e, d, t, "report", st, er, row, sent)
    BY <1>2, <1>3, <1>5, <2>2, <2>5, <2>6 DEF Memory, t
  <2>8. QED
    BY <1>5, <2>2, <2>3, <2>7 DEF t
<1>6. QED
  BY <1>4, <1>5

LEMMA StartKeeps ==
    ASSUME IInv, NEW w \in Workers, Start(w)
    PROVE  IInv'
<1>1. TypeOK /\ Owned /\ WorkerOK(w) /\ pc[w] = "start" /\ pc[w] # "poll"
  BY InvParts DEF Start, At
<1>2. PICK e \in Executions : e = Exec(w)
  BY <1>1, AtWorkOn
<1>3. /\ status[e] = "pending" /\ Sent(e)
      /\ done[w] = << >> /\ undone[w] = << >> /\ attempt[w] = 0 /\ Len(Steps(w)) \in Nat \ {0}
  BY <1>1, <1>2, AtWorkOn, WorkerView
<1>4. NextStep(w) = "step"
  <2>1. ~Undoing(w)
    BY <1>3, NoResults DEF Undoing
  <2>2. QED
    BY <1>3, <2>1, EmptySeq DEF NextStep, Collected, List
<1>5. /\ status' = [status EXCEPT ![e] = "running"] /\ pc' = [pc EXCEPT ![w] = "step"]
      /\ results' = results /\ error' = error /\ progress' = progress /\ batch' = batch
      /\ done' = done /\ undone' = undone /\ attempt' = attempt /\ ran' = ran /\ reports' = reports
      /\ request' = request /\ stream' = stream /\ faults' = faults
  BY <1>2, <1>4 DEF Start, Goto
<1>6. status'[e] = "running" /\ pc'[w] = "step" /\ Acts(w, "step")
  BY <1>1, <1>2, <1>5 DEF Acts, Goto, SameRow, TypeOK
<1>7. TypeOK'
  BY <1>1, <1>5 DEF TypeOK, StatusValues, PcValues
<1>8. /\ results[e] = << >> /\ error[e] = "none" /\ ran[e] = << >> /\ reports[e] = << >>
  BY <1>3, InvParts DEF ExecutionOK, RowOK
<1>9. ExecutionOK(e)'
  <2>1. RowOK(e)'
    BY <1>3, <1>5, <1>6, <1>8 DEF RowOK, Sent
  <2>2. Honest(e)'
    BY <1>5, <1>6, <1>8 DEF Honest
  <2>3. InOrder(e)' /\ Leads(e)'
    BY <1>5, InvParts, InOrderSame, LeadsSame DEF ExecutionOK
  <2>4. QED
    BY <2>1, <2>2, <2>3 DEF ExecutionOK
<1>10. WorkerOK(w)'
  <2>1. Forward[e] \in Seq(RunbookStep) /\ Backward[e] \in Seq(RunbookStep) /\ Len(Forward[e]) \in Nat \ {0}
    BY <1>2, <1>3, Plans DEF Steps
  <2>2. Exec(w)' = e
    BY <1>2, <1>5 DEF Exec
  <2>3. << >> \o << >> = << >> /\ Len(<< >>) = 0 /\ SubSeq(<< >>, 1, 0) = << >>
    BY EmptySeq, Whole
  <2>4. /\ done'[w] = << >> /\ undone'[w] = << >> /\ attempt'[w] = 0
        /\ results'[e] = << >> /\ reports'[e] = << >> /\ Len(ran'[e]) = 0
    BY <1>3, <1>5, <1>8, <2>3
  <2>5. Collecting(w)'
    <3>1. Memory(e, << >>, << >>, "step", "running", error'[e], << >>, << >>)
      BY <2>1, <2>3, NoResults DEF Memory
    <3>2. QED
      BY <1>6, <2>2, <2>4, <3>1, CollectingNow
  <2>6. Running(w)'
    <3>1. \A runs : Attempts(e, << >>, << >>, "step", 0, runs, ran'[e])
      BY <2>4 DEF Attempts
    <3>2. QED
      BY <1>6, <2>2, <2>4, <3>1, RunningNow
  <2>7. QED
    BY <1>6, <2>5, <2>6 DEF WorkerOK
<1>11. QED
  BY <1>1, <1>2, <1>6, <1>7, <1>9, <1>10, ActKeeps DEF PcValues

\* A command that was run belongs to a step that was collected or to the current one.
Placed(e, d, u, c) ==
    LET list == IF c.undo THEN Backward[e] ELSE Forward[e]
        got  == IF c.undo THEN u ELSE d
    IN  \E k \in 1..Len(list) :
            list[k].order = c.order /\ (k <= Len(got) \/ (k = Len(got) + 1 /\ (c.undo <=> AnyBad(d))))

LEMMA AllPlaced ==
    ASSUME NEW e \in Executions, NEW d, NEW u, NEW label, NEW n, NEW runs, NEW cmds,
           Attempts(e, d, u, label, n, runs, cmds), NEW j \in 1..Len(cmds)
    PROVE  Placed(e, d, u, cmds[j])
  BY DEF Attempts, Placed

\* Once the current step is collected its commands belong to the collected ones.
LEMMA PlacedCollected ==
    ASSUME NEW e \in Executions, NEW d \in Seq(Result), NEW u \in Seq(Result), NEW x \in Result,
           ~AnyBad(d) => u = << >>, NEW cmds, \A j \in 1..Len(cmds) : Placed(e, d, u, cmds[j]),
           NEW label, NEW runs
    PROVE  /\ ~AnyBad(d) => Attempts(e, Append(d, x), u, label, 0, runs, cmds)
           /\ AnyBad(d) => Attempts(e, d, Append(u, x), label, 0, runs, cmds)
<1> DEFINE List2(c) == IF c.undo THEN Backward[e] ELSE Forward[e]
           d2 == IF AnyBad(d) THEN d ELSE Append(d, x)
           u2 == IF AnyBad(d) THEN Append(u, x) ELSE u
<1>1. /\ Len(d) \in Nat /\ Len(u) \in Nat /\ Len(Append(d, x)) = Len(d) + 1 /\ Len(Append(u, x)) = Len(u) + 1
      /\ ~AnyBad(d) => Len(u) = 0
  BY OneMoreResult, EmptySeq
<1>2. ASSUME NEW c, Placed(e, d, u, c)
      PROVE  \E k \in 1..Len(List2(c)) : List2(c)[k].order = c.order /\ k <= Len(IF c.undo THEN u2 ELSE d2)
  <2>1. PICK k \in 1..Len(List2(c)) :
            /\ List2(c)[k].order = c.order
            /\ k <= Len(IF c.undo THEN u ELSE d)
                 \/ (k = Len(IF c.undo THEN u ELSE d) + 1 /\ (c.undo <=> AnyBad(d)))
    BY <1>2 DEF Placed
  <2>2. k \in Nat \ {0}
    <3>1. Forward[e] \in Seq(RunbookStep) /\ Backward[e] \in Seq(RunbookStep)
      BY Plans
    <3>2. Len(List2(c)) \in Nat
      BY <3>1, LenProperties
    <3> HIDE DEF List2
    <3>3. QED
      BY <3>2
  <2>3. CASE c.undo
    BY <1>1, <2>1, <2>2, <2>3
  <2>4. CASE ~c.undo
    BY <1>1, <2>1, <2>2, <2>4
  <2>5. QED
    BY <2>1, <2>3, <2>4
<1>3. Attempts(e, d2, u2, label, 0, runs, cmds)
  BY <1>2 DEF Attempts
<1>4. QED
  BY <1>3

LEMMA CollectKeeps ==
    ASSUME IInv, NEW w \in Workers, pc[w] = "step", NEW e \in Executions, e = Exec(w),
           NEW x \in OutcomesOf(Current(w)), Collect(w, x),
           attempt'[w] = 0, attempt' \in [Workers -> Nat],
           \A v \in Workers \ {w} : attempt'[v] = attempt[v],
           ran' \in [Executions -> Seq(Command)], \A f \in Executions \ {e} : ran'[f] = ran[f],
           InOrder(e)', \A j \in 1..Len(ran'[e]) : Placed(e, done[w], undone[w], ran'[e][j]),
           UNCHANGED <<table, request, stream, batch, reports, faults>>
    PROVE  IInv'
<1> DEFINE d == done[w]
           u == undone[w]
<1>1. /\ TypeOK /\ Owned /\ WorkerOK(w) /\ pc[w] # "poll" /\ d \in Seq(Result) /\ u \in Seq(Result)
      /\ Memory(e, d, u, "step", status[e], error[e], results[e], reports[e])
      /\ Undoing(w) = AnyBad(d) /\ NextOf(e, d, u) = Current(w) /\ ExecutionOK(e)
  BY Here DEF Busy
<1>2. /\ x \in Result
      /\ ~AnyBad(d) => Memory(e, Append(d, x), u, "save", status[e], error[e], results[e], reports[e])
      /\ AnyBad(d) => Memory(e, d, Append(u, x), "report", status[e], error[e], results[e], reports[e])
  BY <1>1, OneMore
<1>3. ~AnyBad(d) => u = << >>
  BY <1>1 DEF Memory
<1>4. /\ \A label, runs : ~AnyBad(d) => Attempts(e, Append(d, x), u, label, 0, runs, ran'[e])
      /\ \A label, runs : AnyBad(d) => Attempts(e, d, Append(u, x), label, 0, runs, ran'[e])
  BY <1>1, <1>2, <1>3, PlacedCollected
<1>5. PICK label \in {"save", "report"} :
          /\ Goto(w, label)
          /\ ~AnyBad(d) => label = "save" /\ done' = [done EXCEPT ![w] = Append(d, x)] /\ undone' = undone
          /\ AnyBad(d) => label = "report" /\ undone' = [undone EXCEPT ![w] = Append(u, x)] /\ done' = done
  BY <1>1 DEF Collect
<1>6. /\ pc'[w] = label
      /\ ~AnyBad(d) => done'[w] = Append(d, x) /\ undone'[w] = u
      /\ AnyBad(d) => undone'[w] = Append(u, x) /\ done'[w] = d
      /\ \A v \in Workers \ {w} : done'[v] = done[v] /\ undone'[v] = undone[v]
  BY <1>1, <1>5 DEF Goto, TypeOK
<1>7. /\ status' = status /\ results' = results /\ error' = error /\ progress' = progress
      /\ request' = request /\ stream' = stream /\ batch' = batch /\ reports' = reports /\ faults' = faults
  BY DEF table
<1>8. Acts(w, label)
  BY <1>5, <1>6, <1>7 DEF Acts, SameRow
<1>9. TypeOK'
  <2>1. Append(d, x) \in Seq(Result) /\ Append(u, x) \in Seq(Result)
    BY <1>1, <1>2, OneMoreResult
  <2>2. done' \in [Workers -> Seq(Result)] /\ undone' \in [Workers -> Seq(Result)]
    BY <1>1, <1>5, <2>1 DEF TypeOK
  <2>3. pc' \in [Workers -> PcValues] /\ \A v \in Workers : (pc'[v] = "poll") = (batch'[v] = << >>)
    <3>1. pc' = [pc EXCEPT ![w] = label] /\ label \in PcValues \ {"poll"}
      BY <1>5 DEF Goto, PcValues
    <3>2. /\ pc \in [Workers -> PcValues] /\ pc[w] # "poll"
          /\ \A v \in Workers : (pc[v] = "poll") = (batch'[v] = << >>)
      BY <1>1, <1>7 DEF TypeOK
    <3>3. QED
      BY <3>1, <3>2
  <2>4. QED
    BY <1>1, <1>7, <2>2, <2>3 DEF TypeOK
<1>10. ExecutionOK(e)'
  <2>1. status[e] \notin {"none", "pending"}
    BY <1>1 DEF Memory
  <2>2. RowOK(e)'
    BY <1>1, <1>7, <2>1 DEF ExecutionOK, RowOK
  <2>3. QED
    BY <1>1, <1>7, <2>2, HonestSame, LeadsSame DEF ExecutionOK
<1>11. WorkerOK(w)'
  <2>1. Exec(w)' = e
    BY <1>7 DEF Exec
  <2>2. QED
    <3>1. pc'[w] \in Busy
      BY <1>5, <1>6 DEF Busy
    <3>2. Memory(e, done'[w], undone'[w], pc'[w], status'[e], error'[e], results'[e], reports'[e])
      BY <1>2, <1>5, <1>6, <1>7
    <3>3. \A runs : Attempts(e, done'[w], undone'[w], pc'[w], attempt'[w], runs, ran'[e])
      BY <1>1, <1>4, <1>5, <1>6
    <3>4. QED
      BY <2>1, <3>1, <3>2, <3>3, WorkerNow
<1>12. QED
  BY <1>1, <1>8, <1>9, <1>10, <1>11, ActKeeps DEF PcValues

LEMMA SkipManualKeeps ==
    ASSUME IInv, NEW w \in Workers, SkipManual(w)
    PROVE  IInv'
<1>1. pc[w] = "step" /\ Current(w).type = "manual"
  BY DEF SkipManual, At
<1>2. PICK e \in Executions : e = Exec(w)
  BY <1>1, Here DEF Busy
<1>3. /\ TypeOK /\ attempt[w] \in Nat /\ ExecutionOK(e) /\ NextOf(e, done[w], undone[w]) = Current(w)
      /\ Attempts(e, done[w], undone[w], pc[w], attempt[w],
                  Runs(e, [undo |-> Undoing(w), order |-> Current(w).order]), ran[e])
  BY <1>1, <1>2, Here DEF Busy
<1>4. attempt[w] = 0
  BY <1>1, <1>3 DEF Attempts
<1>5. \A j \in 1..Len(ran[e]) : Placed(e, done[w], undone[w], ran[e][j])
  BY <1>3, AllPlaced
<1>6. InOrder(e)'
  BY <1>3, InOrderSame DEF SkipManual, ExecutionOK
<1>7. Outcome(Current(w), "skipped", 0) \in OutcomesOf(Current(w))
  BY <1>1 DEF OutcomesOf
<1>8. QED
  BY <1>1, <1>2, <1>3, <1>4, <1>5, <1>6, <1>7, CollectKeeps DEF SkipManual, TypeOK

-----------------------------------------------------------------------------
(* Commands *)

LEMMA RunsAppend ==
    ASSUME NEW e, ran[e] \in Seq(Command), NEW c \in Command, ran'[e] = Append(ran[e], c), NEW b
    PROVE  /\ Runs(e, b) \in Nat
           /\ Runs(e, b)' = IF b = c THEN Runs(e, b) + 1 ELSE Runs(e, b)
<1> DEFINE J == {j \in 1..Len(ran[e]) : ran[e][j] = b}
           K == {j \in 1..Len(ran'[e]) : ran'[e][j] = b}
           n == Len(ran[e]) + 1
<1>1. /\ Len(ran[e]) \in Nat /\ Len(ran'[e]) = n
      /\ \A j \in 1..Len(ran[e]) : ran'[e][j] = ran[e][j]
      /\ ran'[e][n] = c
  BY AppendOne
<1>2. Runs(e, b) = Cardinality(J) /\ Runs(e, b)' = Cardinality(K)
  BY DEF Runs
<1>3. IsFiniteSet(J) /\ Cardinality(J) \in Nat
  <2>1. IsFiniteSet(1..Len(ran[e]))
    BY <1>1, FirstNumbers
  <2>2. IsFiniteSet(J)
    BY <2>1, FS_Subset
  <2>3. QED
    BY <2>2, FS_CardinalityType
<1>4. CASE b = c
  <2>1. K = J \cup {n} /\ n \notin J
    BY <1>1, <1>4
  <2> HIDE DEF J, K, n
  <2>2. Cardinality(J \cup {n}) = Cardinality(J) + 1
    BY <1>3, <2>1, FS_AddElement
  <2>3. QED
    BY <1>2, <1>3, <1>4, <2>1, <2>2
<1>5. CASE b # c
  <2>1. K = J
    BY <1>1, <1>5
  <2> HIDE DEF J, K
  <2>2. QED
    BY <1>2, <1>3, <1>5, <2>1
<1>6. QED
  BY <1>4, <1>5

Source(e, undo) == IF undo THEN RollbackOf[e] ELSE StepsOf[e]

ListOf(e, d) == IF AnyBad(d) THEN Backward[e] ELSE Forward[e]
GotOf(d, u)  == IF AnyBad(d) THEN u ELSE d

\* The step a worker is at, in its list.
LEMMA AtStep ==
    ASSUME NEW e \in Executions, NEW d \in Seq(Result), NEW u \in Seq(Result), NEW st, NEW er, NEW row,
           NEW sent, Memory(e, d, u, "step", st, er, row, sent)
    PROVE  /\ ListOf(e, d) \in Seq(RunbookStep) /\ Len(ListOf(e, d)) \in Nat /\ Len(GotOf(d, u)) \in Nat
           /\ Len(GotOf(d, u)) + 1 \in 1..Len(ListOf(e, d))
           /\ NextOf(e, d, u) = ListOf(e, d)[Len(GotOf(d, u)) + 1]
           /\ \A k \in 1..Len(ListOf(e, d)) : ListOf(e, d)[k] \in RunbookStep /\ ListOf(e, d)[k].order \in Int
           /\ \A k, l \in 1..Len(ListOf(e, d)) :
                  k < l => IF AnyBad(d) THEN ListOf(e, d)[k].order > ListOf(e, d)[l].order
                                        ELSE ListOf(e, d)[k].order < ListOf(e, d)[l].order
<1>1. /\ ListOf(e, d) \in Seq(RunbookStep) /\ Len(ListOf(e, d)) \in Nat /\ Len(GotOf(d, u)) \in Nat
      /\ \A k, l \in 1..Len(ListOf(e, d)) :
             k < l => IF AnyBad(d) THEN ListOf(e, d)[k].order > ListOf(e, d)[l].order
                                   ELSE ListOf(e, d)[k].order < ListOf(e, d)[l].order
  BY Plans, LenProperties DEF ListOf, GotOf
<1>2. /\ Len(GotOf(d, u)) < Len(ListOf(e, d))
      /\ NextOf(e, d, u) = ListOf(e, d)[Len(GotOf(d, u)) + 1]
  BY DEF Memory, NextOf, ListOf, GotOf
<1>3. Len(GotOf(d, u)) + 1 \in 1..Len(ListOf(e, d))
  BY <1>1, <1>2
<1>4. \A k \in 1..Len(ListOf(e, d)) : ListOf(e, d)[k] \in RunbookStep /\ ListOf(e, d)[k].order \in Int
  BY <1>1, ElementOfSeq, StepFields
<1>5. QED
  BY <1>1, <1>2, <1>3, <1>4

\* It is one of the stored steps.
LEMMA StepStored ==
    ASSUME NEW e \in Executions, NEW d \in Seq(Result), NEW u \in Seq(Result), NEW st, NEW er, NEW row,
           NEW sent, Memory(e, d, u, "step", st, er, row, sent)
    PROVE  /\ NextOf(e, d, u) \in RunbookStep
           /\ NextOf(e, d, u).order \in Int /\ NextOf(e, d, u).retries \in Nat
           /\ \E m \in 1..Len(Source(e, AnyBad(d))) : Source(e, AnyBad(d))[m] = NextOf(e, d, u)
<1>1. /\ Len(GotOf(d, u)) + 1 \in 1..Len(ListOf(e, d))
      /\ NextOf(e, d, u) = ListOf(e, d)[Len(GotOf(d, u)) + 1]
      /\ ListOf(e, d)[Len(GotOf(d, u)) + 1] \in RunbookStep
  BY AtStep
<1>2. NextOf(e, d, u) \in RunbookStep
  BY <1>1
<1>3. NextOf(e, d, u).order \in Int /\ NextOf(e, d, u).retries \in Nat
  BY <1>2, StepFields
<1>4. \E m \in 1..Len(Source(e, AnyBad(d))) : Source(e, AnyBad(d))[m] = NextOf(e, d, u)
  <2>1. CASE AnyBad(d)
    BY <1>1, <2>1, Plans DEF Source, ListOf
  <2>2. CASE ~AnyBad(d)
    BY <1>1, <2>2, Plans DEF Source, ListOf
  <2>3. QED
    BY <2>1, <2>2
<1>5. QED
  BY <1>2, <1>3, <1>4

\* The current command was run as often as it has failed.
LEMMA RunsNow ==
    ASSUME NEW e \in Executions, NEW d \in Seq(Result), NEW u \in Seq(Result), NEW st, NEW er, NEW row,
           NEW sent, Memory(e, d, u, "step", st, er, row, sent), NEW n \in Nat,
           NEW c, c = [undo |-> AnyBad(d), order |-> NextOf(e, d, u).order],
           Attempts(e, d, u, "step", n, Runs(e, c), ran[e])
    PROVE  Runs(e, c) = n
<1>1. CASE n > 0
  BY <1>1 DEF Attempts
<1>2. CASE n = 0
  <2>1. ASSUME NEW j \in 1..Len(ran[e]), ran[e][j] = c
        PROVE  FALSE
    <3>1. PICK list, got : list = ListOf(e, d) /\ got = GotOf(d, u)
      OBVIOUS
    <3>2. PICK k \in 1..Len(list) : list[k].order = c.order /\ k <= Len(got)
      BY <1>2, <2>1, <3>1 DEF Attempts, ListOf, GotOf
    <3>3. /\ Len(got) \in Nat /\ Len(list) \in Nat /\ Len(got) + 1 \in 1..Len(list)
          /\ NextOf(e, d, u) = list[Len(got) + 1]
          /\ \A l \in 1..Len(list) : list[l].order \in Int
          /\ \A i, l \in 1..Len(list) :
                 i < l => IF AnyBad(d) THEN list[i].order > list[l].order ELSE list[i].order < list[l].order
      BY <3>1, AtStep
    <3>4. k < Len(got) + 1
      BY <3>2, <3>3
    <3>5. QED
      BY <3>2, <3>3, <3>4
  <2>2. {j \in 1..Len(ran[e]) : ran[e][j] = c} = {}
    BY <2>1
  <2>3. QED
    BY <1>2, <2>2, FS_EmptySet DEF Runs
<1>3. QED
  BY <1>1, <1>2

\* Running the current command keeps the order of the commands and the bound on each.
LEMMA CommandKeepsOrder ==
    ASSUME NEW e \in Executions, NEW d \in Seq(Result), NEW u \in Seq(Result), NEW st, NEW er, NEW row,
           NEW sent, Memory(e, d, u, "step", st, er, row, sent),
           ran[e] \in Seq(Command), InOrder(e), \A j \in 1..Len(ran[e]) : Placed(e, d, u, ran[e][j]),
           NEW c, c = [undo |-> AnyBad(d), order |-> NextOf(e, d, u).order], ran'[e] = Append(ran[e], c),
           NextOf(e, d, u).type = "automated", Runs(e, c) <= NextOf(e, d, u).retries
    PROVE  /\ InOrder(e)' /\ c \in Command /\ Append(ran[e], c) \in Seq(Command)
           /\ \A j \in 1..Len(ran'[e]) : Placed(e, d, u, ran'[e][j])
<1> DEFINE N == Len(ran[e])
           step == NextOf(e, d, u)
<1>1. PICK list, got : list = ListOf(e, d) /\ got = GotOf(d, u)
  OBVIOUS
<1>2. /\ Len(got) \in Nat /\ Len(list) \in Nat /\ Len(got) + 1 \in 1..Len(list)
      /\ step = list[Len(got) + 1] /\ step \in RunbookStep /\ step.order \in Int /\ step.retries \in Nat
      /\ \A l \in 1..Len(list) : list[l].order \in Int
      /\ \A i, l \in 1..Len(list) :
             i < l => IF AnyBad(d) THEN list[i].order > list[l].order ELSE list[i].order < list[l].order
      /\ \E m \in 1..Len(Source(e, AnyBad(d))) : Source(e, AnyBad(d))[m] = step
  BY <1>1, AtStep, StepStored
<1>3. c \in Command /\ c.undo = AnyBad(d) /\ c.order = step.order
  BY <1>2 DEF Command, AnyBad
<1>4. /\ Append(ran[e], c) \in Seq(Command) /\ N \in Nat /\ Len(ran'[e]) = N + 1
      /\ \A j \in 1..N : ran'[e][j] = ran[e][j] /\ ran[e][j] \in Command
      /\ ran'[e][N + 1] = c
  BY <1>3, AppendOne
<1>5. \A j \in 1..Len(ran'[e]) : Placed(e, d, u, ran'[e][j])
  <2>1. Placed(e, d, u, c)
    BY <1>1, <1>2, <1>3 DEF Placed, ListOf, GotOf
  <2>2. \A j \in 1..(N + 1) : j \in 1..N \/ j = N + 1
    BY <1>4
  <2>3. QED
    BY <1>4, <2>1, <2>2
<1>6. ASSUME NEW b \in Command, Placed(e, d, u, b)
      PROVE  Precedes(b, c)
  <2>1. b.undo \in BOOLEAN /\ b.order \in Int
    BY DEF Command
  <2>2. CASE b.undo /\ ~AnyBad(d)
    <3>1. Len(u) = 0 /\ Len(Backward[e]) \in Nat
      BY <2>2, Plans, EmptySeq, LenProperties DEF Memory
    <3>2. QED
      BY <1>6, <2>2, <3>1 DEF Placed
  <2>3. CASE ~b.undo /\ AnyBad(d)
    BY <1>3, <2>3 DEF Precedes
  <2>4. CASE b.undo <=> AnyBad(d)
    <3>1. PICK k \in 1..Len(list) : list[k].order = b.order /\ (k <= Len(got) \/ k = Len(got) + 1)
      BY <1>1, <1>6, <2>4 DEF Placed, ListOf, GotOf
    <3>2. k < Len(got) + 1 \/ k = Len(got) + 1
      BY <1>2, <3>1
    <3>3. IF AnyBad(d) THEN b.order >= c.order ELSE b.order <= c.order
      BY <1>2, <1>3, <2>1, <3>1, <3>2
    <3>4. CASE b.undo
      BY <1>3, <2>1, <2>4, <3>3, <3>4 DEF Precedes
    <3>5. CASE ~b.undo
      <4>1. b.undo = FALSE /\ c.undo = FALSE /\ b.order <= c.order
        BY <1>3, <2>1, <2>4, <3>3, <3>5
      <4>2. QED
        BY <4>1 DEF Precedes
    <3>6. QED
      BY <3>4, <3>5
  <2>5. QED
    BY <2>2, <2>3, <2>4
<1>7. ASSUME NEW j \in 1..Len(ran'[e]), NEW k \in 1..Len(ran'[e]), j < k
      PROVE  Precedes(ran'[e][j], ran'[e][k])
  <2>1. j \in 1..N /\ ran'[e][j] = ran[e][j] /\ ran[e][j] \in Command
    BY <1>4, <1>7
  <2>2. CASE k \in 1..N
    BY <1>4, <1>7, <2>1, <2>2 DEF InOrder
  <2>3. CASE k = N + 1
    BY <1>4, <1>6, <2>1, <2>3
  <2>4. QED
    BY <1>4, <2>2, <2>3
<1>8. \A b : Runs(e, b) \in Nat /\ Runs(e, b)' = IF b = c THEN Runs(e, b) + 1 ELSE Runs(e, b)
  BY <1>3, RunsAppend
<1>9. ASSUME NEW k \in 1..Len(ran'[e])
      PROVE  \E m \in 1..Len(Source(e, ran'[e][k].undo)) :
                 /\ Source(e, ran'[e][k].undo)[m].type = "automated"
                 /\ Source(e, ran'[e][k].undo)[m].order = ran'[e][k].order
                 /\ Runs(e, ran[e][k])' <= Source(e, ran'[e][k].undo)[m].retries + 1
  <2>1. PICK b : b = ran'[e][k]
    OBVIOUS
  <2>2. Runs(e, ran[e][k])' = Runs(e, b)'
    BY <2>1, Zenon DEF Runs
  <2>3. CASE b = c
    <3>1. Runs(e, b)' <= step.retries + 1
      <4>1. Runs(e, c) \in Nat /\ Runs(e, b)' = Runs(e, c) + 1
        BY <1>8, <2>3
      <4>2. PICK runs \in Nat : runs = Runs(e, c)
        BY <4>1
      <4>3. Runs(e, b)' = runs + 1 /\ runs <= step.retries /\ step.retries \in Nat
        BY <1>2, <4>1, <4>2
      <4>4. QED
        BY <4>3
    <3>2. QED
      BY <1>2, <1>3, <2>1, <2>2, <2>3, <3>1
  <2>4. CASE b # c
    <3>1. k \in 1..N /\ ran[e][k] = b
      BY <1>4, <2>1, <2>4
    <3>2. Runs(e, b)' = Runs(e, b)
      BY <1>8, <2>4
    <3>3. \E m \in 1..Len(Source(e, b.undo)) :
              /\ Source(e, b.undo)[m].type = "automated" /\ Source(e, b.undo)[m].order = b.order
              /\ Runs(e, b) <= Source(e, b.undo)[m].retries + 1
      BY <3>1 DEF InOrder, Source
    <3>4. QED
      BY <2>1, <2>2, <3>2, <3>3
  <2>5. QED
    BY <2>3, <2>4
<1>10. InOrder(e)'
  BY <1>7, <1>9 DEF InOrder, Source
<1>11. QED
  BY <1>3, <1>4, <1>5, <1>10

LEMMA AttemptKeeps ==
    ASSUME IInv, NEW w \in Workers, Attempt(w)
    PROVE  IInv'
<1>1. pc[w] = "step" /\ Current(w).type = "automated"
  BY DEF Attempt, At
<1>2. PICK e \in Executions : e = Exec(w)
  BY <1>1, Here DEF Busy
<1> DEFINE d == done[w]
           u == undone[w]
           n == attempt[w]
<1>3. PICK c : c = [undo |-> AnyBad(d), order |-> NextOf(e, d, u).order]
  OBVIOUS
<1>4. /\ TypeOK /\ Owned /\ WorkerOK(w) /\ pc[w] # "poll" /\ d \in Seq(Result) /\ u \in Seq(Result) /\ n \in Nat
      /\ Memory(e, d, u, "step", status[e], error[e], results[e], reports[e])
      /\ Undoing(w) = AnyBad(d) /\ NextOf(e, d, u) = Current(w) /\ ExecutionOK(e)
      /\ Attempts(e, d, u, "step", n, Runs(e, c), ran[e]) /\ ran[e] \in Seq(Command)
  BY <1>1, <1>2, <1>3, Here DEF Busy
<1>5. /\ Runs(e, c) = n /\ NextOf(e, d, u).retries \in Nat
      /\ n <= NextOf(e, d, u).retries
  <2>1. Runs(e, c) = n
    BY <1>3, <1>4, RunsNow
  <2>2. NextOf(e, d, u).retries \in Nat
    BY <1>4, StepStored
  <2>3. n > 0 => n <= NextOf(e, d, u).retries
    BY <1>4 DEF Attempts
  <2>4. QED
    BY <1>4, <2>1, <2>2, <2>3
<1>6. /\ ran' = [ran EXCEPT ![e] = Append(ran[e], c)] /\ ran'[e] = Append(ran[e], c)
      /\ \A f \in Executions \ {e} : ran'[f] = ran[f]
  BY <1>2, <1>3, <1>4 DEF Attempt, TypeOK
<1>7. \A j \in 1..Len(ran[e]) : Placed(e, d, u, ran[e][j])
  BY <1>4, AllPlaced
<1>8. /\ InOrder(e)' /\ c \in Command /\ Append(ran[e], c) \in Seq(Command)
      /\ \A j \in 1..Len(ran'[e]) : Placed(e, d, u, ran'[e][j])
  <2>1. /\ InOrder(e) /\ NextOf(e, d, u).type = "automated"
        /\ Runs(e, c) <= NextOf(e, d, u).retries
    BY <1>1, <1>4, <1>5 DEF ExecutionOK
  <2>2. /\ d \in Seq(Result) /\ u \in Seq(Result) /\ ran[e] \in Seq(Command)
        /\ Memory(e, d, u, "step", status[e], error[e], results[e], reports[e])
        /\ ran'[e] = Append(ran[e], c)
    BY <1>4, <1>6
  <2>3. QED
    BY <1>3, <1>7, <2>1, <2>2, CommandKeepsOrder
<1>9. ran' \in [Executions -> Seq(Command)]
  BY <1>4, <1>6, <1>8 DEF TypeOK
<1>10. UNCHANGED <<table, request, stream, batch, reports, faults>>
  BY DEF Attempt
<1>11. CASE \E x \in OutcomesOf(Current(w)) : Collect(w, x) /\ attempt' = [attempt EXCEPT ![w] = 0]
  <2>1. PICK x \in OutcomesOf(Current(w)) : Collect(w, x) /\ attempt' = [attempt EXCEPT ![w] = 0]
    BY <1>11
  <2>2. /\ attempt' \in [Workers -> Nat] /\ attempt'[w] = 0
        /\ \A v \in Workers \ {w} : attempt'[v] = attempt[v]
    BY <1>4, <2>1 DEF TypeOK
  <2>3. QED
    BY <1>1, <1>2, <1>6, <1>8, <1>9, <1>10, <2>1, <2>2, CollectKeeps
<1>12. CASE /\ n < NextOf(e, d, u).retries /\ attempt' = [attempt EXCEPT ![w] = @ + 1]
            /\ UNCHANGED <<pc, done, undone>>
  <2>1. /\ attempt' \in [Workers -> Nat] /\ attempt'[w] = n + 1
        /\ \A v \in Workers \ {w} : attempt'[v] = attempt[v]
    BY <1>4, <1>12 DEF TypeOK
  <2>2. /\ status' = status /\ results' = results /\ error' = error /\ progress' = progress
        /\ request' = request /\ stream' = stream /\ batch' = batch /\ reports' = reports /\ faults' = faults
        /\ pc' = pc /\ done' = done /\ undone' = undone
    BY <1>10, <1>12 DEF table
  <2>3. Goto(w, "step")
    BY <1>1, <1>4, <2>2 DEF Goto, TypeOK
  <2>4. Acts(w, "step")
    BY <1>2, <1>6, <2>1, <2>2, <2>3 DEF Acts, SameRow
  <2>5. TypeOK'
    BY <1>4, <1>9, <2>1, <2>2 DEF TypeOK
  <2>6. ExecutionOK(e)'
    <3>1. status[e] \notin {"none", "pending"}
      BY <1>4 DEF Memory
    <3>2. RowOK(e)'
      BY <1>4, <2>2, <3>1 DEF ExecutionOK, RowOK
    <3>3. QED
      BY <1>4, <1>8, <2>2, <3>2, HonestSame, LeadsSame DEF ExecutionOK
  <2>7. Attempts(e, d, u, "step", n + 1, n + 1, ran'[e])
    <3>1. \A j \in 1..Len(ran'[e]) : ran'[e][j].undo \in BOOLEAN
      <4>1. ran'[e] \in Seq(Command)
        BY <1>6, <1>8
      <4>2. \A j \in 1..Len(ran'[e]) : ran'[e][j] \in Command
        BY <4>1, ElementOfSeq
      <4>3. QED
        BY <4>2 DEF Command
    <3>2. AnyBad(d) \in BOOLEAN
      BY DEF AnyBad
    <3>3. \A j \in 1..Len(ran'[e]) : (ran'[e][j].undo <=> AnyBad(d)) => ran'[e][j].undo = AnyBad(d)
      BY <3>1, <3>2
    <3>4. n + 1 > 0 /\ n + 1 <= NextOf(e, d, u).retries /\ NextOf(e, d, u).type = "automated"
      BY <1>1, <1>4, <1>5, <1>12
    <3>5. QED
      BY <1>8, <3>3, <3>4 DEF Attempts, Placed
  <2>8. Runs(e, c)' = n + 1
    BY <1>4, <1>5, <1>6, <1>8, RunsAppend
  <2>9. Runs(e, [undo |-> AnyBad(done[w]), order |-> NextOf(e, done[w], undone[w]).order])' = Runs(e, c)'
    BY <1>3, <2>2, Zenon DEF Runs
  <2>10. WorkerOK(w)'
    <3>1. Exec(w)' = e
      BY <1>2, <2>2 DEF Exec
    <3>2. QED
      BY <1>1, <1>4, <2>1, <2>2, <2>7, <2>8, <2>9, <3>1, WorkerNow DEF Busy
  <2>11. QED
    BY <1>2, <1>4, <2>4, <2>5, <2>6, <2>10, ActKeeps DEF PcValues
<1>13. QED
  <2>1. /\ \A s \in {"success", "timed_out"} : Outcome(Current(w), s, n) \in OutcomesOf(Current(w))
        /\ n = Current(w).retries => Outcome(Current(w), "failed", n + 1) \in OutcomesOf(Current(w))
    BY <1>1, <1>4, <1>5 DEF OutcomesOf
  <2>2. \/ \E x \in OutcomesOf(Current(w)) : Collect(w, x) /\ attempt' = [attempt EXCEPT ![w] = 0]
        \/ /\ n < Current(w).retries /\ attempt' = [attempt EXCEPT ![w] = @ + 1]
           /\ UNCHANGED <<pc, done, undone>>
    BY <2>1 DEF Attempt
  <2>3. QED
    BY <1>4, <1>11, <1>12, <2>2

-----------------------------------------------------------------------------
(* The row and the progress stream *)

LEMMA SaveKeeps ==
    ASSUME IInv, NEW w \in Workers, Save(w)
    PROVE  IInv'
<1>1. pc[w] = "save"
  BY DEF Save, At
<1>2. PICK e \in Executions : e = Exec(w)
  BY <1>1, Here DEF Busy
<1> DEFINE d == done[w]
           u == undone[w]
<1>3. /\ TypeOK /\ Owned /\ WorkerOK(w) /\ pc[w] # "poll" /\ d \in Seq(Result) /\ u \in Seq(Result)
      /\ Memory(e, d, u, "save", status[e], error[e], results[e], reports[e])
      /\ Attempts(e, d, u, "save", attempt[w], Runs(e, [undo |-> Undoing(w), order |-> Current(w).order]), ran[e])
      /\ ExecutionOK(e)
  BY <1>1, <1>2, Here DEF Busy
<1>4. /\ status' = status /\ results' = [results EXCEPT ![e] = d] /\ error' = error
      /\ progress' = [progress EXCEPT ![e] = "recent"]
      /\ request' = request /\ stream' = stream /\ batch' = batch /\ pc' = [pc EXCEPT ![w] = "report"]
      /\ done' = done /\ undone' = undone /\ attempt' = attempt /\ ran' = ran
      /\ reports' = reports /\ faults' = faults
  BY <1>2 DEF Save, Goto
<1>5. results'[e] = d /\ pc'[w] = "report" /\ Acts(w, "report")
  BY <1>2, <1>3, <1>4 DEF Acts, Goto, SameRow, TypeOK
<1>6. TypeOK'
  BY <1>3, <1>4 DEF TypeOK, PcValues
<1>7. /\ status[e] = "running" \/ (status[e] = "failed" /\ error[e] = "watchdog")
      /\ u = << >> /\ d # << >> /\ results[e] = SubSeq(d, 1, Len(d) - 1)
      /\ reports[e] = SubSeq(d \o u, 1, Len(d \o u) - 1)
  BY <1>3 DEF Memory
<1>8. reports[e] = SubSeq(d, 1, Len(d) - 1) /\ d \o u = d
  BY <1>3, <1>7, Whole
<1>9. Memory(e, d, u, "report", status'[e], error'[e], results'[e], reports'[e])
  BY <1>3, <1>4, <1>5 DEF Memory
<1>10. Attempts(e, d, u, "report", 0, 0, ran'[e]) /\ attempt[w] = 0
  <2>1. attempt[w] = 0
    BY <1>3 DEF Attempts, TypeOK
  <2>2. QED
    BY <1>3, <1>4, <2>1 DEF Attempts
<1>11. WorkerOK(w)'
  <2>1. Exec(w)' = e
    BY <1>2, <1>4 DEF Exec
  <2>2. \A runs : Attempts(e, d, u, "report", 0, runs, ran'[e])
    BY <1>10 DEF Attempts
  <2>3. QED
    BY <1>4, <1>5, <1>9, <1>10, <2>1, <2>2, WorkerNow DEF Busy
<1>12. ExecutionOK(e)'
  <2>1. RowOK(e)'
    BY <1>3, <1>4, <1>7 DEF ExecutionOK, RowOK
  <2>2. Honest(e)'
    <3>1. error[e] # "step"
      BY <1>3, <1>7 DEF ExecutionOK, RowOK
    <3>2. QED
      BY <1>4, <1>7, <3>1 DEF Honest
  <2>3. Leads(e)'
    <3>1. \A k \in 1..Len(reports[e]) : k <= Len(d) /\ d[k] = reports[e][k]
      <4>1. /\ Len(d) \in Nat /\ Len(reports[e]) = Len(d) - 1
            /\ \A j \in 1..(Len(d) - 1) : reports[e][j] = d[j]
        BY <1>3, <1>7, <1>8, FrontAndLast, LenProperties
      <4>2. QED
        BY <4>1
    <3>2. QED
      BY <1>4, <1>5, <3>1 DEF Leads
  <2>4. QED
    BY <1>3, <1>4, <2>1, <2>2, <2>3, InOrderSame DEF ExecutionOK
<1>13. QED
  BY <1>2, <1>3, <1>5, <1>6, <1>11, <1>12, ActKeeps DEF PcValues

\* A statement that only moves the worker on: what it leaves alone.
LEMMA MoveKeeps ==
    ASSUME IInv, NEW w \in Workers, pc[w] \in Busy, NEW e \in Executions, e = Exec(w),
           NEW label \in Busy, Goto(w, label), reports' \in [Executions -> Seq(Result)],
           \A f \in Executions \ {e} : reports'[f] = reports[f],
           UNCHANGED <<table, request, stream, batch, done, undone, attempt, ran, faults>>,
           Memory(e, done[w], undone[w], label, status[e], error[e], results[e], reports'[e]),
           Attempts(e, done[w], undone[w], label, attempt[w],
                    Runs(e, [undo |-> Undoing(w), order |-> Current(w).order]), ran[e]),
           Leads(e)'
    PROVE  IInv'
<1>1. /\ TypeOK /\ Owned /\ WorkerOK(w) /\ pc[w] # "poll" /\ ExecutionOK(e)
      /\ Undoing(w) = AnyBad(done[w]) /\ NextOf(e, done[w], undone[w]) = Current(w)
  BY Here
<1>2. /\ status' = status /\ results' = results /\ error' = error /\ progress' = progress
      /\ request' = request /\ stream' = stream /\ batch' = batch
      /\ done' = done /\ undone' = undone /\ attempt' = attempt /\ ran' = ran /\ faults' = faults
  BY DEF table
<1>3. pc'[w] = label /\ Acts(w, label)
  BY <1>1, <1>2 DEF Acts, Goto, SameRow, TypeOK
<1>4. TypeOK'
  BY <1>1, <1>2 DEF Goto, TypeOK, PcValues, Busy
<1>5. ExecutionOK(e)'
  <2>1. status[e] \notin {"none", "pending"}
    BY DEF Memory
  <2>2. RowOK(e)'
    BY <1>1, <1>2, <2>1 DEF ExecutionOK, RowOK
  <2>3. QED
    BY <1>1, <1>2, <2>2, HonestSame, InOrderSame DEF ExecutionOK
<1>6. WorkerOK(w)'
  <2>1. Exec(w)' = e
    BY <1>2 DEF Exec
  <2>2. Runs(e, [undo |-> AnyBad(done[w]), order |-> NextOf(e, done[w], undone[w]).order])' =
            Runs(e, [undo |-> Undoing(w), order |-> Current(w).order])
    BY <1>1, <1>2, Zenon DEF Runs
  <2>3. QED
    BY <1>2, <1>3, <2>1, <2>2, WorkerNow
<1>7. QED
  BY <1>1, <1>3, <1>4, <1>5, <1>6, ActKeeps DEF PcValues, Busy

LEMMA ReportKeeps ==
    ASSUME IInv, NEW w \in Workers, Report(w)
    PROVE  IInv'
<1>1. pc[w] = "report"
  BY DEF Report, At
<1>2. PICK e \in Executions : e = Exec(w)
  BY <1>1, Here DEF Busy
<1> DEFINE d == done[w]
           u == undone[w]
           all == d \o u
           turning == AnyBad(d) /\ u = << >>
<1>3. PICK label : label = IF turning THEN "rollback" ELSE NextStep(w)
  OBVIOUS
<1>4. /\ TypeOK /\ Owned /\ WorkerOK(w) /\ pc[w] # "poll" /\ d \in Seq(Result) /\ u \in Seq(Result)
      /\ Memory(e, d, u, "report", status[e], error[e], results[e], reports[e])
      /\ Attempts(e, d, u, "report", attempt[w], Runs(e, [undo |-> Undoing(w), order |-> Current(w).order]), ran[e])
      /\ ExecutionOK(e) /\ Undoing(w) = AnyBad(d) /\ reports[e] \in Seq(Result) /\ attempt[w] \in Nat
  BY <1>1, <1>2, Here DEF Busy
<1>5. /\ d # << >> /\ results[e] = d /\ reports[e] = SubSeq(all, 1, Len(all) - 1)
      /\ ~AnyBad(d) => u = << >>
      /\ attempt[w] = 0
  <2>1. attempt[w] = 0
    BY <1>4 DEF Attempts
  <2>2. QED
    BY <1>4, <2>1 DEF Memory
<1>6. /\ Len(d) \in Nat \ {0} /\ Len(u) \in Nat /\ all \in Seq(Result) /\ Len(all) = Len(d) + Len(u)
      /\ \A j \in 1..Len(d) : all[j] = d[j]
      /\ \A j \in 1..Len(u) : all[Len(d) + j] = u[j]
  <2>1. Len(d) \in Nat \ {0}
    BY <1>4, <1>5, DropFirst
  <2>2. /\ d \o u \in Seq(Result) /\ Len(u) \in Nat /\ Len(d \o u) = Len(d) + Len(u)
        /\ \A j \in 1..Len(d) : (d \o u)[j] = d[j]
        /\ \A j \in 1..Len(u) : (d \o u)[Len(d) + j] = u[j]
    <3>1. d \in Seq(Result) /\ u \in Seq(Result)
      BY <1>4
    <3> HIDE DEF d, u
    <3>2. QED
      BY <3>1, Joined
  <2>3. QED
    BY <2>1, <2>2
<1> HIDE DEF all, turning
<1>7. all # << >> /\ Len(all) \in Nat \ {0}
  <2>1. Len(all) \in Nat \ {0}
    <3> HIDE DEF d, u
    <3>1. QED
      BY <1>6
  <2>2. QED
    BY <2>1, EmptySeq
<1>8. PICK x : x = IF u = << >> THEN Final(d) ELSE Final(u)
  OBVIOUS
<1>9. x = all[Len(all)]
  <2>1. CASE u = << >>
    <3>1. Len(all) = Len(d)
      BY <1>6, <2>1, EmptySeq
    <3>2. QED
      BY <1>6, <1>8, <2>1, <3>1 DEF Final
  <2>2. CASE u # << >>
    <3>1. Len(u) \in 1..Len(u)
      BY <1>4, <2>2, DropFirst
    <3>2. QED
      BY <1>6, <1>8, <2>2, <3>1 DEF Final
  <2>3. QED
    BY <2>1, <2>2
<1>10. Append(reports[e], x) = all
  BY <1>5, <1>6, <1>7, <1>9, FrontAndLast
<1>11. /\ reports' = [reports EXCEPT ![e] = Append(reports[e], x)] /\ Goto(w, label)
       /\ UNCHANGED <<table, request, stream, batch, done, undone, attempt, ran, faults>>
  BY <1>2, <1>3, <1>4, <1>8 DEF Report, turning
<1>12. /\ reports'[e] = all /\ \A f \in Executions \ {e} : reports'[f] = reports[f]
       /\ reports' \in [Executions -> Seq(Result)]
  BY <1>4, <1>6, <1>10, <1>11 DEF TypeOK
<1>13. /\ label \in {"rollback", "step", "settle"}
       /\ label = "step" => Len(Collected(w)) < Len(List(w))
       /\ label = "settle" => ~(Len(Collected(w)) < Len(List(w)))
       /\ label = "rollback" => AnyBad(d) /\ u = << >>
  BY <1>3 DEF NextStep, turning
<1>14. /\ Len(Collected(w)) <= Len(List(w)) /\ Len(Collected(w)) \in Nat /\ Len(List(w)) \in Nat
       /\ Collected(w) = (IF AnyBad(d) THEN u ELSE d)
       /\ List(w) = (IF AnyBad(d) THEN Backward[e] ELSE Forward[e])
  BY <1>1, <1>2, <1>4, ListView DEF Busy, Collected, List, Steps, Undo
<1>15. Memory(e, d, u, label, status[e], error[e], results[e], reports'[e])
  <2>1. label = "settle" => Len(Collected(w)) = Len(List(w))
    BY <1>13, <1>14
  <2>2. reports'[e] = SubSeq(all, 1, Len(all) - 0)
    <3>1. Len(all) - 0 = Len(all)
      BY <1>7
    <3>2. QED
      BY <1>6, <1>12, <3>1, Whole
  <2>3. results[e] = d /\ d # << >> /\ label \notin {"save", "report"}
    BY <1>5, <1>13
  <2> HIDE DEF d, u
  <2>4. QED
    BY <1>4, <1>13, <1>14, <2>1, <2>2, <2>3 DEF Memory, all
<1>16. Attempts(e, d, u, label, attempt[w], Runs(e, [undo |-> Undoing(w), order |-> Current(w).order]), ran[e])
  BY <1>4, <1>5 DEF Attempts
<1>17. Leads(e)'
  <2>1. \A k \in 1..Len(all) :
            \/ k <= Len(d) /\ d[k] = all[k]
            \/ k > Len(d) /\ AnyBad(d)
    <3>1. ~AnyBad(d) => Len(u) = 0
      BY <1>5, EmptySeq
    <3> HIDE DEF d, u
    <3>2. QED
      BY <1>6, <3>1
  <2>2. results'[e] = d
    BY <1>5, <1>11 DEF table
  <2>3. QED
    BY <1>12, <2>1, <2>2 DEF Leads
<1>18. QED
  <2>1. label \in Busy /\ pc[w] \in Busy
    BY <1>1, <1>13 DEF Busy
  <2>2. QED
    BY <1>2, <1>11, <1>12, <1>15, <1>16, <1>17, <2>1, MoveKeeps

LEMMA FetchRollbackKeeps ==
    ASSUME IInv, NEW w \in Workers, FetchRollback(w)
    PROVE  IInv'
<1>1. pc[w] = "rollback"
  BY DEF FetchRollback, At
<1>2. PICK e \in Executions : e = Exec(w)
  BY <1>1, Here DEF Busy
<1> DEFINE d == done[w]
           u == undone[w]
<1>3. /\ TypeOK /\ Owned /\ WorkerOK(w) /\ pc[w] # "poll" /\ d \in Seq(Result) /\ u \in Seq(Result)
      /\ Memory(e, d, u, "rollback", status[e], error[e], results[e], reports[e])
      /\ Attempts(e, d, u, "rollback", attempt[w], Runs(e, [undo |-> Undoing(w), order |-> Current(w).order]), ran[e])
      /\ ExecutionOK(e) /\ Undoing(w) = AnyBad(d) /\ attempt[w] \in Nat
  BY <1>1, <1>2, Here DEF Busy
<1>4. PICK label : label = NextStep(w)
  OBVIOUS
<1>5. /\ Goto(w, label) /\ reports' = reports
      /\ UNCHANGED <<table, request, stream, batch, done, undone, attempt, ran, faults>>
  BY <1>4 DEF FetchRollback
<1>6. label \in {"step", "settle"} /\ (label = "step" <=> Len(Collected(w)) < Len(List(w)))
  BY <1>4 DEF NextStep
<1>7. /\ Len(Collected(w)) <= Len(List(w)) /\ Len(Collected(w)) \in Nat /\ Len(List(w)) \in Nat
      /\ Collected(w) = (IF AnyBad(d) THEN u ELSE d)
      /\ List(w) = (IF AnyBad(d) THEN Backward[e] ELSE Forward[e])
  BY <1>1, <1>2, <1>3, ListView DEF Busy, Collected, List, Steps, Undo
<1>8. attempt[w] = 0
  BY <1>3 DEF Attempts
<1>9. Memory(e, d, u, label, status[e], error[e], results[e], reports'[e])
  <2>1. label = "settle" => Len(Collected(w)) = Len(List(w))
    BY <1>6, <1>7
  <2>2. QED
    BY <1>3, <1>5, <1>6, <1>7, <2>1 DEF Memory
<1>10. Attempts(e, d, u, label, attempt[w], Runs(e, [undo |-> Undoing(w), order |-> Current(w).order]), ran[e])
  BY <1>3, <1>8 DEF Attempts
<1>11. Leads(e)' /\ reports' \in [Executions -> Seq(Result)]
  BY <1>3, <1>5, LeadsSame DEF ExecutionOK, table, TypeOK
<1>12. label \in Busy /\ pc[w] \in Busy
  BY <1>1, <1>6 DEF Busy
<1>13. QED
  BY <1>2, <1>5, <1>9, <1>10, <1>11, <1>12, MoveKeeps

\* What a worker has when it settles its execution: the results of all steps, or of the
\* steps up to a bad one and of all rollback steps; both are on the progress stream.
AboutToSettle(w, e, d, u) ==
    /\ d \in Seq(Result) /\ u \in Seq(Result) /\ Len(d) \in Nat /\ Len(u) \in Nat
    /\ d \o u \in Seq(Result) /\ Len(d \o u) = Len(d) + Len(u)
    /\ \A j \in 1..Len(d) : (d \o u)[j] = d[j]
    /\ SubSeq(d \o u, 1, Len(d)) = d /\ SubSeq(d \o u, Len(d) + 1, Len(d \o u)) = u
    /\ Undoing(w) = AnyBad(d) /\ AnyBad(d) \in BOOLEAN
    /\ status[e] = "running" \/ (status[e] = "failed" /\ error[e] = "watchdog")
    /\ error[e] # "step" /\ request[e] \notin {"none", "append"}
    /\ Follows(d, Forward[e]) /\ Follows(u, Backward[e])
    /\ results[e] = d /\ reports[e] = d \o u
    /\ ~AnyBad(d) => d \o u = d /\ Len(d) = Len(Forward[e])
    /\ AnyBad(d) => /\ Len(d) \in 1..Len(d) /\ Bad(d[Len(d)])
                    /\ \A j \in 1..(Len(d) - 1) : ~Bad(d[j])
                    /\ Len(u) = Len(Backward[e])

LEMMA AtSettle ==
    ASSUME IInv, NEW w \in Workers, pc[w] = "settle", NEW e \in Executions, e = Exec(w)
    PROVE  AboutToSettle(w, e, done[w], undone[w])
<1>0. PICK d, u : d = done[w] /\ u = undone[w]
  OBVIOUS
<1>1. /\ d \in Seq(Result) /\ u \in Seq(Result) /\ Undoing(w) = AnyBad(d) /\ ExecutionOK(e)
      /\ Memory(e, d, u, "settle", status[e], error[e], results[e], reports[e])
  BY <1>0, Here DEF Busy
<1>2. /\ Len(d) \in Nat /\ Len(u) \in Nat
      /\ d \o u \in Seq(Result) /\ Len(d \o u) = Len(d) + Len(u)
      /\ \A j \in 1..Len(d) : (d \o u)[j] = d[j]
      /\ SubSeq(d \o u, 1, Len(d)) = d /\ SubSeq(d \o u, Len(d) + 1, Len(d \o u)) = u
  <2>1. d \in Seq(Result) /\ u \in Seq(Result)
    BY <1>1
  <2>2. QED
    BY <2>1, Joined
<1>3. /\ status[e] = "running" \/ (status[e] = "failed" /\ error[e] = "watchdog")
      /\ Follows(d, Forward[e]) /\ Follows(u, Backward[e])
      /\ results[e] = d /\ reports[e] = SubSeq(d \o u, 1, Len(d \o u) - 0)
      /\ ~AnyBad(d) => u = << >> /\ Len(d) = Len(Forward[e])
      /\ AnyBad(d) => Len(u) = Len(Backward[e])
      /\ \A j \in 1..(Len(d) - 1) : ~Bad(d[j])
  BY <1>1 DEF Memory
<1>4. error[e] # "step" /\ request[e] \notin {"none", "append"}
  BY <1>1, <1>3 DEF ExecutionOK, RowOK
<1>5. reports[e] = d \o u
  <2>1. Len(d \o u) - 0 = Len(d \o u)
    BY <1>2
  <2>2. QED
    BY <1>2, <1>3, <2>1, Whole
<1>6. ~AnyBad(d) => d \o u = d
  BY <1>1, <1>3, Whole
<1>7. AnyBad(d) => Len(d) \in 1..Len(d) /\ Bad(d[Len(d)])
  BY <1>2, <1>3 DEF AnyBad
<1>8. AnyBad(d) \in BOOLEAN
  BY DEF AnyBad
<1>9. QED
  BY <1>0, <1>1, <1>2, <1>3, <1>4, <1>5, <1>6, <1>7, <1>8 DEF AboutToSettle

LEMMA SettleKeeps ==
    ASSUME IInv, NEW w \in Workers, Settle(w)
    PROVE  IInv'
<1>1. pc[w] = "settle"
  BY DEF Settle, At
<1>2. TypeOK /\ Owned /\ WorkerOK(w) /\ pc[w] # "poll" /\ \E e \in Executions : e = Exec(w) /\ ExecutionOK(e)
  BY <1>1, Here DEF Busy
<1>3. PICK e \in Executions : e = Exec(w) /\ ExecutionOK(e)
  BY <1>2
<1>4. PICK d, u : d = done[w] /\ u = undone[w] /\ AboutToSettle(w, e, d, u)
  BY <1>1, <1>3, AtSettle
<1>5. /\ progress' = progress /\ request' = request /\ stream' = stream /\ batch' = batch
      /\ pc' = [pc EXCEPT ![w] = "ack"] /\ done' = done /\ undone' = undone /\ attempt' = attempt
      /\ ran' = ran /\ reports' = reports /\ faults' = faults
  BY DEF Settle, Goto
<1>6. /\ d \in Seq(Result) /\ u \in Seq(Result) /\ d \o u \in Seq(Result) /\ Undoing(w) = AnyBad(d)
      /\ request[e] \notin {"none", "append"} /\ reports[e] = d \o u /\ results[e] = d /\ error[e] # "step"
      /\ Len(d \o u) \in Nat
  <2>1. Len(d) \in Nat /\ Len(u) \in Nat /\ Len(d \o u) = Len(d) + Len(u)
    BY <1>4 DEF AboutToSettle
  <2>2. Len(d \o u) \in Nat
    BY <2>1
  <2>3. QED
    BY <1>4, <2>2 DEF AboutToSettle
<1>7. /\ ~AnyBad(d) => /\ status' = [status EXCEPT ![e] = "completed"]
                       /\ results' = results /\ error' = error
      /\ AnyBad(d) => /\ status' = [status EXCEPT ![e] = IF AnyBad(u) THEN "failed" ELSE "rolled_back"]
                      /\ results' = [results EXCEPT ![e] = d \o u]
                      /\ error' = [error EXCEPT ![e] = "step"]
  BY <1>3, <1>4, <1>6 DEF Settle
<1>8. /\ ~AnyBad(d) => status'[e] = "completed" /\ results'[e] = d /\ error'[e] = error[e]
      /\ AnyBad(d) => /\ status'[e] = (IF AnyBad(u) THEN "failed" ELSE "rolled_back")
                      /\ results'[e] = d \o u /\ error'[e] = "step"
  BY <1>2, <1>6, <1>7 DEF TypeOK
<1>9. pc'[w] = "ack" /\ Acts(w, "ack")
  <2>1. \A f \in Executions \ {e} : status'[f] = status[f] /\ results'[f] = results[f] /\ error'[f] = error[f]
    BY <1>2, <1>7 DEF TypeOK
  <2>2. QED
    BY <1>2, <1>3, <1>5, <2>1 DEF Acts, Goto, SameRow, TypeOK
<1>10. TypeOK'
  <2>1. /\ status' \in [Executions -> StatusValues] /\ results' \in [Executions -> Seq(Result)]
        /\ error' \in [Executions -> {"none", "watchdog", "step"}]
    <3>1. /\ status \in [Executions -> StatusValues] /\ results \in [Executions -> Seq(Result)]
          /\ error \in [Executions -> {"none", "watchdog", "step"}]
      BY <1>2 DEF TypeOK
    <3>2. CASE AnyBad(d)
      <4>1. /\ status' = [status EXCEPT ![e] = IF AnyBad(u) THEN "failed" ELSE "rolled_back"]
            /\ results' = [results EXCEPT ![e] = d \o u]
            /\ error' = [error EXCEPT ![e] = "step"]
        BY <1>7, <3>2
      <4>2. status' \in [Executions -> StatusValues]
        BY <3>1, <4>1 DEF StatusValues
      <4>3. QED
        BY <1>6, <3>1, <4>1, <4>2
    <3>3. CASE ~AnyBad(d)
      <4>1. status' = [status EXCEPT ![e] = "completed"] /\ results' = results /\ error' = error
        BY <1>7, <3>3
      <4>2. QED
        BY <3>1, <4>1 DEF StatusValues
    <3>4. QED
      BY <3>2, <3>3
  <2>2. QED
    BY <1>2, <1>5, <2>1 DEF TypeOK, PcValues
<1>11. WorkerOK(w)'
  BY <1>9 DEF WorkerOK, Busy
<1>12. ExecutionOK(e)'
  <2>1. status'[e] \in {"completed", "failed", "rolled_back"}
    BY <1>8
  <2>2. RowOK(e)'
    BY <1>5, <1>6, <2>1 DEF RowOK
  <2>3. InOrder(e)'
    BY <1>3, <1>5, InOrderSame DEF ExecutionOK
  <2>4. Leads(e)'
    <3>1. results'[e] = d \o u
      BY <1>4, <1>8 DEF AboutToSettle
    <3>2. QED
      BY <1>5, <1>6, <3>1 DEF Leads
  <2>5. Honest(e)'
    <3>1. CASE ~AnyBad(d)
      BY <1>4, <1>6, <1>8, <3>1 DEF Honest, AboutToSettle
    <3>2. CASE AnyBad(d)
      <4>1. PICK row, k : row = d \o u /\ k = Len(d)
        OBVIOUS
      <4>2. /\ k \in 1..Len(row) /\ Bad(row[k]) /\ \A j \in 1..(k - 1) : ~Bad(row[j])
            /\ SubSeq(row, 1, k) = d /\ SubSeq(row, k + 1, Len(row)) = u
            /\ Follows(d, Forward[e]) /\ Follows(u, Backward[e]) /\ Len(u) = Len(Backward[e])
        <5>1. /\ Len(d) \in Nat /\ Len(u) \in Nat /\ Len(row) = Len(d) + Len(u)
              /\ \A j \in 1..Len(d) : row[j] = d[j]
              /\ k \in 1..Len(d) /\ Bad(d[k]) /\ \A j \in 1..(k - 1) : ~Bad(d[j])
          BY <1>4, <3>2, <4>1 DEF AboutToSettle
        <5>2. k \in 1..Len(row) /\ Bad(row[k]) /\ \A j \in 1..(k - 1) : ~Bad(row[j])
          BY <5>1
        <5>3. QED
          BY <1>4, <3>2, <4>1, <5>2 DEF AboutToSettle
      <4>3. results'[e] = row /\ status'[e] = (IF AnyBad(u) THEN "failed" ELSE "rolled_back")
        BY <1>8, <3>2, <4>1
      <4>4. QED
        BY <4>2, <4>3 DEF Honest
    <3>3. QED
      BY <3>1, <3>2
  <2>6. QED
    BY <2>2, <2>3, <2>4, <2>5 DEF ExecutionOK
<1>13. QED
  BY <1>2, <1>3, <1>9, <1>10, <1>11, <1>12, ActKeeps DEF PcValues

-----------------------------------------------------------------------------
(* Faults and the watchdog *)

\* A thrown error leaves the rows and what was collected.
LEMMA ThrowKeeps ==
    ASSUME IInv, NEW w \in Workers, Throw(w)
    PROVE  IInv'
<1>1. TypeOK /\ Owned /\ WorkerOK(w) /\ pc[w] # "poll"
  BY InvParts DEF Throw
<1>2. /\ Acts(w, "ack") /\ pc'[w] = "ack"
      /\ \A e \in Executions : SameRow(e) /\ request'[e] = request[e]
  BY <1>1 DEF Throw, Acts, Goto, SameRow, TypeOK, table
<1>3. TypeOK'
  BY <1>1, WorkerAssumption DEF Throw, Fault, Goto, TypeOK, table, PcValues
<1>4. PICK e \in Executions : e = Exec(w) /\ ExecutionOK(e)
  BY <1>1, InvParts, AtWorkOn
<1>5. WorkerOK(w)'
  BY <1>2 DEF WorkerOK, Busy
<1>6. QED
  BY <1>1, <1>2, <1>3, <1>4, <1>5, ActKeeps, ExecutionSame DEF PcValues

-----------------------------------------------------------------------------
(* The consumer *)

\* A step that moves messages and touches no row: the worker is back at the loop or at the
\* start of a message, with nothing in memory.
LEMMA LoopKeeps ==
    ASSUME IInv, NEW w \in Workers, NEW label \in {"poll", "start"}, Goto(w, label), TypeOK', Owned',
           done'[w] = << >>, undone'[w] = << >>, attempt'[w] = 0,
           \A v \in Workers \ {w} : /\ batch'[v] = batch[v] /\ done'[v] = done[v]
                                    /\ undone'[v] = undone[v] /\ attempt'[v] = attempt[v],
           UNCHANGED <<table, request, ran, reports>>
    PROVE  IInv'
<1>1. /\ status' = status /\ results' = results /\ error' = error /\ progress' = progress
      /\ request' = request /\ ran' = ran /\ reports' = reports
  BY DEF table
<1>2. \A e \in Executions : ExecutionOK(e)'
  BY <1>1, InvParts, ExecutionSame DEF SameRow
<1>3. \A v \in Workers : WorkerOK(v)'
  <2> TAKE v \in Workers
  <2>1. CASE v = w
    <3>1. pc'[w] = label
      BY InvParts DEF Goto, TypeOK
    <3>2. QED
      BY <2>1, <3>1 DEF WorkerOK, Busy
  <2>2. CASE v # w
    <3>1. pc'[v] = pc[v]
      BY <2>2, InvParts DEF Goto, TypeOK
    <3>2. QED
      BY <1>1, <2>2, <3>1, InvParts, WorkerSame
  <2>3. QED
    BY <2>1, <2>2
<1>4. QED
  BY <1>2, <1>3, InvParts

LEMMA PollKeepsInv ==
    ASSUME IInv, NEW w \in Workers, Poll(w)
    PROVE  IInv'
<1>1. TypeOK /\ Owned /\ WorkerOK(w) /\ pc[w] = "poll"
  BY InvParts DEF Poll, At
<1>2. /\ Owned' /\ stream' \in Seq(Executions) /\ batch' \in [Workers -> Seq(Executions)]
      /\ batch'[w] # << >> /\ \A v \in Workers : v # w => batch'[v] = batch[v]
  BY <1>1, OwnedPoll
<1>3. /\ Goto(w, "start") /\ done' = done /\ undone' = undone /\ attempt' = attempt /\ faults' = faults
      /\ UNCHANGED <<table, request, ran, reports>>
  BY DEF Poll
<1>4. /\ pc' = [pc EXCEPT ![w] = "start"]
      /\ \A v \in Workers : (pc'[v] = "poll") = (batch'[v] = << >>)
  BY <1>1, <1>2, <1>3 DEF Goto, TypeOK
<1>5. TypeOK'
  BY <1>1, <1>2, <1>3, <1>4 DEF TypeOK, table, PcValues
<1>6. done'[w] = << >> /\ undone'[w] = << >> /\ attempt'[w] = 0
  BY <1>1, <1>3 DEF WorkerOK
<1>7. QED
  BY <1>2, <1>3, <1>5, <1>6, LoopKeeps

\* The worker forgets the execution and is at the loop again.
LEMMA ForgetKeeps ==
    ASSUME IInv, NEW w \in Workers, NEW label \in {"poll", "start"}, Goto(w, label), Forget(w), Owned',
           batch' \in [Workers -> Seq(Executions)], (label = "poll") = (batch'[w] = << >>),
           \A v \in Workers : v # w => batch'[v] = batch[v],
           faults' \in 0..MaxFaults, UNCHANGED <<table, request, stream, ran, reports>>
    PROVE  IInv'
<1>1. TypeOK
  BY InvParts
<1>2. /\ done'[w] = << >> /\ undone'[w] = << >> /\ attempt'[w] = 0
      /\ \A v \in Workers \ {w} : done'[v] = done[v] /\ undone'[v] = undone[v] /\ attempt'[v] = attempt[v]
  BY <1>1 DEF Forget, TypeOK
<1>3. << >> \in Seq(Result)
  BY EmptySeq
<1>4. /\ done' \in [Workers -> Seq(Result)] /\ undone' \in [Workers -> Seq(Result)]
      /\ attempt' \in [Workers -> Nat] /\ pc' \in [Workers -> PcValues]
  BY <1>1, <1>3 DEF Forget, Goto, TypeOK, PcValues
<1>5. \A v \in Workers : (pc'[v] = "poll") = (batch'[v] = << >>)
  BY <1>1 DEF Goto, TypeOK
<1>6. TypeOK'
  BY <1>1, <1>4, <1>5 DEF TypeOK, table
<1>7. QED
  BY <1>2, <1>6, LoopKeeps

LEMMA AckKeeps ==
    ASSUME IInv, NEW w \in Workers, Ack(w)
    PROVE  IInv'
<1>1. TypeOK /\ Owned /\ pc[w] # "poll"
  BY InvParts DEF Ack, At
<1>2. PICK label \in {"poll", "start"} : label = IF Len(batch[w]) = 1 THEN "poll" ELSE "start"
  OBVIOUS
<1>3. /\ batch' = [batch EXCEPT ![w] = Tail(@)] /\ Goto(w, label) /\ Forget(w) /\ faults' = faults
      /\ UNCHANGED <<table, request, stream, ran, reports>>
  BY <1>2 DEF Ack
<1>4. /\ Owned' /\ batch' \in [Workers -> Seq(Executions)]
      /\ (pc'[w] = "poll") = (batch'[w] = << >>) /\ \A v \in Workers : v # w => batch'[v] = batch[v]
  BY <1>1, <1>2, <1>3, OwnedAck DEF table
<1>5. pc'[w] = label
  BY <1>1, <1>3 DEF Goto, TypeOK
<1>6. faults' \in 0..MaxFaults
  BY <1>1, <1>3 DEF TypeOK
<1>7. QED
  BY <1>3, <1>4, <1>5, <1>6, ForgetKeeps

\* The XACK fails, or the process dies.
LEMMA AbandonKeeps ==
    ASSUME IInv, NEW w \in Workers, AckFails(w) \/ Crash(w)
    PROVE  IInv'
<1>1. TypeOK /\ Owned
  BY InvParts
<1>2. Abandon(w) /\ faults < MaxFaults /\ faults' = faults + 1
  BY DEF AckFails, Crash, Fault
<1>3. Goto(w, "poll") /\ Forget(w) /\ UNCHANGED <<table, request, stream, ran, reports>>
  BY <1>2 DEF Abandon
<1>4. /\ Owned' /\ batch' \in [Workers -> Seq(Executions)]
      /\ batch'[w] = << >> /\ \A v \in Workers : v # w => batch'[v] = batch[v]
  BY <1>1, <1>2, <1>3, OwnedAbandon DEF table
<1>5. faults' \in 0..MaxFaults
  BY <1>1, <1>2, WorkerAssumption DEF TypeOK
<1>6. QED
  BY <1>3, <1>4, <1>5, ForgetKeeps

-----------------------------------------------------------------------------
(* The engine, time and the watchdog *)

\* A step of no worker, on the row or the message of executions.
LEMMA StillKeeps ==
    ASSUME IInv, TypeOK', Owned', \A e \in Executions : ExecutionOK(e)',
           UNCHANGED <<pc, batch, done, undone, attempt, results, ran, reports>>,
           \A e \in Executions :
               request[e] \in Answers => \/ status'[e] = status[e] /\ error'[e] = error[e]
                                         \/ status'[e] = "failed" /\ error'[e] = "watchdog"
    PROVE  IInv'
<1>1. ASSUME NEW w \in Workers
      PROVE  WorkerOK(w)'
  <2>1. pc[w] \in Busy => request[Exec(w)] \in Answers /\ Exec(w) \in Executions
    BY InvParts, AtWorkOn DEF Sent, Answers, Busy
  <2>2. QED
    BY <2>1, InvParts, WorkerSame
<1>2. QED
  BY <1>1, InvParts

LEMMA TriggerKeeps ==
    ASSUME IInv, NEW e \in Executions, Trigger(e)
    PROVE  IInv'
<1>1. /\ TypeOK /\ Owned /\ ExecutionOK(e) /\ request[e] = "none" /\ status[e] = "none"
      /\ results[e] = << >> /\ error[e] = "none" /\ progress[e] = "null"
      /\ ran[e] = << >> /\ reports[e] = << >>
  BY InvParts DEF Trigger, ExecutionOK, RowOK
<1>2. /\ request' = [request EXCEPT ![e] = "append"] /\ status' = [status EXCEPT ![e] = "pending"]
      /\ results' = results /\ error' = error /\ progress' = progress /\ stream' = stream
      /\ pc' = pc /\ batch' = batch /\ done' = done /\ undone' = undone /\ attempt' = attempt
      /\ ran' = ran /\ reports' = reports /\ faults' = faults
  BY DEF Trigger, local
<1>3. /\ request'[e] = "append" /\ status'[e] = "pending"
      /\ \A f \in Executions \ {e} : request'[f] = request[f] /\ status'[f] = status[f]
  BY <1>1, <1>2 DEF TypeOK
<1>4. TypeOK'
  BY <1>1, <1>2 DEF TypeOK, StatusValues
<1>5. Owned'
  <2>1. \A f \in Executions : status[f] = "pending" => status'[f] = "pending"
    BY <1>3
  <2>2. \A f \in Executions : Sent(f) => request'[f] \in Answers
    BY <1>1, <1>3 DEF Sent, Answers
  <2>3. QED
    BY <1>1, <1>2, <2>1, <2>2, OwnedStill
<1>6. ASSUME NEW f \in Executions
      PROVE  ExecutionOK(f)'
  <2>1. CASE f # e
    BY <1>2, <1>3, <2>1, InvParts, ExecutionSame DEF SameRow
  <2>2. CASE f = e
    <3>1. RowOK(e)'
      BY <1>1, <1>2, <1>3 DEF RowOK
    <3>2. Honest(e)'
      BY <1>1, <1>2, <1>3 DEF Honest
    <3>3. QED
      BY <1>1, <1>2, <2>2, <3>1, <3>2, InOrderSame, LeadsSame DEF ExecutionOK
  <2>3. QED
    BY <2>1, <2>2
<1>7. \A f \in Executions : request[f] \in Answers => status'[f] = status[f] /\ error'[f] = error[f]
  BY <1>1, <1>2, <1>3 DEF Answers
<1>8. QED
  BY <1>2, <1>4, <1>5, <1>6, <1>7, StillKeeps

LEMMA AppendKeeps ==
    ASSUME IInv, NEW e \in Executions, Accept(e) \/ AppendFails(e)
    PROVE  IInv'
<1>1. PICK answer \in Answers : request' = [request EXCEPT ![e] = answer]
  BY DEF Accept, AppendFails, Answers
<1>2. TypeOK /\ Owned /\ ExecutionOK(e) /\ request[e] = "append" /\ status[e] = "pending"
  BY InvParts DEF Accept, AppendFails, ExecutionOK, RowOK
<1>3. stream' = stream \/ stream' = Append(stream, e)
  BY DEF Accept, AppendFails, Appended
<1>4. /\ status' = status /\ results' = results /\ error' = error /\ progress' = progress
      /\ pc' = pc /\ batch' = batch /\ done' = done /\ undone' = undone /\ attempt' = attempt
      /\ ran' = ran /\ reports' = reports
  BY DEF Accept, AppendFails, table, local
<1>5. /\ request'[e] = answer /\ answer \notin {"none", "append"}
      /\ \A f \in Executions \ {e} : request'[f] = request[f]
  BY <1>1, <1>2 DEF TypeOK, Answers
<1>6. faults' \in 0..MaxFaults
  BY <1>2, WorkerAssumption DEF Accept, AppendFails, TypeOK
<1>7. stream' \in Seq(Executions)
  <2>1. stream \in Seq(Executions)
    BY <1>2 DEF TypeOK
  <2>2. Append(stream, e) \in Seq(Executions)
    BY <2>1, AppendOne
  <2>3. QED
    BY <1>3, <2>1, <2>2
<1>8. TypeOK'
  BY <1>1, <1>2, <1>4, <1>6, <1>7 DEF TypeOK, Answers
<1>9. Owned'
  BY <1>1, <1>2, <1>3, <1>4, OwnedAppend DEF Answers
<1>10. ASSUME NEW f \in Executions
       PROVE  ExecutionOK(f)'
  <2>1. CASE f # e
    BY <1>4, <1>5, <2>1, InvParts, ExecutionSame DEF SameRow
  <2>2. CASE f = e
    <3>1. RowOK(e)'
      BY <1>2, <1>4, <1>5 DEF ExecutionOK, RowOK
    <3>2. QED
      BY <1>2, <1>4, <2>2, <3>1, HonestSame, InOrderSame, LeadsSame DEF ExecutionOK
  <2>3. QED
    BY <2>1, <2>2
<1>11. QED
  BY <1>4, <1>8, <1>9, <1>10, StillKeeps

LEMMA TimeoutKeeps ==
    ASSUME IInv, NEW e \in Executions, TimeoutPasses(e)
    PROVE  IInv'
<1>1. TypeOK /\ Owned /\ status[e] = "running" /\ progress' = [progress EXCEPT ![e] = "stale"]
  BY InvParts DEF TimeoutPasses
<1>2. /\ status' = status /\ results' = results /\ error' = error /\ request' = request /\ stream' = stream
      /\ pc' = pc /\ batch' = batch /\ done' = done /\ undone' = undone /\ attempt' = attempt
      /\ ran' = ran /\ reports' = reports /\ faults' = faults
  BY DEF TimeoutPasses, local
<1>3. TypeOK'
  BY <1>1, <1>2 DEF TypeOK
<1>4. Owned'
  BY <1>1, <1>2, OwnedStill DEF Sent, Answers
<1>5. ASSUME NEW f \in Executions
      PROVE  ExecutionOK(f)'
  <2>1. CASE f # e
    <3>1. progress'[f] = progress[f]
      BY <1>1, <2>1 DEF TypeOK
    <3>2. QED
      BY <1>2, <3>1, InvParts, ExecutionSame DEF SameRow
  <2>2. CASE f = e
    <3>1. RowOK(e)'
      BY <1>1, <1>2, InvParts DEF ExecutionOK, RowOK
    <3>2. QED
      BY <1>2, <2>2, <3>1, InvParts, HonestSame, InOrderSame, LeadsSame DEF ExecutionOK
  <2>3. QED
    BY <2>1, <2>2
<1>6. QED
  BY <1>2, <1>3, <1>4, <1>5, StillKeeps

\* The watchdog fails running executions only; the worker of one goes on with it.
LEMMA WatchdogKeeps ==
    ASSUME IInv, Watchdog
    PROVE  IInv'
<1>1. TypeOK /\ Owned
  BY InvParts
<1>2. /\ results' = results /\ progress' = progress /\ request' = request /\ stream' = stream
      /\ pc' = pc /\ batch' = batch /\ done' = done /\ undone' = undone /\ attempt' = attempt
      /\ ran' = ran /\ reports' = reports /\ faults' = faults
  BY DEF Watchdog, local
<1>3. \A e \in Executions :
          IF e \in Stalled THEN status[e] = "running" /\ status'[e] = "failed" /\ error'[e] = "watchdog"
          ELSE status'[e] = status[e] /\ error'[e] = error[e]
  BY DEF Watchdog, Stalled
<1>4. TypeOK'
  BY <1>1, <1>2 DEF Watchdog, TypeOK, StatusValues
<1>5. Owned'
  <2>1. \A e \in Executions : status[e] = "pending" => status'[e] = "pending"
    BY <1>3
  <2>2. \A e \in Executions : Sent(e) => request'[e] \in Answers
    BY <1>2 DEF Sent, Answers
  <2>3. QED
    BY <1>1, <1>2, <2>1, <2>2, OwnedStill
<1>6. ASSUME NEW e \in Executions
      PROVE  ExecutionOK(e)'
  <2>1. CASE e \notin Stalled
    BY <1>2, <1>3, <2>1, InvParts, ExecutionSame DEF SameRow
  <2>2. CASE e \in Stalled
    <3>1. RowOK(e)'
      BY <1>2, <1>3, <2>2, InvParts DEF ExecutionOK, RowOK
    <3>2. Honest(e)'
      BY <1>3, <2>2 DEF Honest
    <3>3. QED
      BY <1>2, <3>1, <3>2, InvParts, InOrderSame, LeadsSame DEF ExecutionOK
  <2>3. QED
    BY <2>1, <2>2
<1>7. \A e \in Executions : \/ status'[e] = status[e] /\ error'[e] = error[e]
                            \/ status'[e] = "failed" /\ error'[e] = "watchdog"
  BY <1>3
<1>8. QED
  BY <1>2, <1>4, <1>5, <1>6, <1>7, StillKeeps

-----------------------------------------------------------------------------
(* The inductive invariant *)

LEMMA InitInv ==
    ASSUME Init
    PROVE  IInv
<1>1. /\ << >> \in Seq(Executions) /\ << >> \in Seq(Result) /\ << >> \in Seq(Command)
      /\ Len(<< >>) = 0
  BY EmptySeq
<1>2. TypeOK
  BY <1>1, WorkerAssumption DEF Init, TypeOK, StatusValues, PcValues
<1>3. Len(stream) = 0 /\ \A w \in Workers : Len(batch[w]) = 0
  BY <1>1 DEF Init
<1>4. Owned
  BY <1>3 DEF Owned
<1>5. \A e \in Executions : ExecutionOK(e)
  <2> TAKE e \in Executions
  <2>1. Len(ran[e]) = 0 /\ Len(reports[e]) = 0 /\ status[e] = "none" /\ error[e] = "none"
    BY <1>1 DEF Init
  <2>2. RowOK(e)
    BY DEF Init, RowOK
  <2>3. Honest(e)
    BY <2>1 DEF Honest
  <2>4. InOrder(e) /\ Leads(e)
    BY <2>1 DEF InOrder, Leads
  <2>5. QED
    BY <2>2, <2>3, <2>4 DEF ExecutionOK
<1>6. \A w \in Workers : WorkerOK(w)
  BY DEF Init, WorkerOK, Busy
<1>7. QED
  BY <1>2, <1>4, <1>5, <1>6, InvParts

LEMMA StutterKeeps ==
    ASSUME IInv, UNCHANGED vars
    PROVE  IInv'
<1>1. /\ status' = status /\ results' = results /\ error' = error /\ progress' = progress
      /\ request' = request /\ stream' = stream /\ batch' = batch /\ pc' = pc /\ done' = done
      /\ undone' = undone /\ attempt' = attempt /\ ran' = ran /\ reports' = reports /\ faults' = faults
  BY DEF vars
<1>2. TypeOK' /\ Owned'
  BY <1>1, InvParts, OwnedStill DEF TypeOK, Sent, Answers
<1>3. \A e \in Executions : ExecutionOK(e)'
  BY <1>1, InvParts, ExecutionSame DEF SameRow
<1>4. QED
  BY <1>1, <1>2, <1>3, StillKeeps

\* One worker runs an execution, once; its memory, the row, the progress stream and the
\* commands it has run agree at each of its statements, through faults and the watchdog.
THEOREM InductiveInvariant == Spec => []IInv
<1>1. IInv /\ [Next]_vars => IInv'
  <2> SUFFICES ASSUME IInv, [Next]_vars
               PROVE  IInv'
    OBVIOUS
  <2>1. ASSUME NEW w \in Workers, Step(w)
        PROVE  IInv'
    BY <2>1, PollKeepsInv, StartKeeps, SkipManualKeeps, AttemptKeeps, SaveKeeps, ReportKeeps,
       FetchRollbackKeeps, SettleKeeps, AckKeeps DEF Step
  <2>2. QED
    BY <2>1, TriggerKeeps, AppendKeeps, TimeoutKeeps, WatchdogKeeps, ThrowKeeps, AbandonKeeps,
       StutterKeeps DEF Next
<1>2. QED
  BY <1>1, InitInv, PTL DEF Spec

\* Every variable keeps its type, and a worker holds a batch exactly between its polls.
THEOREM TypeCorrect == Spec => []TypeOK
<1>1. IInv => TypeOK
  BY DEF IInv
<1>2. QED
  BY <1>1, InductiveInvariant, PTL

\* The final status is the one the recorded results call for.
THEOREM HonestStatusHolds == Spec => []HonestStatus
<1>1. IInv => HonestStatus
  BY DEF IInv
<1>2. QED
  BY <1>1, InductiveInvariant, PTL

\* The commands run in order, each at most once and once per retry, and no message is
\* processed twice.
THEOREM CommandsInOrderHolds == Spec => []CommandsInOrder
<1>1. IInv => CommandsInOrder
  BY DEF IInv
<1>2. QED
  BY <1>1, InductiveInvariant, PTL

\* A step's result is on the progress stream only once it is in the row.
THEOREM RowLeadsStreamHolds == Spec => []RowLeadsStream
<1>1. IInv => RowLeadsStream
  BY DEF IInv
<1>2. QED
  BY <1>1, InductiveInvariant, PTL

-----------------------------------------------------------------------------
(* Steps of rows *)

\* What a step does to the row of an execution, seen from its readers: nothing, or one of
\* the six things the contract has.
LEMMA RowOfBusy ==
    ASSUME IInv, NEW w \in Workers, pc[w] \in Busy
    PROVE  /\ Exec(w) \in Executions
           /\ status[Exec(w)] = "running" \/ (status[Exec(w)] = "failed" /\ error[Exec(w)] = "watchdog")
  BY Here DEF Memory

LEMMA WorkerMovesOwnRow ==
    ASSUME IInv, NEW w \in Workers, Step(w) \/ Throw(w) \/ AckFails(w) \/ Crash(w)
    PROVE  \/ UNCHANGED <<status, results, error>>
           \/ /\ Exec(w) \in Executions
              /\ Start(w) \/ Save(w) \/ Settle(w)
              /\ status[Exec(w)] = "pending" \/ status[Exec(w)] = "running"
                     \/ (status[Exec(w)] = "failed" /\ error[Exec(w)] = "watchdog")
              /\ \A e \in Executions \ {Exec(w)} :
                     status'[e] = status[e] /\ results'[e] = results[e] /\ error'[e] = error[e]
<1>1. TypeOK /\ Owned
  BY InvParts
<1>2. CASE Start(w)
  <2>1. pc[w] = "start"
    BY <1>2 DEF Start, At
  <2>2. Exec(w) \in Executions /\ status[Exec(w)] = "pending"
    BY <1>1, <2>1, AtWorkOn
  <2>3. QED
    BY <1>1, <1>2, <2>2 DEF Start, TypeOK
<1>3. CASE Save(w)
  <2>1. pc[w] \in Busy
    BY <1>3 DEF Save, At, Busy
  <2>2. QED
    BY <1>1, <1>3, <2>1, RowOfBusy DEF Save, TypeOK
<1>4. CASE Settle(w)
  <2>1. pc[w] \in Busy
    BY <1>4 DEF Settle, At, Busy
  <2>2. \A e \in Executions \ {Exec(w)} :
            status'[e] = status[e] /\ results'[e] = results[e] /\ error'[e] = error[e]
    BY <1>1, <1>4 DEF Settle, TypeOK
  <2>3. QED
    BY <1>4, <2>1, <2>2, RowOfBusy
<1>5. CASE ~Start(w) /\ ~Save(w) /\ ~Settle(w)
  BY <1>5 DEF Step, Poll, SkipManual, Attempt, Report, FetchRollback, Ack, Throw, AckFails, Crash,
     Abandon, table
<1>6. QED
  BY <1>2, <1>3, <1>4, <1>5

\* Nobody touches the row of an execution that is completed or rolled back: neither the
\* watchdog, nor its worker again, nor another one.
THEOREM OutcomeStaysHolds == Spec => OutcomeStays
<1> DEFINE Ended(e) == status[e] \in {"completed", "rolled_back"}
           Stays(e) == status'[e] = status[e] /\ results'[e] = results[e] /\ error'[e] = error[e]
<1>1. IInv /\ [Next]_vars => [\A e \in Executions : Ended(e) => Stays(e)]_vars
  <2> SUFFICES ASSUME IInv, Next, NEW e \in Executions, Ended(e)
               PROVE  Stays(e)
    OBVIOUS
  <2>1. TypeOK /\ (status[e] = "none") = (request[e] = "none")
    BY InvParts DEF ExecutionOK, RowOK
  <2>2. CASE \E f \in Executions : Trigger(f) \/ Accept(f) \/ AppendFails(f) \/ TimeoutPasses(f)
    <3>1. ASSUME NEW f \in Executions, Trigger(f)
          PROVE  Stays(e)
      <4>1. status[f] = "none"
        BY <3>1, InvParts DEF Trigger, ExecutionOK, RowOK
      <4>2. QED
        BY <2>1, <3>1, <4>1 DEF Trigger, TypeOK
    <3>2. ASSUME NEW f \in Executions, Accept(f) \/ AppendFails(f) \/ TimeoutPasses(f)
          PROVE  Stays(e)
      BY <3>2 DEF Accept, AppendFails, TimeoutPasses, table
    <3>3. QED
      BY <2>2, <3>1, <3>2
  <2>3. CASE \E w \in Workers : Step(w) \/ Throw(w) \/ AckFails(w) \/ Crash(w)
    BY <2>3, WorkerMovesOwnRow
  <2>4. CASE Watchdog
    BY <2>4 DEF Watchdog, Stalled
  <2>5. QED
    BY <2>2, <2>3, <2>4 DEF Next
<1>2. QED
  BY <1>1, InductiveInvariant, PTL DEF Spec, OutcomeStays

-----------------------------------------------------------------------------
(* The contract *)

LEMMA SameData ==
    /\ Contract!Forward = Forward /\ Contract!Backward = Backward
    /\ \A s : Contract!OutcomesOf(s) = OutcomesOf(s)
    /\ \A r : Contract!AnyBad(r) = AnyBad(r)
    /\ \A s : Contract!RunsOf(s) = RunsOf(s)
<1>1. /\ \A s : Contract!Ascending(s) = Ascending(s)
      /\ \A s : Contract!Descending(s) = Descending(s)
  <2>1. \A s : Contract!Ascending(s) = Ascending(s)
    BY DEF Contract!Ascending, Ascending, Contract!Cardinality, Cardinality
  <2>2. QED
    BY <2>1 DEF Contract!Descending, Descending
<1>2. /\ \A s, x, n : Contract!Outcome(s, x, n) = Outcome(s, x, n)
      /\ \A r : Contract!Bad(r) = Bad(r)
  BY DEF Contract!Outcome, Outcome, Contract!Bad, Bad
<1>3. \A s : Contract!OutcomesOf(s) = OutcomesOf(s)
  BY <1>2 DEF Contract!OutcomesOf, OutcomesOf
<1>4. \A r, s : Contract!Follows(r, s) = Follows(r, s)
  BY <1>3 DEF Contract!Follows, Follows
<1>5. QED
  BY <1>1, <1>2, <1>3, <1>4 DEF Contract!Forward, Forward, Contract!Backward, Backward,
     Contract!AnyBad, AnyBad, Contract!RunsOf, RunsOf

LEMMA TriggerRefines ==
    ASSUME IInv, NEW e \in Executions, Trigger(e)
    PROVE  Contract!Next
<1>1. status[e] = "none"
  BY InvParts DEF Trigger, ExecutionOK, RowOK
<1>2. Contract!Trigger(e)
  BY <1>1 DEF Trigger, Contract!Trigger
<1>3. QED
  BY <1>2 DEF Contract!Next

LEMMA StartRefines ==
    ASSUME IInv, NEW w \in Workers, Start(w)
    PROVE  Contract!Next
<1>1. Exec(w) \in Executions /\ status[Exec(w)] = "pending"
  BY InvParts, AtWorkOn DEF Start, At
<1>2. Contract!Start(Exec(w))
  BY <1>1 DEF Start, Contract!Start
<1>3. QED
  BY <1>1, <1>2 DEF Contract!Next

LEMMA SaveRefines ==
    ASSUME IInv, NEW w \in Workers, Save(w)
    PROVE  Contract!Next
<1>1. PICK e \in Executions, d \in Seq(Result) :
          /\ e = Exec(w) /\ d = done[w] /\ pc[w] = "save" /\ TypeOK
          /\ Memory(e, d, undone[w], "save", status[e], error[e], results[e], reports[e])
  BY Here DEF Save, At, Busy
<1>2. /\ Follows(d, Forward[e]) /\ d # << >> /\ \A k \in 1..(Len(d) - 1) : ~Bad(d[k])
      /\ results[e] = SubSeq(d, 1, Len(d) - 1)
      /\ status[e] = "running" \/ (status[e] = "failed" /\ error[e] = "watchdog")
  BY <1>1 DEF Memory
<1>3. /\ Len(d) \in Nat \ {0} /\ Len(results[e]) = Len(d) - 1 /\ Len(results[e]) + 1 = Len(d)
      /\ \A j \in 1..(Len(d) - 1) : results[e][j] = d[j]
      /\ Append(results[e], d[Len(d)]) = d
  <2>1. /\ Len(d) \in Nat \ {0} /\ Len(results[e]) = Len(d) - 1
        /\ \A j \in 1..(Len(d) - 1) : results[e][j] = d[j]
        /\ Append(results[e], d[Len(d)]) = d
    BY <1>1, <1>2, FrontAndLast, DropFirst
  <2>2. QED
    BY <2>1
<1>4. ~AnyBad(results[e])
  BY <1>2, <1>3 DEF AnyBad
<1>5. /\ d[Len(d)] \in OutcomesOf(Forward[e][Len(d)]) /\ Len(d) <= Len(Forward[e])
      /\ Len(d) \in 1..Len(StepsOf[e])
  <2>1. Len(Forward[e]) = Len(StepsOf[e]) /\ Len(StepsOf[e]) \in Nat \ {0}
    BY Plans
  <2>2. QED
    BY <1>2, <1>3, <2>1 DEF Follows
<1>6. /\ results' = [results EXCEPT ![e] = Append(@, d[Len(d)])]
      /\ status' = status /\ error' = error
  BY <1>1, <1>3 DEF Save
<1>7. Contract!Record(e, d[Len(d)])
  BY <1>2, <1>3, <1>4, <1>5, <1>6, SameData DEF Contract!Record, Contract!Open
<1>8. QED
  BY <1>5, <1>7, SameData DEF Contract!Next

LEMMA SettleRefines ==
    ASSUME IInv, NEW w \in Workers, Settle(w)
    PROVE  Contract!Next
<1>1. pc[w] = "settle"
  BY DEF Settle, At
<1>2. PICK e \in Executions : e = Exec(w)
  BY <1>1, Here DEF Busy
<1>3. PICK d, u : d = done[w] /\ u = undone[w] /\ AboutToSettle(w, e, d, u)
  BY <1>1, <1>2, AtSettle
<1>4. /\ Undoing(w) = AnyBad(d) /\ results[e] = d
      /\ status[e] = "running" \/ (status[e] = "failed" /\ error[e] = "watchdog")
      /\ ~AnyBad(d) => Len(d) = Len(Forward[e])
      /\ AnyBad(d) => Follows(u, Backward[e]) /\ Len(u) = Len(Backward[e]) /\ u \in Seq(Result)
  BY <1>3 DEF AboutToSettle
<1>5. CASE ~AnyBad(d)
  <2>1. Len(d) = Len(StepsOf[e])
    BY <1>4, <1>5, Plans
  <2>2. status' = [status EXCEPT ![e] = "completed"] /\ results' = results /\ error' = error
    BY <1>2, <1>4, <1>5 DEF Settle
  <2>3. Contract!Complete(e)
    BY <1>4, <1>5, <2>1, <2>2, SameData DEF Contract!Complete, Contract!Open
  <2>4. QED
    BY <2>3 DEF Contract!Next
<1>6. CASE AnyBad(d)
  <2>1. /\ status' = [status EXCEPT ![e] = IF AnyBad(u) THEN "failed" ELSE "rolled_back"]
        /\ results' = [results EXCEPT ![e] = @ \o u]
        /\ error' = [error EXCEPT ![e] = "step"]
    BY <1>2, <1>3, <1>4, <1>6 DEF Settle
  <2>2. u \in RunsOf(Backward[e])
    <3>1. u \in [1..Len(Backward[e]) -> Result] /\ \A k \in 1..Len(u) : u[k] \in OutcomesOf(Backward[e][k])
      BY <1>4, <1>6, LenProperties DEF Follows
    <3>2. u \in [1..Len(Backward[e]) -> UNION {OutcomesOf(Backward[e][k]) : k \in 1..Len(Backward[e])}]
      BY <1>4, <1>6, <3>1
    <3>3. QED
      BY <1>4, <1>6, <3>2 DEF RunsOf
  <2>3. Contract!RollBack(e)
    BY <1>4, <1>6, <2>1, <2>2, SameData DEF Contract!RollBack, Contract!Open
  <2>4. QED
    BY <2>3 DEF Contract!Next
<1>7. QED
  BY <1>5, <1>6

LEMMA WatchdogRefines ==
    ASSUME Watchdog
    PROVE  Contract!Next
<1>1. Stalled \in SUBSET Executions /\ \A e \in Stalled : status[e] = "running"
  BY DEF Stalled
<1>2. Contract!Interrupt(Stalled)
  BY <1>1 DEF Watchdog, Contract!Interrupt
<1>3. QED
  BY <1>1, <1>2 DEF Contract!Next

\* The rows of the executions keep the contract: results grow step by step in order, and
\* the final status is the one they call for; every step is a step of it or leaves the rows.
THEOREM WorkerImplementsContract == Spec => ImplementsContract
<1>1. Init => Contract!Init
  BY DEF Init, Contract!Init
<1>2. IInv /\ [Next]_vars => [Contract!Next]_(Contract!vars)
  <2> SUFFICES ASSUME IInv, [Next]_vars
               PROVE  Contract!Next \/ UNCHANGED <<status, results, error>>
    BY DEF Contract!vars
  <2>1. ASSUME NEW e \in Executions, Accept(e) \/ AppendFails(e) \/ TimeoutPasses(e)
        PROVE  UNCHANGED <<status, results, error>>
    BY <2>1 DEF Accept, AppendFails, TimeoutPasses, table
  <2>2. ASSUME NEW w \in Workers, Step(w) \/ Throw(w) \/ AckFails(w) \/ Crash(w)
        PROVE  Contract!Next \/ UNCHANGED <<status, results, error>>
    BY <2>2, WorkerMovesOwnRow, StartRefines, SaveRefines, SettleRefines
  <2>3. CASE UNCHANGED vars
    BY <2>3 DEF vars
  <2>4. QED
    BY <2>1, <2>2, <2>3, TriggerRefines, WatchdogRefines DEF Next
<1>3. QED
  BY <1>1, <1>2, InductiveInvariant, PTL DEF Spec, ImplementsContract, Contract!Spec
=============================================================================
