--------------------- MODULE NotificationDelivery_proofs ---------------------
(***************************************************************************)
(* Proofs about NotificationDelivery, for every number of notifications,   *)
(* replicas and faults and every size of a batch: its inductive invariant  *)
(* IInv, and the safety properties that follow from it.                    *)
(***************************************************************************)
EXTENDS NotificationDelivery, Queues_proofs

-----------------------------------------------------------------------------
(* The queues *)

\* The part of the type invariant about the queues and who handles what.
QueuesOK == /\ kind \in [Notes -> {"none", "http"} \cup MessageKinds]
            /\ host \in [Notes -> Pods \cup {"none"}]
            /\ pc \in [Notes -> Steps \cup {"new", "queued", "done", "lost"}]
            /\ stream \in Seq(Notes)
            /\ batch \in [Pods -> Seq(Notes)]
            /\ \A n \in Notes : pc[n] \in Steps /\ kind[n] # "http" => Head(batch[host[n]]) = n

RecordsOK == /\ row \in [Notes -> Row]
             /\ listed \subseteq Notes
             /\ tries \in [Notes -> 0..MaxAttempts]
             /\ sent \in [Notes -> 0..MaxAttempts]
             /\ result \in [Notes -> Outcomes \cup {"none"}]
             /\ faults \in 0..MaxFaults

LEMMA TypeParts == /\ TypeOK <=> QueuesOK /\ RecordsOK
                   /\ TypeOK' <=> QueuesOK' /\ RecordsOK'
  BY DEF TypeOK, QueuesOK, RecordsOK

\* A message that is not read is queued and no statement handles it.
LEMMA Unread ==
    ASSUME QueuesOK, Placed, NEW j \in 1..Len(stream)
    PROVE  /\ stream[j] \in Notes /\ pc[stream[j]] = "queued"
           /\ kind[stream[j]] \in MessageKinds /\ host[stream[j]] = "none"
           /\ \A k \in 1..Len(stream) : stream[k] = stream[j] => k = j
  BY ElementOfSeq DEF QueuesOK, Placed, At

\* A message that a replica has read and not finished is that replica's.
LEMMA InBatch ==
    ASSUME QueuesOK, Placed, NEW p \in Pods, NEW j \in 1..Len(batch[p])
    PROVE  /\ batch[p][j] \in Notes /\ host[batch[p][j]] = p
           /\ pc[batch[p][j]] \in Steps \cup {"queued"}
           /\ kind[batch[p][j]] \in MessageKinds
           /\ j > 1 => pc[batch[p][j]] = "queued"
           /\ \A k \in 1..Len(batch[p]) : batch[p][k] = batch[p][j] => k = j
  BY ElementOfSeq DEF QueuesOK, Placed, At

\* The message that is being handled is the first of its replica's batch.
LEMMA Handled ==
    ASSUME QueuesOK, Placed, NEW n \in Notes,
           ~Http(n),
           \/ pc[n] \in Steps
           \/ At(n, "queued") /\ \E p \in Pods : batch[p] # << >> /\ Head(batch[p]) = n
    PROVE  /\ host[n] \in Pods /\ batch[host[n]] \in Seq(Notes) /\ batch[host[n]] # << >>
           /\ Len(batch[host[n]]) \in Nat \ {0}
           /\ batch[host[n]][1] = n
           /\ kind[n] \in MessageKinds
<1>1. CASE pc[n] \in Steps
  <2>1. host[n] \in Pods /\ batch[host[n]] # << >> /\ kind[n] \in MessageKinds
    BY <1>1 DEF Placed
  <2>2. Head(batch[host[n]]) = n /\ batch[host[n]] \in Seq(Notes)
    BY <1>1, <2>1 DEF QueuesOK, Http
  <2>3. QED
    BY <2>1, <2>2, DropFirst
<1>2. CASE At(n, "queued") /\ \E p \in Pods : batch[p] # << >> /\ Head(batch[p]) = n
  <2>1. PICK p \in Pods : batch[p] # << >> /\ Head(batch[p]) = n
    BY <1>2
  <2>2. batch[p] \in Seq(Notes)
    BY DEF QueuesOK
  <2>3. Len(batch[p]) \in Nat \ {0} /\ batch[p][1] = n
    BY <2>1, <2>2, DropFirst
  <2>4. host[n] = p /\ kind[n] \in MessageKinds
    <3>1. 1 \in 1..Len(batch[p])
      BY <2>3
    <3>2. QED
      BY <2>3, <3>1, InBatch
  <2>5. QED
    BY <2>1, <2>2, <2>3, <2>4
<1>3. QED
  BY <1>1, <1>2

\* A statement of a handler that goes on to another one leaves the queues as they are.
LEMMA GoesOn ==
    ASSUME QueuesOK, Placed, NEW n \in Notes, NEW label \in Steps,
           \/ pc[n] \in Steps
           \/ At(n, "queued") /\ \E p \in Pods : batch[p] # << >> /\ Head(batch[p]) = n,
           Goto(n, label), UNCHANGED <<kind, host, queues>>
    PROVE  QueuesOK' /\ Placed'
<1> USE DEF Goto, queues, At, Http
<1>1. \A m \in Notes : m # n => pc'[m] = pc[m]
  BY DEF QueuesOK
<1>2. pc'[n] = label /\ pc' \in [Notes -> Steps \cup {"new", "queued", "done", "lost"}]
  BY DEF QueuesOK
<1>a. "queued" \notin Steps /\ "http" \notin MessageKinds
  BY DEF Steps, MessageKinds
<1>3. pc[n] \in Steps => host[n] \in Pods
  BY DEF Placed
<1>4. ~Http(n) => /\ host[n] \in Pods /\ batch[host[n]] # << >> /\ Head(batch[host[n]]) = n
                  /\ batch[host[n]][1] = n /\ kind[n] \in MessageKinds
  BY Handled, DropFirst
<1>5. QueuesOK'
  BY <1>1, <1>2, <1>4 DEF QueuesOK
<1>b. At(n, "queued") => ~Http(n)
  <2>1. SUFFICES ASSUME At(n, "queued") PROVE ~Http(n)
    OBVIOUS
  <2>2. PICK p \in Pods : batch[p] # << >> /\ Head(batch[p]) = n
    BY <1>a, <2>1
  <2>3. batch[p] \in Seq(Notes)
    BY DEF QueuesOK
  <2>4. batch[p][1] = n /\ 1 \in 1..Len(batch[p])
    BY <2>2, <2>3, DropFirst
  <2>5. QED
    BY <1>a, <2>4, InBatch
<1>6. ASSUME NEW j \in 1..Len(stream)
      PROVE  /\ pc'[stream[j]] = "queued" /\ kind[stream[j]] \in MessageKinds
             /\ host[stream[j]] = "none"
             /\ \A k \in 1..Len(stream) : stream[k] = stream[j] => k = j
  <2>1. stream[j] # n
    BY <1>3, <1>4, <1>a, <1>b, Unread, NotificationAssumption
  <2>2. QED
    BY <1>1, <2>1, Unread
<1>7. ASSUME NEW p \in Pods, NEW j \in 1..Len(batch[p])
      PROVE  /\ pc'[batch[p][j]] \in Steps \cup {"queued"} /\ kind[batch[p][j]] \in MessageKinds
             /\ host[batch[p][j]] = p
             /\ j > 1 => pc'[batch[p][j]] = "queued"
             /\ \A k \in 1..Len(batch[p]) : batch[p][k] = batch[p][j] => k = j
  <2>1. CASE batch[p][j] # n
    BY <1>1, <2>1, InBatch
  <2>2. CASE batch[p][j] = n
    <3>1. ~Http(n) /\ host[n] = p
      BY <1>a, <2>2, InBatch
    <3>2. j = 1
      <4>1. batch[p] \in Seq(Notes) /\ batch[p] # << >> /\ batch[p][1] = n
        BY <1>4, <3>1 DEF QueuesOK
      <4>2. 1 \in 1..Len(batch[p])
        BY <4>1, DropFirst
      <4>3. QED
        BY <2>2, <4>1, <4>2, InBatch
    <3>3. QED
      BY <1>2, <2>2, <3>2, InBatch
  <2>3. QED
    BY <2>1, <2>2
<1>8. ASSUME NEW m \in Notes, pc'[m] \in Steps
      PROVE  host[m] \in Pods /\ (~Http(m) => kind[m] \in MessageKinds /\ batch[host[m]] # << >>)
  BY <1>1, <1>3, <1>4, <1>b, <1>8 DEF Placed
<1>9. ASSUME NEW m \in Notes, pc'[m] = "new"
      PROVE  host[m] = "none"
  BY <1>1, <1>2, <1>9 DEF Placed, Steps
<1>10. QED
  BY <1>5, <1>6, <1>7, <1>8, <1>9 DEF Placed

\* A handler that ends, or throws, leaves its place in the batch to the next message.
LEMMA Leaves ==
    ASSUME QueuesOK, Placed, NEW n \in Notes, NEW label \in {"done", "lost"},
           \/ pc[n] \in Steps
           \/ At(n, "queued") /\ ~Http(n) /\ \E p \in Pods : batch[p] # << >> /\ Head(batch[p]) = n,
           Goto(n, label), NextMessage(n), UNCHANGED <<kind, host, stream>>
    PROVE  QueuesOK' /\ Placed'
<1> USE DEF Goto, At
<1>1. \A m \in Notes : m # n => pc'[m] = pc[m]
  BY DEF QueuesOK
<1>2. pc'[n] = label /\ pc' \in [Notes -> Steps \cup {"new", "queued", "done", "lost"}]
  BY DEF QueuesOK
<1>3. label \notin Steps /\ "queued" \notin Steps /\ "http" \notin MessageKinds
  BY DEF Steps, MessageKinds
<1>4. CASE Http(n)
  <2>1. batch' = batch
    BY <1>4 DEF NextMessage, QueuesOK
  <2>2. QueuesOK'
    BY <1>1, <1>2, <1>3, <2>1 DEF QueuesOK
  <2>3. \A j \in 1..Len(stream) : stream[j] # n
    BY <1>3, <1>4, Unread DEF Http
  <2>4. \A p \in Pods : \A j \in 1..Len(batch[p]) : batch[p][j] # n
    BY <1>3, <1>4, InBatch DEF Http
  <2>5. \A j \in 1..Len(stream) : stream[j] \in Notes
    BY Unread
  <2>6. \A p \in Pods : \A j \in 1..Len(batch[p]) : batch[p][j] \in Notes
    BY InBatch
  <2>7. QED
    BY <1>1, <1>2, <1>3, <2>1, <2>2, <2>3, <2>4, <2>5, <2>6 DEF Placed, Http
<1>5. CASE ~Http(n)
  <2> DEFINE h == host[n]
             b == batch[h]
  <2>1. /\ h \in Pods /\ b \in Seq(Notes) /\ b # << >> /\ Len(b) \in Nat \ {0}
        /\ b[1] = n /\ kind[n] \in MessageKinds
    BY <1>5, Handled
  <2>2. /\ Tail(b) \in Seq(Notes) /\ Len(Tail(b)) = Len(b) - 1
        /\ \A j \in 1..(Len(b) - 1) : Tail(b)[j] = b[j + 1]
    BY <2>1, DropFirst
  <2>3. batch' = [batch EXCEPT ![h] = Tail(b)]
    BY <1>5 DEF NextMessage
  <2>4. /\ batch' \in [Pods -> Seq(Notes)] /\ batch'[h] = Tail(b)
        /\ \A p \in Pods : p # h => batch'[p] = batch[p]
    BY <2>1, <2>2, <2>3 DEF QueuesOK
  <2>5. ASSUME NEW m \in Notes, pc'[m] \in Steps, ~Http(m)
        PROVE  host[m] \in Pods \ {h}
    <3>1. m # n /\ pc[m] \in Steps
      BY <1>1, <1>2, <1>3, <2>5
    <3>2. host[m] \in Pods /\ batch[host[m]][1] = m
      BY <2>5, <3>1, Handled
    <3>3. QED
      BY <2>1, <3>1, <3>2
  <2>6. QueuesOK'
    <3>1. ASSUME NEW m \in Notes, pc'[m] \in Steps, kind[m] # "http"
          PROVE  Head(batch'[host[m]]) = m
      <4>1. host[m] \in Pods \ {h} /\ pc[m] \in Steps
        BY <1>1, <1>2, <1>3, <2>5, <3>1 DEF Http
      <4>2. QED
        BY <2>4, <3>1, <4>1 DEF QueuesOK
    <3>2. QED
      BY <1>2, <2>4, <3>1 DEF QueuesOK
  <2>7. ASSUME NEW j \in 1..Len(stream)
        PROVE  stream[j] # n
    BY <2>1, Unread, NotificationAssumption
  <2>8. ASSUME NEW p \in Pods, NEW j \in 1..Len(batch'[p])
        PROVE  LET m == batch'[p][j]
               IN  /\ pc'[m] \in Steps \cup {"queued"} /\ kind[m] \in MessageKinds /\ host[m] = p
                   /\ j > 1 => pc'[m] = "queued"
                   /\ \A k \in 1..Len(batch'[p]) : batch'[p][k] = m => k = j
    <3>1. CASE p # h
      <4>1. batch'[p] = batch[p]
        BY <2>4, <3>1
      <4>2. batch[p][j] # n
        BY <3>1, <4>1, InBatch
      <4>3. QED
        BY <1>1, <4>1, <4>2, InBatch
    <3>2. CASE p = h
      <4>0. Len(batch'[p]) = Len(b) - 1 /\ Len(b) \in Nat \ {0}
        BY <2>1, <2>2, <2>4, <3>2
      <4>1. j \in 1..(Len(b) - 1) /\ j + 1 \in 1..Len(b) /\ j + 1 # 1 /\ j + 1 > 1
        BY <4>0
      <4>2. batch'[p][j] = b[j + 1]
        BY <2>2, <2>4, <3>2, <4>1
      <4>3. /\ b[j + 1] \in Notes /\ host[b[j + 1]] = h /\ kind[b[j + 1]] \in MessageKinds
            /\ pc[b[j + 1]] = "queued"
            /\ \A k \in 1..Len(b) : b[k] = b[j + 1] => k = j + 1
        BY <2>1, <4>1, InBatch
      <4>4. b[j + 1] # n
        BY <2>1, <4>1, <4>3
      <4>5. ASSUME NEW k \in 1..Len(batch'[p]), batch'[p][k] = b[j + 1]
            PROVE  k = j
        <5>1. k \in 1..(Len(b) - 1) /\ k + 1 \in 1..Len(b)
          BY <4>0
        <5>2. b[k + 1] = b[j + 1]
          BY <2>2, <2>4, <3>2, <4>5, <5>1
        <5>3. k + 1 = j + 1
          BY <4>3, <5>1, <5>2
        <5>4. QED
          BY <4>1, <5>1, <5>3
      <4>6. QED
        BY <1>1, <3>2, <4>2, <4>3, <4>4, <4>5
    <3>3. QED
      BY <3>1, <3>2
  <2>9. ASSUME NEW m \in Notes, pc'[m] \in Steps
        PROVE  host[m] \in Pods /\ (~Http(m) => kind[m] \in MessageKinds /\ batch'[host[m]] # << >>)
    <3>1. pc[m] \in Steps /\ m # n
      BY <1>1, <1>2, <1>3, <2>9
    <3>2. QED
      BY <2>4, <2>5, <2>9, <3>1 DEF Placed
  <2>10. \A j \in 1..Len(stream) : pc'[stream[j]] = pc[stream[j]]
    BY <1>1, <2>7, Unread
  <2>11. QED
    BY <2>10, <2>6, <2>8, <2>9 DEF Placed, Http
<1>6. QED
  BY <1>4, <1>5

\* A replica that dies takes its handlers and its batch with it.
LEMMA DiesAlone ==
    ASSUME QueuesOK, Placed, NEW p \in Pods, Dies(p)
    PROVE  QueuesOK' /\ Placed'
<1>1. /\ pc' = [n \in Notes |-> IF host[n] = p /\ pc[n] \in Steps \cup {"queued"} THEN "lost" ELSE pc[n]]
      /\ batch' \in [Pods -> Seq(Notes)] /\ batch'[p] = << >>
      /\ \A q \in Pods : q # p => batch'[q] = batch[q]
      /\ kind' = kind /\ host' = host /\ stream' = stream
  BY EmptySeq DEF Dies, QueuesOK
<1>2. /\ pc' \in [Notes -> Steps \cup {"new", "queued", "done", "lost"}]
      /\ \A n \in Notes : host[n] # p => pc'[n] = pc[n]
      /\ \A n \in Notes : pc'[n] \in Steps => pc[n] \in Steps /\ host[n] # p
  <2>1. "lost" \notin Steps
    BY DEF Steps
  <2>2. QED
    BY <1>1, <2>1 DEF QueuesOK
<1>3. QueuesOK'
  <2>1. ASSUME NEW n \in Notes, pc'[n] \in Steps, kind[n] # "http"
        PROVE  Head(batch'[host[n]]) = n
    <3>1. pc[n] \in Steps /\ host[n] # p
      BY <1>2, <2>1
    <3>2. host[n] \in Pods /\ Head(batch[host[n]]) = n
      BY <2>1, <3>1 DEF Placed, QueuesOK
    <3>3. QED
      BY <1>1, <3>1, <3>2
  <2>2. QED
    BY <1>1, <1>2, <2>1 DEF QueuesOK
<1>4. ASSUME NEW j \in 1..Len(stream')
      PROVE  LET n == stream'[j]
             IN  /\ pc'[n] = "queued" /\ kind'[n] \in MessageKinds /\ host'[n] = "none"
                 /\ \A k \in 1..Len(stream') : stream'[k] = n => k = j
  BY <1>1, <1>2, Unread, NotificationAssumption
<1>5. ASSUME NEW q \in Pods, NEW j \in 1..Len(batch'[q])
      PROVE  LET n == batch'[q][j]
             IN  /\ pc'[n] \in Steps \cup {"queued"} /\ kind'[n] \in MessageKinds /\ host'[n] = q
                 /\ j > 1 => pc'[n] = "queued"
                 /\ \A k \in 1..Len(batch'[q]) : batch'[q][k] = n => k = j
  <2>1. q # p
    BY <1>1, EmptySeq
  <2>2. QED
    BY <1>1, <1>2, <2>1, InBatch
<1>6. ASSUME NEW n \in Notes, pc'[n] \in Steps
      PROVE  host'[n] \in Pods /\ (~Http(n)' => kind'[n] \in MessageKinds /\ batch'[host'[n]] # << >>)
  BY <1>1, <1>2, <1>6 DEF Placed, Http
<1>7. \A n \in Notes : pc'[n] = "new" => host'[n] = "none"
  BY <1>1 DEF Placed, At
<1>8. QED
  BY <1>3, <1>4, <1>5, <1>6, <1>7 DEF Placed, At

\* A notification that is submitted is no message.
LEMMA SubmitPlaces ==
    ASSUME QueuesOK, Placed, NEW n \in Notes, NEW p \in Pods, Submit(n, p)
    PROVE  QueuesOK' /\ Placed'
<1> USE DEF Submit, Goto, At, queues
<1>1. /\ kind' \in [Notes -> {"none", "http"} \cup MessageKinds] /\ kind'[n] = "http"
      /\ host' \in [Notes -> Pods \cup {"none"}] /\ host'[n] = p
      /\ pc' \in [Notes -> Steps \cup {"new", "queued", "done", "lost"}] /\ pc'[n] = "store"
      /\ \A m \in Notes : m # n => kind'[m] = kind[m] /\ host'[m] = host[m] /\ pc'[m] = pc[m]
      /\ stream' = stream /\ batch' = batch /\ pc[n] = "new"
  BY DEF QueuesOK, Steps
<1>2. "new" \notin Steps /\ "store" \in Steps
  BY DEF Steps
<1>3. \A j \in 1..Len(stream) : stream[j] # n
  BY <1>1, Unread
<1>4. \A q \in Pods : \A j \in 1..Len(batch[q]) : batch[q][j] # n
  BY <1>1, <1>2, InBatch
<1>5. QueuesOK'
  BY <1>1, <1>2 DEF QueuesOK
<1>6. \A j \in 1..Len(stream) : /\ pc'[stream[j]] = "queued" /\ kind'[stream[j]] \in MessageKinds
                                /\ host'[stream[j]] = "none"
                                /\ \A k \in 1..Len(stream) : stream[k] = stream[j] => k = j
  BY <1>1, <1>3, Unread
<1>7. \A q \in Pods : \A j \in 1..Len(batch[q]) :
          /\ pc'[batch[q][j]] \in Steps \cup {"queued"} /\ kind'[batch[q][j]] \in MessageKinds
          /\ host'[batch[q][j]] = q /\ (j > 1 => pc'[batch[q][j]] = "queued")
          /\ \A k \in 1..Len(batch[q]) : batch[q][k] = batch[q][j] => k = j
  BY <1>1, <1>4, InBatch
<1>8. \A m \in Notes : pc'[m] \in Steps =>
          host'[m] \in Pods /\ (kind'[m] # "http" => kind'[m] \in MessageKinds /\ batch[host'[m]] # << >>)
  BY <1>1, <1>2 DEF Placed, Http
<1>9. QED
  BY <1>1, <1>5, <1>6, <1>7, <1>8 DEF Placed, Http

\* A new message comes last in the stream.
LEMMA EnqueuePlaces ==
    ASSUME QueuesOK, Placed, NEW n \in Notes, NEW k \in MessageKinds, Enqueue(n, k)
    PROVE  QueuesOK' /\ Placed'
<1> USE DEF Enqueue, Goto, At, queues
<1>1. /\ kind' \in [Notes -> {"none", "http"} \cup MessageKinds] /\ kind'[n] = k
      /\ pc' \in [Notes -> Steps \cup {"new", "queued", "done", "lost"}] /\ pc'[n] = "queued"
      /\ \A m \in Notes : m # n => kind'[m] = kind[m] /\ pc'[m] = pc[m]
      /\ batch' = batch /\ host' = host /\ pc[n] = "new" /\ host[n] = "none"
  BY DEF QueuesOK, Placed, Steps
<1>2. "new" \notin Steps /\ "queued" \notin Steps
  BY DEF Steps
<1>3. \A j \in 1..Len(stream) : stream[j] # n
  BY <1>1, Unread
<1>4. \A q \in Pods : \A j \in 1..Len(batch[q]) : batch[q][j] # n
  BY <1>1, <1>2, InBatch
<1>5. /\ stream' \in Seq(Notes) /\ Len(stream) \in Nat /\ Len(stream') = Len(stream) + 1
      /\ \A j \in 1..Len(stream) : stream'[j] = stream[j] /\ stream[j] \in Notes
      /\ stream'[Len(stream) + 1] = n
  BY AppendOne DEF QueuesOK
<1>6. QueuesOK'
  BY <1>1, <1>2, <1>5 DEF QueuesOK
<1>7. ASSUME NEW j \in 1..Len(stream')
      PROVE  LET m == stream'[j]
             IN  /\ pc'[m] = "queued" /\ kind'[m] \in MessageKinds /\ host'[m] = "none"
                 /\ \A i \in 1..Len(stream') : stream'[i] = m => i = j
  <2>1. CASE j = Len(stream) + 1
    <3>1. stream'[j] = n
      BY <1>5, <2>1
    <3>2. \A i \in 1..Len(stream') : stream'[i] = n => i = j
      BY <1>3, <1>5, <2>1
    <3>3. QED
      BY <1>1, <3>1, <3>2
  <2>2. CASE j \in 1..Len(stream)
    <3>1. stream'[j] = stream[j] /\ stream[j] # n /\ stream[j] \in Notes
      BY <1>3, <1>5, <2>2
    <3>2. /\ pc[stream[j]] = "queued" /\ kind[stream[j]] \in MessageKinds /\ host[stream[j]] = "none"
          /\ \A i \in 1..Len(stream) : stream[i] = stream[j] => i = j
      BY <2>2, Unread
    <3>3. ASSUME NEW i \in 1..Len(stream'), stream'[i] = stream[j]
          PROVE  i = j
      <4>1. i \in 1..Len(stream)
        BY <1>5, <3>1, <3>3
      <4>2. QED
        BY <1>5, <3>2, <3>3, <4>1
    <3>4. QED
      BY <1>1, <3>1, <3>2, <3>3
  <2>3. QED
    BY <1>5, <2>1, <2>2
<1>8. \A q \in Pods : \A j \in 1..Len(batch[q]) :
          /\ pc'[batch[q][j]] \in Steps \cup {"queued"} /\ kind'[batch[q][j]] \in MessageKinds
          /\ host[batch[q][j]] = q /\ (j > 1 => pc'[batch[q][j]] = "queued")
          /\ \A i \in 1..Len(batch[q]) : batch[q][i] = batch[q][j] => i = j
  BY <1>1, <1>4, InBatch
<1>9. \A m \in Notes : pc'[m] \in Steps =>
          host[m] \in Pods /\ (kind'[m] # "http" => kind'[m] \in MessageKinds /\ batch[host[m]] # << >>)
  BY <1>1, <1>2 DEF Placed, Http
<1>10. QED
  BY <1>1, <1>6, <1>7, <1>8, <1>9 DEF Placed, Http

\* A replica takes the oldest messages; nobody else has them.
LEMMA ReadPlaces ==
    ASSUME QueuesOK, Placed, NEW p \in Pods, Read(p)
    PROVE  QueuesOK' /\ Placed'
<1> DEFINE k == IF Len(stream) < BatchMax THEN Len(stream) ELSE BatchMax
<1>1. /\ Len(stream) \in Nat \ {0} /\ k \in 1..Len(stream)
  BY DropFirst, NotificationAssumption DEF QueuesOK, Read
<1>2. /\ batch' = [batch EXCEPT ![p] = SubSeq(stream, 1, k)]
      /\ stream' = SubSeq(stream, k + 1, Len(stream))
      /\ host' = [n \in Notes |-> IF \E j \in 1..k : stream[j] = n THEN p ELSE host[n]]
      /\ kind' = kind /\ pc' = pc /\ batch[p] = << >>
  BY DEF Read
<1> HIDE DEF k
<1>3. /\ SubSeq(stream, 1, k) \in Seq(Notes) /\ Len(SubSeq(stream, 1, k)) = k
      /\ \A j \in 1..k : SubSeq(stream, 1, k)[j] = stream[j]
      /\ stream' \in Seq(Notes) /\ Len(stream') = Len(stream) - k
      /\ \A j \in 1..(Len(stream) - k) : stream'[j] = stream[k + j]
  <2>1. stream \in Seq(Notes)
    BY DEF QueuesOK
  <2>2. QED
    BY <1>1, <1>2, <2>1, ReadPrefix
<1>4. /\ batch' \in [Pods -> Seq(Notes)] /\ Len(batch'[p]) = k
      /\ \A j \in 1..k : batch'[p][j] = stream[j]
      /\ \A q \in Pods : q # p => batch'[q] = batch[q]
  BY <1>2, <1>3 DEF QueuesOK
<1>5. host' \in [Notes -> Pods \cup {"none"}]
  BY <1>2 DEF QueuesOK
<1>6. \A n \in Notes : pc[n] \in Steps => host'[n] = host[n]
  <2>1. "queued" \notin Steps
    BY DEF Steps
  <2>2. \A j \in 1..k : j \in 1..Len(stream)
    BY <1>1
  <2>3. QED
    BY <1>2, <2>1, <2>2, Unread
<1>7. QueuesOK'
  <2>1. ASSUME NEW n \in Notes, pc[n] \in Steps, kind[n] # "http"
        PROVE  Head(batch'[host'[n]]) = n
    <3>1. host[n] \in Pods /\ batch[host[n]] # << >> /\ Head(batch[host[n]]) = n
      BY <2>1 DEF QueuesOK, Placed, Http
    <3>2. QED
      BY <1>2, <1>4, <1>6, <2>1, <3>1
  <2>2. QED
    BY <1>2, <1>3, <1>4, <1>5, <2>1 DEF QueuesOK
<1>8. ASSUME NEW j \in 1..Len(stream')
      PROVE  LET n == stream'[j]
             IN  /\ pc'[n] = "queued" /\ kind'[n] \in MessageKinds /\ host'[n] = "none"
                 /\ \A i \in 1..Len(stream') : stream'[i] = n => i = j
  <2>1. j \in 1..(Len(stream) - k) /\ k + j \in 1..Len(stream) /\ k + j \notin 1..k
    BY <1>1, <1>3
  <2>2. stream'[j] = stream[k + j]
    BY <1>3, <2>1
  <2>3. /\ stream[k + j] \in Notes /\ pc[stream[k + j]] = "queued"
        /\ kind[stream[k + j]] \in MessageKinds /\ host[stream[k + j]] = "none"
        /\ \A i \in 1..Len(stream) : stream[i] = stream[k + j] => i = k + j
    BY <2>1, Unread
  <2>4. host'[stream[k + j]] = "none"
    <3>1. \A i \in 1..k : i \in 1..Len(stream)
      BY <1>1
    <3>2. ~\E i \in 1..k : stream[i] = stream[k + j]
      BY <2>1, <2>3, <3>1
    <3>3. QED
      BY <1>2, <2>3, <3>2
  <2>5. ASSUME NEW i \in 1..Len(stream'), stream'[i] = stream[k + j]
        PROVE  i = j
    <3>1. i \in 1..(Len(stream) - k) /\ k + i \in 1..Len(stream)
      BY <1>1, <1>3
    <3>2. k + i = k + j
      BY <1>3, <2>3, <2>5, <3>1
    <3>3. QED
      BY <1>1, <2>1, <3>1, <3>2
  <2>6. QED
    BY <1>2, <2>2, <2>3, <2>4, <2>5
<1>9. ASSUME NEW q \in Pods, NEW j \in 1..Len(batch'[q])
      PROVE  LET n == batch'[q][j]
             IN  /\ pc'[n] \in Steps \cup {"queued"} /\ kind'[n] \in MessageKinds /\ host'[n] = q
                 /\ j > 1 => pc'[n] = "queued"
                 /\ \A i \in 1..Len(batch'[q]) : batch'[q][i] = n => i = j
  <2>1. CASE q = p
    <3>1. j \in 1..k /\ j \in 1..Len(stream) /\ batch'[p][j] = stream[j]
      BY <1>1, <1>4, <2>1
    <3>2. stream[j] \in Notes /\ host'[stream[j]] = p
      BY <1>2, <3>1, Unread
    <3>3. \A i \in 1..Len(batch'[q]) : batch'[q][i] = stream[j] => i = j
      BY <1>1, <1>4, <2>1, <3>1, Unread
    <3>4. QED
      BY <1>2, <2>1, <3>1, <3>2, <3>3, Unread
  <2>2. CASE q # p
    <3>1. batch'[q] = batch[q]
      BY <1>4, <2>2
    <3>2. host'[batch[q][j]] = q
      <4>1. \A i \in 1..k : i \in 1..Len(stream)
        BY <1>1
      <4>2. ~\E i \in 1..k : stream[i] = batch[q][j]
        BY <3>1, <4>1, InBatch, Unread, NotificationAssumption
      <4>3. QED
        BY <1>2, <3>1, <4>2, InBatch
    <3>3. /\ pc[batch[q][j]] \in Steps \cup {"queued"} /\ kind[batch[q][j]] \in MessageKinds
          /\ j > 1 => pc[batch[q][j]] = "queued"
          /\ \A i \in 1..Len(batch[q]) : batch[q][i] = batch[q][j] => i = j
      BY <3>1, InBatch
    <3>4. QED
      BY <1>2, <3>1, <3>2, <3>3
  <2>3. QED
    BY <2>1, <2>2
<1>10. ASSUME NEW n \in Notes, pc'[n] \in Steps
       PROVE  host'[n] \in Pods /\ (~Http(n)' => kind'[n] \in MessageKinds /\ batch'[host'[n]] # << >>)
  BY <1>10, <1>2, <1>4, <1>6 DEF Placed, Http
<1>11. ASSUME NEW n \in Notes, pc'[n] = "new"
       PROVE  host'[n] = "none"
  <2>1. pc[n] = "new" /\ host[n] = "none"
    BY <1>2, <1>11 DEF Placed, At
  <2>2. \A j \in 1..k : stream[j] # n
    BY <1>1, <2>1, Unread
  <2>3. QED
    BY <1>2, <2>1, <2>2
<1>12. QED
  BY <1>7, <1>8, <1>9, <1>10, <1>11 DEF Placed, At

-----------------------------------------------------------------------------
(* The records *)

\* What the inductive invariant says of one notification.
NoteOK(n) ==
    /\ Progress(n)
    /\ row[n].status = "delivered" => sent[n] > 0
    /\ row[n].status = "failed" => tries[n] = MaxAttempts /\ ((Http(n) /\ faults > 0) \/ sent[n] = 0)
    /\ sent[n] <= IF Http(n) THEN 1 + faults ELSE 1
    /\ sent[n] > 0 => n \in listed /\ row[n].status # "none"

LEMMA InvParts == /\ IInv <=> QueuesOK /\ RecordsOK /\ Placed /\ \A n \in Notes : NoteOK(n)
                  /\ IInv' <=> QueuesOK' /\ RecordsOK' /\ Placed' /\ \A n \in Notes : NoteOK(n)'
  BY TypeParts DEF IInv, NoteOK, HonestOutcome, SentOnce, SentIsListed

\* The fields of a notification.
LEMMA NoteType ==
    ASSUME RecordsOK, NEW n \in Notes
    PROVE  /\ row[n] \in Row
           /\ row[n].status \in {"none", "pending", "delivered", "failed"}
           /\ row[n].retryCount \in 0..3 /\ row[n].error \in BOOLEAN
           /\ tries[n] \in 0..3 /\ sent[n] \in 0..3
           /\ result[n] \in {"none", "delivered", "failed"}
           /\ faults \in Nat
  BY NotificationAssumption DEF RecordsOK, Row, Outcomes, MaxAttempts

\* A step counts at most one fault, and never too many.
LEMMA FaultType ==
    ASSUME RecordsOK, faults' = faults \/ (faults < MaxFaults /\ faults' = faults + 1)
    PROVE  faults' \in 0..MaxFaults /\ faults' \in Nat /\ faults' >= faults
  BY NotificationAssumption DEF RecordsOK

\* What a step of another notification leaves of this one.
LEMMA Bystander ==
    ASSUME RecordsOK, NEW n \in Notes, NoteOK(n), faults' \in Nat, faults' >= faults,
           kind'[n] = kind[n], row'[n] = row[n], tries'[n] = tries[n], sent'[n] = sent[n],
           result'[n] = result[n], (n \in listed') = (n \in listed),
           pc'[n] = pc[n] \/ pc'[n] = "lost"
    PROVE  NoteOK(n)'
<1>1. /\ tries[n] \in Nat /\ sent[n] \in Nat /\ faults \in Nat
  BY NoteType
<1>2. CASE pc'[n] = pc[n]
  BY <1>1, <1>2 DEF NoteOK, Progress, At, Http, Untouched, Underway, Concluded, Delivered, Miscounted, Retries
<1>3. CASE pc'[n] = "lost"
  BY <1>1, <1>3 DEF NoteOK, Progress, At, Http
<1>4. QED
  BY <1>2, <1>3

\* The statements that write one notification's record or memory, seen from outside.
Touches(n) == /\ \A m \in Notes : m # n => /\ kind'[m] = kind[m] /\ pc'[m] = pc[m] /\ row'[m] = row[m]
                                          /\ tries'[m] = tries[m] /\ sent'[m] = sent[m]
                                          /\ result'[m] = result[m] /\ (m \in listed') = (m \in listed)
              /\ faults' = faults \/ (faults < MaxFaults /\ faults' = faults + 1)

LEMMA OneNote ==
    ASSUME RecordsOK, \A m \in Notes : NoteOK(m), NEW n \in Notes, Touches(n), NoteOK(n)'
    PROVE  \A m \in Notes : NoteOK(m)'
<1>1. faults' \in Nat /\ faults' >= faults
  BY FaultType DEF Touches
<1>2. ASSUME NEW m \in Notes, m # n
      PROVE  NoteOK(m)'
  <2>1. /\ kind'[m] = kind[m] /\ pc'[m] = pc[m] /\ row'[m] = row[m] /\ tries'[m] = tries[m]
        /\ sent'[m] = sent[m] /\ result'[m] = result[m]
    BY <1>2 DEF Touches
  <2>2. (m \in listed') = (m \in listed)
    BY <1>2, Zenon DEF Touches
  <2>3. NoteOK(m) /\ RecordsOK
    OBVIOUS
  <2>4. QED
    BY <1>1, <2>1, <2>2, <2>3, Bystander, Zenon
<1>3. QED
  BY <1>2

\* The statements before the delivery: the record, then the list.
LEMMA BeforeDelivery ==
    ASSUME QueuesOK, RecordsOK, \A m \in Notes : NoteOK(m), NEW n \in Notes, Store(n) \/ Index(n)
    PROVE  RecordsOK' /\ NoteOK(n)' /\ Touches(n)
<1> USE NoteType DEF Goto, At, redis, memory
<1>1. CASE Store(n)
  <2>1. /\ row' \in [Notes -> Row] /\ row'[n] = [row[n] EXCEPT !.status = "pending"]
        /\ \A m \in Notes : m # n => row'[m] = row[m] /\ pc'[m] = pc[m]
        /\ pc'[n] = "index" /\ pc[n] = "store"
    <3>1. row' = [row EXCEPT ![n].status = "pending"] /\ [row[n] EXCEPT !.status = "pending"] \in Row
      BY <1>1 DEF Store, Row
    <3>2. /\ row' \in [Notes -> Row] /\ row'[n] = [row[n] EXCEPT !.status = "pending"]
          /\ \A m \in Notes : m # n => row'[m] = row[m]
      BY <3>1 DEF RecordsOK
    <3>3. /\ \A m \in Notes : m # n => pc'[m] = pc[m]
          /\ pc'[n] = "index" /\ pc[n] = "store"
      BY <1>1 DEF Store, QueuesOK
    <3>4. QED
      BY <3>2, <3>3
  <2>2. UNCHANGED <<kind, listed, tries, sent, result, faults>>
    BY <1>1 DEF Store
  <2>3. RecordsOK'
    BY <2>1, <2>2 DEF RecordsOK
  <2>4. Touches(n)
    BY <2>1, <2>2 DEF Touches
  <2>5. NoteOK(n)'
    BY <1>1, <2>1 DEF Store, NoteOK, Progress, Untouched, Http
  <2>6. QED
    BY <2>3, <2>4, <2>5
<1>2. CASE Index(n)
  <2>1. /\ \A m \in Notes : m # n => pc'[m] = pc[m]
        /\ pc'[n] = "send" /\ pc[n] = "index"
    BY <1>2 DEF Index, QueuesOK
  <2>2. RecordsOK' /\ Touches(n)
    BY <1>2, <2>1 DEF Index, RecordsOK, Touches
  <2>3. NoteOK(n)'
    BY <1>2, <2>1 DEF Index, NoteOK, Progress, Underway, Miscounted, Http, MaxAttempts
  <2>4. QED
    BY <2>2, <2>3
<1>3. QED
  BY <1>1, <1>2

\* The delivery: an attempt that succeeds, one that fails.
LEMMA Delivery ==
    ASSUME QueuesOK, RecordsOK, \A m \in Notes : NoteOK(m), NEW n \in Notes, Send(n)
    PROVE  RecordsOK' /\ NoteOK(n)' /\ Touches(n)
<1> USE NoteType DEF Goto, At, redis, memory
<1>1. /\ Underway(n) /\ tries[n] < 3 /\ Miscounted(n) /\ pc[n] = "send" /\ sent[n] <= tries[n]
  BY DEF Send, NoteOK, Progress, MaxAttempts
<1>2. /\ tries' \in [Notes -> 0..MaxAttempts] /\ tries'[n] = tries[n] + 1
      /\ \A m \in Notes : m # n => tries'[m] = tries[m]
      /\ kind' = kind /\ row' = row /\ listed' = listed /\ faults' = faults
  BY <1>1 DEF Send, RecordsOK, MaxAttempts
<1>3. CASE /\ kind[n] # "unknown"
           /\ sent' = [sent EXCEPT ![n] = @ + 1]
           /\ \/ Http(n) /\ Goto(n, "count") /\ UNCHANGED result
              \/ ~Http(n) /\ Conclude(n, "delivered")
  <2>1. /\ sent' \in [Notes -> 0..MaxAttempts] /\ sent'[n] = sent[n] + 1
        /\ \A m \in Notes : m # n => sent'[m] = sent[m]
    BY <1>1, <1>3 DEF RecordsOK, MaxAttempts
  <2>2. CASE Http(n) /\ Goto(n, "count") /\ UNCHANGED result
    <3>1. pc'[n] = "count" /\ \A m \in Notes : m # n => pc'[m] = pc[m]
      BY <2>2 DEF QueuesOK
    <3>2. RecordsOK' /\ Touches(n)
      BY <1>2, <2>1, <2>2, <3>1 DEF RecordsOK, Touches
    <3>3. NoteOK(n)'
      BY <1>1, <1>2, <2>1, <2>2, <3>1 DEF NoteOK, Progress, Underway, Delivered, Miscounted, Http
    <3>4. QED
      BY <3>2, <3>3
  <2>3. CASE ~Http(n) /\ Conclude(n, "delivered")
    <3>1. /\ pc'[n] = "settle" /\ \A m \in Notes : m # n => pc'[m] = pc[m]
          /\ result' \in [Notes -> Outcomes \cup {"none"}] /\ result'[n] = "delivered"
          /\ \A m \in Notes : m # n => result'[m] = result[m]
      BY <2>3 DEF QueuesOK, RecordsOK, Conclude, Outcomes
    <3>2. RecordsOK' /\ Touches(n)
      BY <1>2, <2>1, <3>1 DEF RecordsOK, Touches
    <3>3. NoteOK(n)'
      BY <1>1, <1>2, <2>1, <2>3, <3>1 DEF NoteOK, Progress, Underway, Concluded, Delivered, Miscounted, Http
    <3>4. QED
      BY <3>2, <3>3
  <2>4. QED
    BY <1>3, <2>2, <2>3
<1>4. CASE /\ \/ Http(n) /\ Goto(n, "recount") /\ UNCHANGED result
              \/ ~Http(n) /\ Retry(n, tries[n] + 1)
           /\ UNCHANGED sent
  <2>1. CASE Http(n) /\ Goto(n, "recount") /\ UNCHANGED result
    <3>1. pc'[n] = "recount" /\ \A m \in Notes : m # n => pc'[m] = pc[m]
      BY <2>1 DEF QueuesOK
    <3>2. RecordsOK' /\ Touches(n)
      BY <1>2, <1>4, <2>1, <3>1 DEF RecordsOK, Touches
    <3>3. NoteOK(n)'
      BY <1>1, <1>2, <1>4, <2>1, <3>1 DEF NoteOK, Progress, Underway, Miscounted, Http
    <3>4. QED
      BY <3>2, <3>3
  <2>2. CASE ~Http(n) /\ tries[n] + 1 < 3 /\ Goto(n, "send") /\ UNCHANGED result
    <3>1. pc'[n] = "send" /\ \A m \in Notes : m # n => pc'[m] = pc[m]
      BY <2>2 DEF QueuesOK
    <3>2. RecordsOK' /\ Touches(n)
      BY <1>2, <1>4, <2>2, <3>1 DEF RecordsOK, Touches
    <3>3. NoteOK(n)'
      BY <1>1, <1>2, <1>4, <2>2, <3>1 DEF NoteOK, Progress, Underway, Miscounted, Http, MaxAttempts
    <3>4. QED
      BY <3>2, <3>3
  <2>3. CASE ~Http(n) /\ tries[n] + 1 = 3 /\ Conclude(n, "failed")
    <3>1. /\ pc'[n] = "settle" /\ \A m \in Notes : m # n => pc'[m] = pc[m]
          /\ result' \in [Notes -> Outcomes \cup {"none"}] /\ result'[n] = "failed"
          /\ \A m \in Notes : m # n => result'[m] = result[m]
      BY <2>3 DEF QueuesOK, RecordsOK, Conclude, Outcomes
    <3>2. RecordsOK' /\ Touches(n)
      BY <1>2, <1>4, <3>1 DEF RecordsOK, Touches
    <3>3. NoteOK(n)'
      BY <1>1, <1>2, <1>4, <2>3, <3>1 DEF NoteOK, Progress, Underway, Concluded, Delivered, Miscounted,
                                         Http, MaxAttempts
    <3>4. QED
      BY <3>2, <3>3
  <2>4. QED
    BY <1>4, <2>1, <2>2, <2>3 DEF Retry, MaxAttempts
<1>5. QED
  BY <1>3, <1>4 DEF Send

\* HTTP: the counts of the attempts.
LEMMA Counting ==
    ASSUME QueuesOK, RecordsOK, \A m \in Notes : NoteOK(m), NEW n \in Notes,
           Count(n) \/ CountFails(n) \/ Recount(n)
    PROVE  RecordsOK' /\ NoteOK(n)' /\ Touches(n)
<1> USE NoteType DEF Goto, At, redis, memory
<1>1. CASE Count(n)
  <2>1. Underway(n) /\ tries[n] > 0 /\ Delivered(n) /\ Http(n) /\ sent[n] <= tries[n] /\ pc[n] = "count"
    BY <1>1 DEF Count, NoteOK, Progress
  <2>2. /\ row' \in [Notes -> Row] /\ row'[n] = [row[n] EXCEPT !.retryCount = tries[n] - 1]
        /\ \A m \in Notes : m # n => row'[m] = row[m]
    BY <1>1, <2>1 DEF Count, RecordsOK, Row, MaxAttempts
  <2>3. /\ result' \in [Notes -> Outcomes \cup {"none"}] /\ result'[n] = "delivered"
        /\ pc'[n] = "settle"
        /\ \A m \in Notes : m # n => result'[m] = result[m] /\ pc'[m] = pc[m]
    BY <1>1 DEF Count, Conclude, QueuesOK, RecordsOK, Outcomes
  <2>4. RecordsOK' /\ Touches(n)
    BY <1>1, <2>2, <2>3 DEF Count, RecordsOK, Touches
  <2>5. row'[n].status = row[n].status /\ row'[n].error = row[n].error /\ row'[n].retryCount = tries[n] - 1
    BY <2>2 DEF Row
  <2>6. NoteOK(n)'
    BY <1>1, <2>1, <2>3, <2>5 DEF Count, NoteOK, Progress, Underway, Concluded, Delivered, Retries, Http
  <2>7. QED
    BY <2>4, <2>6
<1>2. CASE CountFails(n)
  <2>1. Underway(n) /\ tries[n] > 0 /\ Delivered(n) /\ Http(n) /\ sent[n] <= tries[n] /\ pc[n] = "count"
    BY <1>2 DEF CountFails, NoteOK, Progress
  <2>2. pc'[n] = "recount" /\ \A m \in Notes : m # n => pc'[m] = pc[m]
    BY <1>2 DEF CountFails, QueuesOK
  <2>3. faults' = faults + 1 /\ faults < MaxFaults /\ faults' \in 0..MaxFaults
    BY <1>2, FaultType DEF CountFails, Fault
  <2>4. RecordsOK' /\ Touches(n)
    BY <1>2, <2>2, <2>3 DEF CountFails, RecordsOK, Touches
  <2>5. NoteOK(n)'
    BY <1>2, <2>1, <2>2, <2>3 DEF CountFails, NoteOK, Progress, Underway, Delivered, Miscounted, Http
  <2>6. QED
    BY <2>4, <2>5
<1>3. CASE Recount(n)
  <2>1. /\ Underway(n) /\ tries[n] > 0 /\ Miscounted(n) /\ Http(n) /\ sent[n] <= tries[n]
        /\ pc[n] = "recount"
    BY <1>3 DEF Recount, NoteOK, Progress
  <2>2. /\ row' \in [Notes -> Row] /\ row'[n] = [row[n] EXCEPT !.retryCount = tries[n]]
        /\ \A m \in Notes : m # n => row'[m] = row[m]
    BY <1>3, <2>1 DEF Recount, RecordsOK, Row, MaxAttempts
  <2>3. row'[n].status = row[n].status /\ row'[n].error = row[n].error /\ row'[n].retryCount = tries[n]
    BY <2>2 DEF Row
  <2>4. CASE tries[n] < 3 /\ Goto(n, "send") /\ UNCHANGED result
    <3>1. pc'[n] = "send" /\ \A m \in Notes : m # n => pc'[m] = pc[m]
      BY <2>4 DEF QueuesOK
    <3>2. RecordsOK' /\ Touches(n)
      BY <1>3, <2>2, <2>4, <3>1 DEF Recount, RecordsOK, Touches
    <3>3. NoteOK(n)'
      BY <1>3, <2>1, <2>3, <2>4, <3>1 DEF Recount, NoteOK, Progress, Underway, Miscounted, Http, MaxAttempts
    <3>4. QED
      BY <3>2, <3>3
  <2>5. CASE tries[n] = 3 /\ Conclude(n, "failed")
    <3>1. /\ pc'[n] = "settle" /\ \A m \in Notes : m # n => pc'[m] = pc[m]
          /\ result' \in [Notes -> Outcomes \cup {"none"}] /\ result'[n] = "failed"
          /\ \A m \in Notes : m # n => result'[m] = result[m]
      BY <2>5 DEF QueuesOK, RecordsOK, Conclude, Outcomes
    <3>2. RecordsOK' /\ Touches(n)
      BY <1>3, <2>2, <3>1 DEF Recount, RecordsOK, Touches
    <3>3. NoteOK(n)'
      BY <1>3, <2>1, <2>3, <2>5, <3>1 DEF Recount, NoteOK, Progress, Underway, Concluded, Miscounted,
                                         Retries, Http, MaxAttempts
    <3>4. QED
      BY <3>2, <3>3
  <2>6. QED
    BY <1>3, <2>4, <2>5 DEF Recount, Retry, MaxAttempts
<1>4. QED
  BY <1>1, <1>2, <1>3

\* The final record: the status, the retries of a message and the error.
LEMMA Settling ==
    ASSUME QueuesOK, RecordsOK, \A m \in Notes : NoteOK(m), NEW n \in Notes,
           Settle(n) \/ SaveRetries(n) \/ SaveError(n)
    PROVE  RecordsOK' /\ NoteOK(n)' /\ Touches(n)
<1> USE NoteType DEF Goto, At, redis, memory
<1>1. CASE Settle(n)
  <2>1. /\ Concluded(n) /\ row[n].status = "pending" /\ ~row[n].error /\ sent[n] <= tries[n]
        /\ Http(n) => row[n].retryCount = Retries(n)
        /\ pc[n] = "settle" /\ result[n] \in {"delivered", "failed"}
    BY <1>1 DEF Settle, NoteOK, Progress, Concluded
  <2>2. /\ row' \in [Notes -> Row] /\ row'[n] = [row[n] EXCEPT !.status = result[n]]
        /\ \A m \in Notes : m # n => row'[m] = row[m]
    BY <1>1, <2>1 DEF Settle, RecordsOK, Row, Outcomes
  <2>3. /\ row'[n].status = result[n] /\ row'[n].error = row[n].error
        /\ row'[n].retryCount = row[n].retryCount
    BY <2>2 DEF Row
  <2>4. /\ pc'[n] = (IF ~Http(n) THEN "retries" ELSE IF result[n] = "failed" THEN "error" ELSE "finish")
        /\ \A m \in Notes : m # n => pc'[m] = pc[m]
    BY <1>1 DEF Settle, QueuesOK
  <2>5. RecordsOK' /\ Touches(n)
    BY <1>1, <2>2, <2>4 DEF Settle, RecordsOK, Touches
  <2>6. NoteOK(n)'
    BY <1>1, <2>1, <2>3, <2>4 DEF Settle, NoteOK, Progress, Concluded, Delivered, Miscounted, Retries, Http
  <2>7. QED
    BY <2>5, <2>6
<1>2. CASE SaveRetries(n)
  <2>1. /\ Concluded(n) /\ row[n].status = result[n] /\ ~row[n].error /\ sent[n] <= tries[n]
        /\ pc[n] = "retries" /\ result[n] \in {"delivered", "failed"} /\ tries[n] > 0
    BY <1>2 DEF SaveRetries, NoteOK, Progress, Concluded
  <2>2. /\ row' \in [Notes -> Row] /\ row'[n] = [row[n] EXCEPT !.retryCount = Retries(n)]
        /\ \A m \in Notes : m # n => row'[m] = row[m]
    BY <1>2, <2>1 DEF SaveRetries, RecordsOK, Row, Retries, MaxAttempts
  <2>3. /\ row'[n].status = result[n] /\ row'[n].error = row[n].error
        /\ row'[n].retryCount = Retries(n)
    BY <2>1, <2>2 DEF Row
  <2>4. /\ pc'[n] = (IF result[n] = "failed" THEN "error" ELSE "finish")
        /\ \A m \in Notes : m # n => pc'[m] = pc[m]
    BY <1>2 DEF SaveRetries, QueuesOK
  <2>5. RecordsOK' /\ Touches(n)
    BY <1>2, <2>2, <2>4 DEF SaveRetries, RecordsOK, Touches
  <2>6. (row[n].status = "failed" => tries[n] = MaxAttempts /\ ((Http(n) /\ faults > 0) \/ sent[n] = 0))
    BY DEF NoteOK
  <2>7. NoteOK(n)'
    BY <1>2, <2>1, <2>3, <2>4, <2>6 DEF SaveRetries, NoteOK, Progress, Concluded, Delivered, Miscounted,
                                       Retries, Http
  <2>8. QED
    BY <2>5, <2>7
<1>3. CASE SaveError(n)
  <2>1. /\ Concluded(n) /\ row[n].status = result[n] /\ sent[n] <= tries[n]
        /\ result[n] = "failed" /\ row[n].retryCount = Retries(n) /\ pc[n] = "error"
    BY <1>3 DEF SaveError, NoteOK, Progress
  <2>2. /\ row' \in [Notes -> Row] /\ row'[n] = [row[n] EXCEPT !.error = TRUE]
        /\ \A m \in Notes : m # n => row'[m] = row[m]
    BY <1>3 DEF SaveError, RecordsOK, Row
  <2>3. /\ row'[n].status = result[n] /\ row'[n].error = TRUE
        /\ row'[n].retryCount = Retries(n)
    BY <2>1, <2>2 DEF Row
  <2>4. pc'[n] = "finish" /\ \A m \in Notes : m # n => pc'[m] = pc[m]
    BY <1>3 DEF SaveError, QueuesOK
  <2>5. RecordsOK' /\ Touches(n)
    BY <1>3, <2>2, <2>4 DEF SaveError, RecordsOK, Touches
  <2>6. NoteOK(n)'
    BY <1>3, <2>1, <2>3, <2>4 DEF SaveError, NoteOK, Progress, Concluded, Delivered, Miscounted, Retries, Http
  <2>7. QED
    BY <2>5, <2>6
<1>4. QED
  BY <1>1, <1>2, <1>3

\* A step that only moves a note on, or several to "lost".
LEMMA Moves ==
    ASSUME QueuesOK, RecordsOK, \A m \in Notes : NoteOK(m), UNCHANGED <<kind, redis, memory>>,
           \A m \in Notes : \/ pc'[m] \in {pc[m], "lost"}
                            \/ pc[m] = "queued" /\ pc'[m] = "store"
                            \/ pc[m] = "queued" /\ kind[m] = "incomplete" /\ pc'[m] = "finish"
                            \/ pc[m] = "finish" /\ pc'[m] = "done",
           faults' = faults \/ (faults < MaxFaults /\ faults' = faults + 1)
    PROVE  RecordsOK' /\ \A m \in Notes : NoteOK(m)'
<1>1. faults' \in 0..MaxFaults /\ faults' \in Nat /\ faults' >= faults
  BY FaultType
<1>2. RecordsOK'
  BY <1>1 DEF RecordsOK, redis, memory
<1>3. ASSUME NEW m \in Notes
      PROVE  NoteOK(m)'
  <2>1. CASE pc'[m] \in {pc[m], "lost"}
    BY <1>1, <2>1, Bystander DEF redis, memory
  <2>2. CASE pc'[m] \notin {pc[m], "lost"}
    BY <1>1, <2>2, NoteType DEF NoteOK, Progress, At, Http, Untouched, Concluded, Delivered, Miscounted,
                                Retries, redis, memory
  <2>3. QED
    BY <2>1, <2>2
<1>4. QED
  BY <1>2, <1>3

-----------------------------------------------------------------------------
(* The inductive step *)

LEMMA InitInv == Init => IInv
<1> SUFFICES ASSUME Init PROVE IInv
  OBVIOUS
<1>1. QueuesOK
  BY EmptySeq DEF Init, QueuesOK, Steps
<1>2. RecordsOK
  BY NotificationAssumption DEF Init, RecordsOK, Row, MaxAttempts
<1>3. Placed
  BY EmptySeq DEF Init, Placed, At, Steps
<1>4. ASSUME NEW n \in Notes
      PROVE  NoteOK(n)
  <2>1. /\ pc[n] = "new" /\ tries[n] = 0 /\ sent[n] = 0 /\ result[n] = "none" /\ faults = 0
        /\ row[n].status = "none" /\ row[n].error = FALSE
    BY DEF Init
  <2>2. QED
    BY <2>1 DEF NoteOK, Progress, Untouched, At
<1>5. QED
  BY <1>1, <1>2, <1>3, <1>4, InvParts

\* A notification arrives.
LEMMA ArrivalKeeps ==
    ASSUME IInv, NEW n \in Notes,
           (\E p \in Pods : Submit(n, p)) \/ (\E k \in MessageKinds : Enqueue(n, k))
    PROVE  IInv'
<1> USE DEF redis, memory
<1>1. QueuesOK' /\ Placed'
  BY InvParts, SubmitPlaces, EnqueuePlaces
<1>2. /\ pc[n] = "new" /\ pc'[n] \in {"store", "queued"} /\ faults' = faults
      /\ \A m \in Notes : m # n => pc'[m] = pc[m] /\ kind'[m] = kind[m]
  BY InvParts DEF Submit, Enqueue, At, Goto, QueuesOK
<1>3. UNCHANGED <<redis, memory>>
  BY DEF Submit, Enqueue
<1>4. RecordsOK'
  BY <1>2, <1>3, InvParts DEF RecordsOK
<1>5. NoteOK(n)'
  BY <1>2, <1>3, InvParts, NoteType DEF NoteOK, Progress, Untouched, At, Http
<1>6. Touches(n)
  BY <1>2, <1>3 DEF Touches
<1>7. QED
  BY <1>1, <1>4, <1>5, <1>6, InvParts, OneNote

\* A statement of a handler writes its own notification only.
LEMMA HandlerKeeps ==
    ASSUME IInv, NEW n \in Notes, Handler(n) \/ CountFails(n)
    PROVE  IInv'
<1> USE InvParts
<1>1. CASE Open(n)
  <2>1. At(n, "queued") /\ \E p \in Pods : batch[p] # << >> /\ Head(batch[p]) = n
    BY <1>1 DEF Open
  <2>2. UNCHANGED <<kind, redis, memory>> /\ faults' = faults
    BY <1>1 DEF Open, Skip
  <2>3. CASE kind[n] # "garbled"
    <3>1. /\ Goto(n, IF kind[n] = "incomplete" THEN "finish" ELSE "store")
          /\ UNCHANGED <<kind, host, queues, redis, memory>>
      BY <1>1, <2>3 DEF Open
    <3>2. \A m \in Notes : \/ pc'[m] = pc[m]
                           \/ pc[m] = "queued" /\ pc'[m] = "store"
                           \/ pc[m] = "queued" /\ kind[m] = "incomplete" /\ pc'[m] = "finish"
      BY <2>1, <3>1 DEF Goto, At, QueuesOK
    <3>3. RecordsOK' /\ \A m \in Notes : NoteOK(m)'
      BY <2>2, <3>2, Moves
    <3>4. QueuesOK' /\ Placed'
      BY <2>1, <3>1, GoesOn DEF Steps
    <3>5. QED
      BY <3>3, <3>4
  <2>4. CASE kind[n] = "garbled"
    <3>1. Goto(n, "lost") /\ NextMessage(n) /\ UNCHANGED <<kind, host, stream>> /\ ~Http(n)
      BY <1>1, <2>4 DEF Open, Skip, Http
    <3>2. \A m \in Notes : pc'[m] \in {pc[m], "lost"}
      BY <3>1 DEF Goto, QueuesOK
    <3>3. RecordsOK' /\ \A m \in Notes : NoteOK(m)'
      BY <2>2, <3>2, Moves
    <3>4. QueuesOK' /\ Placed'
      BY <2>1, <3>1, Leaves
    <3>5. QED
      BY <3>3, <3>4
  <2>5. QED
    BY <2>3, <2>4
<1>2. CASE Store(n) \/ Index(n)
  <2>1. RecordsOK' /\ \A m \in Notes : NoteOK(m)'
    BY <1>2, BeforeDelivery, OneNote
  <2>2. QueuesOK' /\ Placed'
    BY <1>2, GoesOn DEF Store, Index, At, Steps
  <2>3. QED
    BY <2>1, <2>2
<1>3. CASE Send(n)
  <2>1. RecordsOK' /\ \A m \in Notes : NoteOK(m)'
    BY <1>3, Delivery, OneNote
  <2>2. \E label \in Steps : Goto(n, label)
    BY <1>3 DEF Send, Retry, Conclude, Steps
  <2>3. QueuesOK' /\ Placed'
    BY <1>3, <2>2, GoesOn DEF Send, At, Steps
  <2>4. QED
    BY <2>1, <2>3
<1>4. CASE Count(n) \/ CountFails(n) \/ Recount(n)
  <2>1. RecordsOK' /\ \A m \in Notes : NoteOK(m)'
    BY <1>4, Counting, OneNote
  <2>2. \E label \in Steps : Goto(n, label)
    BY <1>4 DEF Count, CountFails, Recount, Retry, Conclude, Steps
  <2>3. QueuesOK' /\ Placed'
    BY <1>4, <2>2, GoesOn DEF Count, CountFails, Recount, At, Steps
  <2>4. QED
    BY <2>1, <2>3
<1>5. CASE Settle(n) \/ SaveRetries(n) \/ SaveError(n)
  <2>1. RecordsOK' /\ \A m \in Notes : NoteOK(m)'
    BY <1>5, Settling, OneNote
  <2>2. \E label \in Steps : Goto(n, label)
    BY <1>5 DEF Settle, SaveRetries, SaveError, Steps
  <2>3. QueuesOK' /\ Placed'
    BY <1>5, <2>2, GoesOn DEF Settle, SaveRetries, SaveError, At, Steps
  <2>4. QED
    BY <2>1, <2>3
<1>6. CASE Finish(n)
  <2>1. /\ At(n, "finish") /\ Goto(n, "done") /\ NextMessage(n)
        /\ UNCHANGED <<kind, host, stream, redis, memory, faults>>
    BY <1>6 DEF Finish
  <2>2. \A m \in Notes : pc'[m] = pc[m] \/ (pc[m] = "finish" /\ pc'[m] = "done")
    BY <2>1 DEF Goto, At, QueuesOK
  <2>3. RecordsOK' /\ \A m \in Notes : NoteOK(m)'
    BY <2>1, <2>2, Moves
  <2>4. QueuesOK' /\ Placed'
    BY <2>1, Leaves DEF At, Steps
  <2>5. QED
    BY <2>3, <2>4
<1>7. QED
  BY <1>1, <1>2, <1>3, <1>4, <1>5, <1>6 DEF Handler

\* A fault ends the handlers of one replica, or one message.
LEMMA FaultKeeps ==
    ASSUME IInv, (\E p \in Pods : Crash(p)) \/ (\E n \in Notes : Rejected(n))
    PROVE  IInv'
<1> USE InvParts
<1>1. ASSUME NEW p \in Pods, Dies(p), faults' = faults \/ (faults < MaxFaults /\ faults' = faults + 1)
      PROVE  IInv'
  <2>1. \A m \in Notes : pc'[m] \in {pc[m], "lost"}
    BY <1>1 DEF Dies
  <2>2. UNCHANGED <<kind, redis, memory>>
    BY <1>1 DEF Dies
  <2>3. RecordsOK' /\ \A m \in Notes : NoteOK(m)'
    BY <1>1, <2>1, <2>2, Moves
  <2>4. QED
    BY <1>1, <2>3, DiesAlone
<1>2. ASSUME NEW n \in Notes, Rejected(n), ~Http(n)
      PROVE  IInv'
  <2>1. /\ Goto(n, "lost") /\ NextMessage(n) /\ UNCHANGED <<kind, host, stream, redis, memory>>
        /\ pc[n] \in Steps
        /\ faults' = faults \/ (faults < MaxFaults /\ faults' = faults + 1)
    BY <1>2 DEF Rejected, Skip, Fault
  <2>2. \A m \in Notes : pc'[m] \in {pc[m], "lost"}
    BY <2>1 DEF Goto, QueuesOK
  <2>3. RecordsOK' /\ \A m \in Notes : NoteOK(m)'
    BY <2>1, <2>2, Moves
  <2>4. QueuesOK' /\ Placed'
    BY <2>1, Leaves
  <2>5. QED
    BY <2>3, <2>4
<1>3. ASSUME NEW n \in Notes, Rejected(n), Http(n)
      PROVE  IInv'
  <2>1. Dies(host[n]) /\ (faults' = faults \/ (faults < MaxFaults /\ faults' = faults + 1))
    BY <1>3 DEF Rejected, Fault
  <2>2. host[n] \in Pods
    BY <1>3 DEF Rejected, Placed
  <2>3. QED
    BY <1>1, <2>1, <2>2
<1>4. QED
  BY <1>1, <1>2, <1>3 DEF Crash, Fault

LEMMA ReadKeeps ==
    ASSUME IInv, NEW p \in Pods, Read(p)
    PROVE  IInv'
<1>1. QueuesOK' /\ Placed'
  BY InvParts, ReadPlaces
<1>2. UNCHANGED <<kind, redis, memory>> /\ faults' = faults /\ \A m \in Notes : pc'[m] = pc[m]
  BY DEF Read
<1>3. RecordsOK' /\ \A m \in Notes : NoteOK(m)'
  BY <1>2, InvParts, Moves
<1>4. QED
  BY <1>1, <1>3, InvParts

LEMMA StutterKeeps == IInv /\ UNCHANGED vars => IInv'
<1>1. UNCHANGED vars => /\ UNCHANGED TypeOK /\ UNCHANGED Placed /\ UNCHANGED HonestOutcome
                        /\ UNCHANGED SentOnce /\ UNCHANGED SentIsListed
                        /\ \A n \in Notes : Progress(n)' = Progress(n)
  BY DEF vars, TypeOK, Placed, HonestOutcome, SentOnce, SentIsListed, Progress, At, Http,
         Untouched, Underway, Concluded, Delivered, Miscounted, Retries
<1>2. QED
  BY <1>1 DEF IInv

-----------------------------------------------------------------------------
(* The theorems *)

\* Whatever a replica is interrupted at, every statement finds its message in one place
\* and the record, the list and the attempts it relies on (processMessage, POST).
THEOREM InductiveInvariant == Spec => []IInv
<1>1. IInv /\ [Next]_vars => IInv'
  BY ArrivalKeeps, HandlerKeeps, FaultKeeps, ReadKeeps, StutterKeeps DEF Next
<1>2. QED
  BY <1>1, InitInv, PTL DEF Spec

\* Every variable keeps its type; the message a handler is at is the first of its batch.
THEOREM TypeCorrect == Spec => []TypeOK
<1>1. IInv => TypeOK
  BY DEF IInv
<1>2. QED
  BY <1>1, InductiveInvariant, PTL

\* A final status is true: "delivered" after a delivery, "failed" after three attempts
\* none of which delivered, unless Redis was down between a delivery and its count.
THEOREM HonestOutcomeHolds == Spec => []HonestOutcome
<1>1. IInv => HonestOutcome
  BY DEF IInv
<1>2. QED
  BY <1>1, InductiveInvariant, PTL

\* No message is delivered twice, whatever crashes when; an HTTP request is delivered
\* again only for a rejected count.
THEOREM SentOnceHolds == Spec => []SentOnce
<1>1. IInv => SentOnce
  BY DEF IInv
<1>2. QED
  BY <1>1, InductiveInvariant, PTL

\* What was delivered has its record and is in the incident's list.
THEOREM SentIsListedHolds == Spec => []SentIsListed
<1>1. IInv => SentIsListed
  BY DEF IInv
<1>2. QED
  BY <1>1, InductiveInvariant, PTL

\* A handler that ended leaves the final record: status, retries and error agree.
THEOREM FinalRecordHolds == Spec => []FinalRecord
<1>1. IInv => FinalRecord
  <2>1. ASSUME IInv, NEW n \in Notes, At(n, "done"), kind[n] # "incomplete"
        PROVE  /\ row[n].status \in Outcomes
               /\ row[n].error = (row[n].status = "failed")
               /\ row[n].retryCount = IF row[n].status = "failed" THEN MaxAttempts ELSE tries[n] - 1
    <3>1. /\ Concluded(n) /\ row[n].status = result[n]
          /\ row[n].error = (result[n] = "failed") /\ row[n].retryCount = Retries(n)
      BY <2>1 DEF IInv, Progress, At
    <3>2. QED
      BY <3>1 DEF Concluded, Retries, Outcomes
  <2>2. QED
    BY <2>1 DEF FinalRecord
<1>2. QED
  BY <1>1, InductiveInvariant, PTL
=============================================================================
