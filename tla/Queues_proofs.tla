---------------------------- MODULE Queues_proofs ----------------------------
(***************************************************************************)
(* Lemmas about the queues of NotificationDelivery and RunbookWorker: what *)
(* XADD, XREADGROUP and the loop over a batch do to a sequence.            *)
(***************************************************************************)
EXTENDS Integers, Sequences, SequenceTheorems, TLAPS

\* XREADGROUP takes the first k messages and leaves the others, all in their order.
LEMMA ReadPrefix ==
    ASSUME NEW S, NEW s \in Seq(S), NEW k \in 1..Len(s)
    PROVE  /\ SubSeq(s, 1, k) \in Seq(S)
           /\ Len(SubSeq(s, 1, k)) = k
           /\ \A j \in 1..k : SubSeq(s, 1, k)[j] = s[j]
           /\ SubSeq(s, k + 1, Len(s)) \in Seq(S)
           /\ Len(SubSeq(s, k + 1, Len(s))) = Len(s) - k
           /\ \A j \in 1..(Len(s) - k) : SubSeq(s, k + 1, Len(s))[j] = s[k + j]
<1>1. \A j \in 1..Len(s) : s[j] \in S
  BY ElementOfSeq
<1>2. Len(s) \in Nat
  BY LenProperties
<1>3. /\ SubSeq(s, 1, k) \in Seq(S)
      /\ Len(SubSeq(s, 1, k)) = k
      /\ \A j \in 1..k : SubSeq(s, 1, k)[j] = s[j]
  <2>1. \A j \in 1..k : s[j] \in S
    BY <1>1, <1>2
  <2>2. /\ SubSeq(s, 1, k) \in Seq(S)
        /\ Len(SubSeq(s, 1, k)) = IF 1 <= k THEN k - 1 + 1 ELSE 0
        /\ \A j \in 1..(k - 1 + 1) : SubSeq(s, 1, k)[j] = s[1 + j - 1]
    BY <2>1, SubSeqProperties
  <2>3. QED
    BY <2>2
<1>4. /\ SubSeq(s, k + 1, Len(s)) \in Seq(S)
      /\ Len(SubSeq(s, k + 1, Len(s))) = Len(s) - k
      /\ \A j \in 1..(Len(s) - k) : SubSeq(s, k + 1, Len(s))[j] = s[k + j]
  <2>1. \A j \in (k + 1)..Len(s) : s[j] \in S
    BY <1>1, <1>2
  <2>2. /\ SubSeq(s, k + 1, Len(s)) \in Seq(S)
        /\ Len(SubSeq(s, k + 1, Len(s))) = IF k + 1 <= Len(s) THEN Len(s) - (k + 1) + 1 ELSE 0
        /\ \A j \in 1..(Len(s) - (k + 1) + 1) : SubSeq(s, k + 1, Len(s))[j] = s[(k + 1) + j - 1]
    <3> DEFINE a == k + 1
               b == Len(s)
    <3>1. a \in Int /\ b \in Int /\ \A j \in a..b : s[j] \in S
      BY <1>2, <2>1
    <3> HIDE DEF a, b
    <3>2. /\ SubSeq(s, a, b) \in Seq(S)
          /\ Len(SubSeq(s, a, b)) = IF a <= b THEN b - a + 1 ELSE 0
          /\ \A j \in 1..(b - a + 1) : SubSeq(s, a, b)[j] = s[a + j - 1]
      BY <3>1, SubSeqProperties
    <3>3. QED
      BY <3>2 DEF a, b
  <2>3. ASSUME NEW j \in 1..(Len(s) - k)
        PROVE  SubSeq(s, k + 1, Len(s))[j] = s[k + j]
    <3>1. j \in 1..(Len(s) - (k + 1) + 1) /\ (k + 1) + j - 1 = k + j
      BY <1>2
    <3>2. QED
      BY <2>2, <3>1
  <2>4. QED
    BY <1>2, <2>2, <2>3
<1>5. QED
  BY <1>3, <1>4

\* The loop over a batch goes on to its next message.
LEMMA DropFirst ==
    ASSUME NEW S, NEW s \in Seq(S), s # << >>
    PROVE  /\ Len(s) \in Nat \ {0}
           /\ Head(s) = s[1] /\ s[1] \in S
           /\ Tail(s) \in Seq(S)
           /\ Len(Tail(s)) = Len(s) - 1
           /\ \A j \in 1..(Len(s) - 1) : Tail(s)[j] = s[j + 1] /\ s[j + 1] \in S
<1>1. Len(s) \in Nat \ {0}
  BY EmptySeq, LenProperties
<1>2. \A j \in 1..Len(s) : s[j] \in S
  BY ElementOfSeq
<1>3. QED
  BY <1>1, <1>2, HeadTailProperties

\* XADD appends one message.
LEMMA AppendOne ==
    ASSUME NEW S, NEW s \in Seq(S), NEW x \in S
    PROVE  /\ Append(s, x) \in Seq(S)
           /\ Len(s) \in Nat
           /\ Len(Append(s, x)) = Len(s) + 1
           /\ \A j \in 1..Len(s) : Append(s, x)[j] = s[j] /\ s[j] \in S
           /\ Append(s, x)[Len(s) + 1] = x
  BY AppendProperties, ElementOfSeq, LenProperties

-----------------------------------------------------------------------------
(* Lists that grow at their end: results, reports, commands *)

\* Without its last element an extended list is what it was.
LEMMA FrontOfAppend ==
    ASSUME NEW S, NEW s \in Seq(S), NEW x \in S
    PROVE  SubSeq(Append(s, x), 1, Len(Append(s, x)) - 1) = s
<1> DEFINE t == Append(s, x)
           f == SubSeq(t, 1, Len(t) - 1)
<1>1. /\ t \in Seq(S) /\ Len(s) \in Nat /\ Len(t) = Len(s) + 1
      /\ \A j \in 1..Len(s) : t[j] = s[j] /\ s[j] \in S
  BY AppendOne
<1> HIDE DEF t
<1>2. Len(t) - 1 = Len(s)
  BY <1>1
<1>3. CASE Len(s) = 0
  <2>1. s = << >>
    BY <1>3, EmptySeq
  <2>2. Len(t) - 1 \in Int /\ Len(t) - 1 < 1
    BY <1>1, <1>2, <1>3
  <2>3. f = << >>
    BY <2>2, SubSeqEmpty
  <2>4. QED
    BY <2>1, <2>3 DEF t
<1>4. CASE Len(s) # 0
  <2>1. Len(s) \in 1..Len(t)
    BY <1>1, <1>4
  <2>2. f \in Seq(S) /\ Len(f) = Len(s) /\ \A j \in 1..Len(s) : f[j] = t[j]
    BY <1>1, <1>2, <2>1, ReadPrefix
  <2>3. f = s
    BY <1>1, <2>2, SeqEqual
  <2>4. QED
    BY <2>3 DEF t
<1>5. QED
  BY <1>3, <1>4

\* A list is its front and its last element.
LEMMA FrontAndLast ==
    ASSUME NEW S, NEW s \in Seq(S), s # << >>
    PROVE  /\ SubSeq(s, 1, Len(s) - 1) \in Seq(S)
           /\ Len(SubSeq(s, 1, Len(s) - 1)) = Len(s) - 1
           /\ \A j \in 1..(Len(s) - 1) : SubSeq(s, 1, Len(s) - 1)[j] = s[j]
           /\ Append(SubSeq(s, 1, Len(s) - 1), s[Len(s)]) = s
<1> DEFINE n == Len(s)
           f == SubSeq(s, 1, n - 1)
<1>1. n \in Nat \ {0} /\ \A j \in 1..n : s[j] \in S
  BY DropFirst, ElementOfSeq
<1>2. f \in Seq(S) /\ Len(f) = n - 1 /\ \A j \in 1..(n - 1) : f[j] = s[j]
  <2>1. \A j \in 1..(n - 1) : s[j] \in S
    BY <1>1
  <2>2. n - 1 \in Int
    BY <1>1
  <2> HIDE DEF n
  <2>3. /\ f \in Seq(S) /\ Len(f) = (IF 1 <= n - 1 THEN n - 1 - 1 + 1 ELSE 0)
        /\ \A j \in 1..(n - 1 - 1 + 1) : f[j] = s[1 + j - 1]
    BY <2>1, <2>2, SubSeqProperties
  <2>4. QED
    BY <1>1, <2>3
<1> HIDE DEF f
<1>3. /\ Append(f, s[n]) \in Seq(S) /\ Len(Append(f, s[n])) = n
      /\ \A j \in 1..n : Append(f, s[n])[j] = s[j]
  <2>1. s[n] \in S
    BY <1>1
  <2>2. /\ Append(f, s[n]) \in Seq(S) /\ Len(Append(f, s[n])) = Len(f) + 1
        /\ \A j \in 1..Len(f) : Append(f, s[n])[j] = f[j]
        /\ Append(f, s[n])[Len(f) + 1] = s[n]
    BY <1>2, <2>1, AppendOne
  <2>3. QED
    BY <1>1, <1>2, <2>2
<1>4. Append(f, s[n]) = s
  BY <1>3, SeqEqual
<1>5. QED
  BY <1>2, <1>4 DEF f

\* The whole of a list, and a list with nothing after it.
LEMMA Whole ==
    ASSUME NEW S, NEW s \in Seq(S)
    PROVE  SubSeq(s, 1, Len(s)) = s /\ s \o << >> = s
  BY SubSeqFull, ConcatEmptySeq

\* The second of two lists grows.
LEMMA JoinedAppend ==
    ASSUME NEW S, NEW s \in Seq(S), NEW t \in Seq(S), NEW x \in S
    PROVE  /\ s \o Append(t, x) = Append(s \o t, x)
           /\ s \o t \in Seq(S)
<1>1. <<x>> \in Seq(S) /\ Append(t, x) = t \o <<x>>
  BY AppendIsConcat
<1>2. s \o t \in Seq(S)
  BY ConcatProperties
<1>3. Append(s \o t, x) = (s \o t) \o <<x>>
  BY <1>2, AppendIsConcat
<1>4. QED
  BY <1>1, <1>2, <1>3, ConcatAssociative

\* Two lists, one after the other.
LEMMA Joined ==
    ASSUME NEW S, NEW s \in Seq(S), NEW t \in Seq(S)
    PROVE  /\ s \o t \in Seq(S) /\ Len(s) \in Nat /\ Len(t) \in Nat
           /\ Len(s \o t) = Len(s) + Len(t)
           /\ \A j \in 1..Len(s) : (s \o t)[j] = s[j]
           /\ \A j \in 1..Len(t) : (s \o t)[Len(s) + j] = t[j]
           /\ SubSeq(s \o t, 1, Len(s)) = s
           /\ SubSeq(s \o t, Len(s) + 1, Len(s \o t)) = t
<1> DEFINE a == s \o t
<1>1. /\ a \in Seq(S) /\ Len(s) \in Nat /\ Len(t) \in Nat /\ Len(a) = Len(s) + Len(t)
      /\ \A j \in 1..(Len(s) + Len(t)) : a[j] = IF j <= Len(s) THEN s[j] ELSE t[j - Len(s)]
  BY ConcatProperties, LenProperties
<1>2. /\ \A j \in 1..Len(s) : a[j] = s[j]
      /\ \A j \in 1..Len(t) : a[Len(s) + j] = t[j]
  <2>1. ASSUME NEW j \in 1..Len(s)
        PROVE  a[j] = s[j]
    <3>1. j \in 1..(Len(s) + Len(t)) /\ j <= Len(s)
      BY <1>1
    <3>2. QED
      BY <1>1, <3>1
  <2>2. ASSUME NEW j \in 1..Len(t)
        PROVE  a[Len(s) + j] = t[j]
    <3>1. Len(s) + j \in 1..(Len(s) + Len(t)) /\ ~(Len(s) + j <= Len(s)) /\ (Len(s) + j) - Len(s) = j
      BY <1>1
    <3>2. QED
      BY <1>1, <3>1
  <2>3. QED
    BY <2>1, <2>2
<1>3. SubSeq(a, 1, Len(s)) = s /\ SubSeq(a, Len(s) + 1, Len(a)) = t
  BY SubSeqOfConcat1, SubSeqOfConcat2, Whole
<1>4. QED
  BY <1>1, <1>2, <1>3
=============================================================================
