------------------------------ MODULE OutboxProofs ------------------------------
(***************************************************************************)
(* Proofs about the outbox, its publisher and the consumers of its facts,  *)
(* for any kinds of facts, batch size and number of retries and faults.    *)
(***************************************************************************)
EXTENDS Outbox, FiniteSetTheorems, SequenceTheorems, TLAPS

(* The facts of the batches in hand, with what the publisher may publish   *)
(* and has not: open.  No more attempts at one of those than faults.       *)
Stream(s, end, open, n) ==
    /\ s \in Seq(Batch)
    /\ \A i \in 1..Len(s) :
          /\ s[i].first <= s[i].last /\ s[i].last <= end
          /\ s[i].last = IF i = Len(s) THEN end ELSE s[i + 1].first - 1
          /\ \A f \in InBatch(s[i]) \cap open : s[i].retries <= n

Carried(s, f) == \E i \in 1..Len(s) : f \in InBatch(s[i])
Open == {f \in Facts : kind[f] \in Validated /\ f \notin published}

(* The publisher works on the first batch; what it does not report has     *)
(* been published, and what is open has failed once more.                  *)
PublisherInv ==
    /\ point = "idle" => failures = {}
    /\ point # "idle" => batches # <<>> /\ failures \subseteq InBatch(Head(batches))
    /\ point = "put" => failures = Refused(Head(batches))
    /\ point = "report" =>
          /\ InBatch(Head(batches)) \ failures \subseteq published
          /\ \A f \in InBatch(Head(batches)) \cap Open : Head(batches).retries < faults

OutboxInv ==
    /\ TypeOK
    /\ \E n \in 0..MaxFacts : Written = 1..n
    /\ Stream(batches, taken, Open, faults)
    /\ PublisherInv

(* No fact the stream has handed on is lost track of, and a fact that was  *)
(* discarded open has failed on every attempt.                             *)
Tracked ==
    /\ \A f \in 1..taken : f \in published \/ f \in discarded \/ Carried(batches, f)
    /\ \A f \in discarded \cap Open : RetryAttempts < faults
LossInv == OutboxInv /\ Tracked

-----------------------------------------------------------------------------
(***************************************************************************)
(* Numbers and sequences                                                   *)
(***************************************************************************)
(* A non-empty set of natural numbers has a least element. *)
Below == {pair \in Nat \X Nat : pair[1] < pair[2]}

LEMMA MinIs ==
    ASSUME NEW S \in SUBSET Nat, S # {}
    PROVE  Min(S) \in S /\ \A x \in S : Min(S) <= x
  <1>1. IsWellFoundedOn(Below, Nat)
    BY NatLessThanWellFounded DEF OpToRel, Below
  <1>2. PICK x \in S : \A y \in S : ~ (<<y, x>> \in Below)
    BY <1>1, WFMin
  <1>3. ASSUME NEW y \in S PROVE x <= y
    <2>1. <<y, x>> \in Nat \X Nat /\ <<y, x>>[1] = y /\ <<y, x>>[2] = x
      OBVIOUS
    <2>2. ~ (y < x)
      BY <1>2, <2>1 DEF Below
    <2> QED BY <2>2
  <1> QED BY <1>3 DEF Min

LEMMA LaterFirst ==
    ASSUME NEW b \in Batch, NEW m \in b.first..b.last
    PROVE  LET next == [b EXCEPT !.first = m] IN
           /\ next \in Batch /\ next.first = m /\ next.last = b.last /\ next.retries = b.retries
  BY OutboxConstants DEF Batch, Facts

LEMMA EarlierLast ==
    ASSUME NEW b \in Batch, NEW m \in b.first..b.last
    PROVE  LET next == [b EXCEPT !.last = m] IN
           /\ next \in Batch /\ next.first = b.first /\ next.last = m /\ next.retries = b.retries
  BY OutboxConstants DEF Batch, Facts

(* Deliveries, per failed attempts. *)
Deliveries == [0..AuditRetries -> Nat]

LEMMA OneMore ==
    ASSUME NEW d \in Deliveries, NEW n \in 0..AuditRetries
    PROVE  [d EXCEPT ![n] = @ + 1] \in Deliveries
  BY DEF Deliveries

LEMMA OneLess ==
    ASSUME NEW d \in Deliveries, NEW n \in 0..AuditRetries, d[n] > 0
    PROVE  [d EXCEPT ![n] = @ - 1] \in Deliveries
  BY DEF Deliveries

LEMMA StreamTail ==
    ASSUME NEW s, NEW end \in Nat, NEW open, NEW n, Stream(s, end, open, n), s # <<>>
    PROVE  /\ Stream(Tail(s), end, open, n)
           /\ \A f : Carried(s, f) => f \in InBatch(s[1]) \/ Carried(Tail(s), f)
  <1> DEFINE t == Tail(s)
  <1>1. /\ s \in Seq(Batch) /\ t \in Seq(Batch) /\ Len(s) \in Nat \ {0}
        /\ Len(t) = Len(s) - 1
        /\ \A i \in 1..Len(t) : t[i] = s[i + 1]
    BY HeadTailProperties, EmptySeq DEF Stream
  <1> HIDE DEF t
  <1>2. ASSUME NEW i \in 1..Len(t)
        PROVE  /\ t[i].first <= t[i].last /\ t[i].last <= end
               /\ t[i].last = IF i = Len(t) THEN end ELSE t[i + 1].first - 1
               /\ \A f \in InBatch(t[i]) \cap open : t[i].retries <= n
    <2>1. i + 1 \in 1..Len(s) /\ t[i] = s[i + 1] /\ (i = Len(t) <=> i + 1 = Len(s))
      BY <1>1
    <2>2. i # Len(t) => t[i + 1] = s[i + 1 + 1]
      BY <1>1
    <2> QED BY <2>1, <2>2 DEF Stream
  <1>3. ASSUME NEW f, Carried(s, f), f \notin InBatch(s[1])
        PROVE  Carried(t, f)
    <2>1. PICK i \in 1..Len(s) : f \in InBatch(s[i])
      BY <1>3 DEF Carried
    <2>2. i - 1 \in 1..Len(t) /\ t[i - 1] = s[i]
      BY <1>1, <1>3, <2>1
    <2> QED BY <2>1, <2>2 DEF Carried
  <1> QED BY <1>1, <1>2, <1>3 DEF Stream, t

(* The first batch is replaced by one that ends where it ended. *)
LEMMA StreamRetry ==
    ASSUME NEW s, NEW end \in Nat, NEW open, NEW n, Stream(s, end, open, n), s # <<>>,
           NEW b \in Batch, b.first <= b.last, b.last = s[1].last,
           \A f \in InBatch(b) \cap open : b.retries <= n
    PROVE  /\ Stream(<<b>> \o Tail(s), end, open, n)
           /\ \A f : Carried(s, f) => f \in InBatch(s[1]) \/ Carried(<<b>> \o Tail(s), f)
           /\ \A f \in InBatch(b) : Carried(<<b>> \o Tail(s), f)
  <1> DEFINE t == <<b>> \o Tail(s)
  <1>1. /\ s \in Seq(Batch) /\ Tail(s) \in Seq(Batch) /\ Len(s) \in Nat \ {0}
        /\ Len(Tail(s)) = Len(s) - 1
        /\ \A i \in 1..Len(Tail(s)) : Tail(s)[i] = s[i + 1]
    BY HeadTailProperties, EmptySeq DEF Stream
  <1>2. <<b>> \in Seq(Batch) /\ Len(<<b>>) = 1 /\ <<b>>[1] = b
    OBVIOUS
  <1>3. /\ t \in Seq(Batch) /\ Len(t) = Len(s)
        /\ \A i \in 1..Len(s) : t[i] = IF i <= 1 THEN <<b>>[i] ELSE Tail(s)[i - 1]
    BY <1>1, <1>2, ConcatProperties
  <1>4. t[1] = b /\ \A i \in 2..Len(s) : t[i] = s[i]
    BY <1>1, <1>2, <1>3
  <1> HIDE DEF t
  <1>5. ASSUME NEW i \in 1..Len(t)
        PROVE  /\ t[i].first <= t[i].last /\ t[i].last <= end
               /\ t[i].last = IF i = Len(t) THEN end ELSE t[i + 1].first - 1
               /\ \A f \in InBatch(t[i]) \cap open : t[i].retries <= n
    <2>1. /\ i \in 1..Len(s) /\ s[i].first <= s[i].last /\ s[i].last <= end
          /\ s[i].last = IF i = Len(s) THEN end ELSE s[i + 1].first - 1
          /\ \A f \in InBatch(s[i]) \cap open : s[i].retries <= n
      BY <1>3 DEF Stream
    <2>2. i # Len(t) => t[i + 1] = s[i + 1]
      BY <1>1, <1>3, <1>4
    <2>3. CASE i = 1
      BY <1>3, <1>4, <2>1, <2>2, <2>3
    <2>4. CASE i # 1
      <3>1. t[i] = s[i]
        BY <1>3, <1>4, <2>1, <2>4
      <3> QED BY <1>3, <2>1, <2>2, <3>1
    <2> QED BY <2>3, <2>4
  <1>6. ASSUME NEW f, Carried(s, f), f \notin InBatch(s[1])
        PROVE  Carried(t, f)
    <2>1. PICK i \in 1..Len(s) : f \in InBatch(s[i])
      BY <1>6 DEF Carried
    <2> QED BY <1>1, <1>3, <1>4, <1>6, <2>1 DEF Carried
  <1>7. \A f \in InBatch(b) : Carried(t, f)
    BY <1>1, <1>3, <1>4 DEF Carried
  <1> QED BY <1>3, <1>5, <1>6, <1>7 DEF Stream, t

(* The first batch is cut in two. *)
LEMMA StreamCut ==
    ASSUME NEW s, NEW end \in Nat, NEW open, NEW n, Stream(s, end, open, n), s # <<>>,
           NEW b \in Batch, NEW c \in Batch, b.first = s[1].first, c.last = s[1].last,
           b.first <= b.last, c.first <= c.last, b.last = c.first - 1,
           b.retries = s[1].retries, c.retries = s[1].retries
    PROVE  /\ Stream(<<b, c>> \o Tail(s), end, open, n)
           /\ \A f : Carried(s, f) => Carried(<<b, c>> \o Tail(s), f)
  <1> DEFINE t == <<b, c>> \o Tail(s)
  <1>1. /\ s \in Seq(Batch) /\ Tail(s) \in Seq(Batch) /\ Len(s) \in Nat \ {0}
        /\ Len(Tail(s)) = Len(s) - 1
        /\ \A i \in 1..Len(Tail(s)) : Tail(s)[i] = s[i + 1]
        /\ s[1] \in Batch
    BY HeadTailProperties, EmptySeq, ElementOfSeq DEF Stream
  <1>2. <<b, c>> \in Seq(Batch) /\ Len(<<b, c>>) = 2 /\ <<b, c>>[1] = b /\ <<b, c>>[2] = c
    OBVIOUS
  <1>3. /\ t \in Seq(Batch) /\ Len(t) = Len(s) + 1
        /\ \A i \in 1..(Len(s) + 1) : t[i] = IF i <= 2 THEN <<b, c>>[i] ELSE Tail(s)[i - 2]
    BY <1>1, <1>2, ConcatProperties
  <1>4. t[1] = b /\ t[2] = c /\ \A i \in 3..(Len(s) + 1) : t[i] = s[i - 1]
    BY <1>1, <1>2, <1>3
  <1> HIDE DEF t
  <1>5. \A f : f \in InBatch(s[1]) <=> f \in InBatch(b) \/ f \in InBatch(c)
    BY <1>1 DEF InBatch, Batch, Facts
  <1>6. ASSUME NEW i \in 1..Len(t)
        PROVE  /\ t[i].first <= t[i].last /\ t[i].last <= end
               /\ t[i].last = IF i = Len(t) THEN end ELSE t[i + 1].first - 1
               /\ \A f \in InBatch(t[i]) \cap open : t[i].retries <= n
    <2>a. /\ s[1].first <= s[1].last /\ s[1].last <= end
          /\ s[1].last = IF 1 = Len(s) THEN end ELSE s[2].first - 1
          /\ \A f \in InBatch(s[1]) \cap open : s[1].retries <= n
      <3>1. 1 \in 1..Len(s) /\ 1 + 1 = 2
        BY <1>1
      <3> QED BY <3>1 DEF Stream
    <2>1. CASE i = 1
      <3>1. t[i].last <= end
        <4>1. b.last \in Nat /\ c.first \in Nat /\ c.last \in Nat
          BY DEF Batch, Facts
        <4>2. c.last <= end
          BY <2>a
        <4>3. b.last <= end
          BY <4>1, <4>2
        <4> QED BY <1>4, <2>1, <4>3
      <3>2. t[i].last = IF i = Len(t) THEN end ELSE t[i + 1].first - 1
        BY <1>1, <1>3, <1>4, <2>1
      <3>3. \A f \in InBatch(t[i]) \cap open : t[i].retries <= n
        BY <1>4, <1>5, <2>1, <2>a
      <3> QED BY <1>4, <2>1, <3>1, <3>2, <3>3
    <2>2. CASE i = 2
      <3>0. Len(t) # 2 => Len(s) # 1 /\ t[3] = s[2]
        <4>1. Len(t) # 2 => 3 \in 3..(Len(s) + 1)
          BY <1>1, <1>3
        <4> QED BY <1>1, <1>3, <1>4, <4>1
      <3>1. t[i].last = IF i = Len(t) THEN end ELSE t[i + 1].first - 1
        BY <1>1, <1>3, <1>4, <2>2, <2>a, <3>0
      <3>2. \A f \in InBatch(t[i]) \cap open : t[i].retries <= n
        BY <1>4, <1>5, <2>2, <2>a
      <3> QED BY <1>4, <2>2, <2>a, <3>1, <3>2
    <2>3. CASE i > 2
      <3>1. i - 1 \in 1..Len(s) /\ t[i] = s[i - 1] /\ (i = Len(t) <=> i - 1 = Len(s))
        BY <1>1, <1>3, <1>4, <2>3
      <3>2. i # Len(t) => t[i + 1] = s[i - 1 + 1]
        BY <1>1, <1>3, <1>4, <2>3
      <3> QED BY <3>1, <3>2 DEF Stream
    <2> QED BY <1>1, <1>3, <2>1, <2>2, <2>3
  <1>7. ASSUME NEW f, Carried(s, f)
        PROVE  Carried(t, f)
    <2>1. PICK i \in 1..Len(s) : f \in InBatch(s[i])
      BY <1>7 DEF Carried
    <2>2. CASE i = 1
      BY <1>1, <1>3, <1>4, <1>5, <2>1, <2>2 DEF Carried
    <2>3. CASE i # 1
      <3>1. i + 1 \in 1..Len(t) /\ t[i + 1] = s[i]
        BY <1>1, <1>3, <1>4, <2>3
      <3> QED BY <2>1, <3>1 DEF Carried
    <2> QED BY <2>2, <2>3
  <1> QED BY <1>3, <1>6, <1>7 DEF Stream, t

(* With fewer open facts, or more faults. *)
LEMMA StreamWeaker ==
    ASSUME NEW s, NEW end \in Nat, NEW open, NEW n \in Nat, Stream(s, end, open, n),
           NEW less, less \cap (1..end) \subseteq open, NEW m \in Nat, n <= m
    PROVE  Stream(s, end, less, m)
  <1>1. ASSUME NEW i \in 1..Len(s), NEW f \in InBatch(s[i]) \cap less
        PROVE  s[i].retries <= m
    <2>1. s[i] \in Batch /\ s[i].last <= end
      BY ElementOfSeq DEF Stream
    <2>2. f \in 1..end
      BY <2>1 DEF InBatch, Batch, Facts
    <2>3. s[i].retries <= n
      BY <2>2 DEF Stream
    <2> QED BY <2>1, <2>3 DEF Batch
  <1> QED BY <1>1 DEF Stream

-----------------------------------------------------------------------------
(***************************************************************************)
(* The stream and its first batch                                          *)
(***************************************************************************)
LEMMA WrittenIs ==
    ASSUME NEW n \in 0..MaxFacts, Written = 1..n
    PROVE  Cardinality(Written) = n /\ n \in Nat /\ Written \subseteq Facts
  BY FS_Interval, OutboxConstants DEF Facts

LEMMA TakenIsWritten ==
    ASSUME OutboxInv
    PROVE  /\ taken \in Nat /\ faults \in Nat /\ 1..taken \subseteq Written
           /\ Written \subseteq Facts /\ taken \in 0..Cardinality(Written)
  <1>1. PICK n \in 0..MaxFacts : Written = 1..n
    BY DEF OutboxInv
  <1> QED BY <1>1, WrittenIs, OutboxConstants DEF OutboxInv, TypeOK

LEMMA HeadIs ==
    ASSUME OutboxInv, batches # <<>>
    PROVE  LET b == Head(batches) IN
           /\ b = batches[1] /\ b \in Batch /\ b.first <= b.last
           /\ b.first \in Nat /\ b.last \in Nat /\ b.retries \in 0..RetryAttempts
           /\ InBatch(b) \subseteq 1..taken
           /\ \A f \in InBatch(b) \cap Open : b.retries <= faults
  <1>1. batches \in Seq(Batch) /\ 1 \in 1..Len(batches) /\ Head(batches) = batches[1]
    BY EmptySeq DEF OutboxInv, Stream
  <1>2. batches[1] \in Batch
    BY <1>1, ElementOfSeq
  <1>3. batches[1].first <= batches[1].last /\ batches[1].last <= taken
    BY <1>1 DEF OutboxInv, Stream
  <1>4. InBatch(batches[1]) \subseteq 1..taken
    BY <1>2, <1>3, TakenIsWritten DEF InBatch, Batch, Facts
  <1> QED BY <1>1, <1>2, <1>3, <1>4 DEF OutboxInv, Stream, Batch, Facts

(* The stream's part of the types. *)
LEMMA StreamTypes ==
    ASSUME NEW s, NEW end, NEW open, NEW n, Stream(s, end, open, n)
    PROVE  /\ s \in Seq(Batch)
           /\ \A i \in 1..Len(s) :
                 /\ s[i].first <= s[i].last
                 /\ s[i].last = IF i = Len(s) THEN end ELSE s[i + 1].first - 1
  BY DEF Stream

(* What is tried again or discarded: nothing published is lost track of,   *)
(* and what is open has failed on every attempt.                           *)
LEMMA TriedAgain ==
    ASSUME OutboxInv, batches # <<>>,
           NEW next \in Batch, next.first <= next.last, next.last = Head(batches).last,
           Head(batches).first <= next.first, next.retries = Head(batches).retries,
           TryAgain(Head(batches), next), NEW n \in Nat, faults <= n,
           \A f \in InBatch(Head(batches)) \cap Open : Head(batches).retries < n
    PROVE  /\ Stream(batches', taken, Open, n)
           /\ discarded \subseteq discarded' /\ discarded' \subseteq discarded \cup InBatch(next)
           /\ \A f : Carried(batches, f) =>
                 \/ Carried(batches', f) \/ f \in InBatch(Head(batches)) \ InBatch(next)
                 \/ f \in discarded'
           /\ \A f \in (discarded' \ discarded) \cap Open : RetryAttempts < n
  <1> DEFINE b == Head(batches)
  <1>1. /\ b = batches[1] /\ b \in Batch /\ b.retries \in 0..RetryAttempts
        /\ b.first \in Nat /\ b.last \in Nat
    BY HeadIs
  <1>2. /\ taken \in Nat /\ faults \in Nat /\ Stream(batches, taken, Open, faults)
        /\ RetryAttempts \in Nat
    BY TakenIsWritten, OutboxConstants DEF OutboxInv
  <1>3. Stream(batches, taken, Open, n)
    BY <1>2, StreamWeaker
  <1>4. InBatch(next) \subseteq InBatch(b)
    BY <1>1 DEF InBatch, Batch, Facts
  <1> HIDE DEF b
  <1>5. CASE b.retries < RetryAttempts
    <2> DEFINE again == [next EXCEPT !.retries = @ + 1]
    <2>1. batches' = <<again>> \o Tail(batches) /\ discarded' = discarded
      BY <1>5 DEF TryAgain, b
    <2>2. /\ again \in Batch /\ again.first = next.first /\ again.last = next.last
          /\ again.retries = b.retries + 1
      BY <1>1, <1>2, <1>5 DEF Batch, b
    <2> HIDE DEF again
    <2>3. InBatch(again) = InBatch(next)
      BY <2>2 DEF InBatch
    <2>4. \A f \in InBatch(again) \cap Open : again.retries <= n
      BY <1>1, <1>4, <2>2, <2>3 DEF b
    <2>5. again.first <= again.last /\ again.last = batches[1].last
      BY <1>1, <2>2 DEF b
    <2>6. /\ Stream(<<again>> \o Tail(batches), taken, Open, n)
          /\ \A f : Carried(batches, f) =>
                f \in InBatch(batches[1]) \/ Carried(<<again>> \o Tail(batches), f)
          /\ \A f \in InBatch(again) : Carried(<<again>> \o Tail(batches), f)
      BY <1>2, <1>3, <2>2, <2>4, <2>5, StreamRetry
    <2> QED BY <1>1, <2>1, <2>3, <2>6 DEF b
  <1>6. CASE ~ (b.retries < RetryAttempts)
    <2>1. batches' = Tail(batches) /\ discarded' = discarded \cup InBatch(next)
      BY <1>6 DEF TryAgain, b
    <2>2. b.retries = RetryAttempts
      BY <1>1, <1>2, <1>6
    <2>3. /\ Stream(Tail(batches), taken, Open, n)
          /\ \A f : Carried(batches, f) => f \in InBatch(batches[1]) \/ Carried(Tail(batches), f)
      BY <1>2, <1>3, StreamTail
    <2> QED BY <1>1, <1>4, <2>1, <2>2, <2>3 DEF b
  <1> QED BY <1>5, <1>6

-----------------------------------------------------------------------------
(***************************************************************************)
(* The steps                                                               *)
(***************************************************************************)
(* What a step that writes no fact has to show. *)
StreamNext == Stream(batches', taken', Open', faults')
TypesNext ==
    /\ taken' \in 0..Cardinality(Written)
    /\ point' \in {"idle", "put", "report"}
    /\ failures' \subseteq Written /\ published' \subseteq Written /\ discarded' \subseteq Written
    /\ due' \in [Facts -> [0..AuditRetries -> Nat]] /\ audit' \in [Facts -> {0, 1}]
    /\ faults' \in 0..MaxFaults

LEMMA StepKeeps ==
    ASSUME LossInv, UNCHANGED kind, StreamNext, Tracked', TypesNext, PublisherInv'
    PROVE  LossInv'
  <1>1. Written' = Written /\ Cardinality(Written)' = Cardinality(Written)
    BY DEF Written
  <1>a. /\ batches' \in Seq(Batch)
        /\ \A i \in 1..Len(batches') :
              /\ batches'[i].first <= batches'[i].last
              /\ batches'[i].last =
                    IF i = Len(batches') THEN taken' ELSE batches'[i + 1].first - 1
    BY StreamTypes DEF StreamNext
  <1>b. kind' \in [Facts -> Kinds \cup {NoKind}]
    BY DEF LossInv, OutboxInv, TypeOK
  <1>2. TypeOK'
    BY <1>1, <1>a, <1>b DEF TypeOK, TypesNext
  <1>3. OutboxInv'
    BY <1>1, <1>2 DEF LossInv, OutboxInv, StreamNext
  <1> QED BY <1>3 DEF LossInv

LEMMA WriteFactKeeps ==
    ASSUME LossInv, NEW k \in Kinds, WriteFact(k)
    PROVE  LossInv'
  <1>a. OutboxInv /\ TypeOK /\ PublisherInv /\ Tracked
    BY DEF LossInv, OutboxInv
  <1>1. PICK n \in 0..MaxFacts : Written = 1..n
    BY <1>a DEF OutboxInv
  <1>2. Cardinality(Written) = n /\ n < MaxFacts /\ n + 1 \in Facts /\ n + 1 \in 0..MaxFacts
    BY <1>1, WrittenIs, OutboxConstants DEF WriteFact, Facts
  <1>3. kind' = [kind EXCEPT ![n + 1] = k] /\ k # NoKind
    BY <1>2, OutboxConstants DEF WriteFact
  <1>4. kind' \in [Facts -> Kinds \cup {NoKind}] /\ \A f \in Facts : f # n + 1 => kind'[f] = kind[f]
    BY <1>2, <1>3, <1>a DEF TypeOK
  <1>5. kind'[n + 1] = k
    BY <1>2, <1>3, <1>a DEF TypeOK
  <1>6. Written' = Written \cup {n + 1}
    BY <1>2, <1>3, <1>4, <1>5 DEF Written
  <1>7. Written' = 1..(n + 1)
    BY <1>1, <1>6
  <1>8. Cardinality(Written') = n + 1
    BY <1>2, <1>7, FS_Interval
  <1>9. /\ taken \in 0..n /\ UNCHANGED <<taken, publisher, published, discarded, consumer, faults>>
        /\ faults \in Nat /\ taken \in Nat
    BY <1>2, <1>a, TakenIsWritten DEF WriteFact
  <1>10. \A f \in 1..taken : f \in Facts /\ kind'[f] = kind[f]
    BY <1>2, <1>4, <1>9, OutboxConstants DEF Facts
  <1>11. Stream(batches', taken', Open', faults')
    <2>1. Open' \cap (1..taken) \subseteq Open
      BY <1>9, <1>10 DEF Open
    <2>2. Stream(batches, taken, Open, faults)
      BY <1>a DEF OutboxInv
    <2> QED BY <1>9, <2>1, <2>2, StreamWeaker DEF publisher
  <1>12. PublisherInv'
    <2>1. batches # <<>> => InBatch(Head(batches)) \subseteq 1..taken
      BY <1>a, HeadIs
    <2>2. batches # <<>> => Refused(Head(batches))' = Refused(Head(batches))
      BY <1>9, <1>10, <2>1 DEF Refused, publisher
    <2>3. batches # <<>> => InBatch(Head(batches)) \cap Open' \subseteq Open
      BY <1>9, <1>10, <2>1 DEF Open
    <2> QED BY <1>9, <1>a, <2>2, <2>3 DEF PublisherInv, publisher
  <1>13. TypeOK'
    <2>1. taken' \in 0..Cardinality(Written')
      BY <1>8, <1>9
    <2> QED BY <1>4, <1>6, <1>9, <1>a, <2>1 DEF TypeOK, publisher, consumer
  <1>14. Tracked'
    <2>1. \A f \in discarded : f \in Facts /\ kind[f] # NoKind
      BY <1>a DEF TypeOK, Written
    <2>2. kind[n + 1] = NoKind
      BY <1>1, <1>2, <1>a DEF TypeOK, Written
    <2>3. discarded \cap Open' \subseteq Open
      BY <1>4, <1>9, <2>1, <2>2 DEF Open
    <2> QED BY <1>9, <1>a, <2>3 DEF Tracked, publisher
  <1>15. n + 1 \in 0..MaxFacts /\ Written' = 1..(n + 1)
    BY <1>2, <1>7
  <1> QED BY <1>11, <1>12, <1>13, <1>14, <1>15 DEF LossInv, OutboxInv

LEMMA TakeBatchKeeps ==
    ASSUME LossInv, TakeBatch
    PROVE  LossInv'
  <1>a. OutboxInv /\ TypeOK /\ PublisherInv /\ Tracked
    BY DEF LossInv, OutboxInv
  <1>1. PICK n \in 1..BatchSize :
           /\ taken + n <= Cardinality(Written) /\ taken' = taken + n
           /\ batches' = <<[first |-> taken + 1, last |-> taken + n, retries |-> 0]>>
    BY DEF TakeBatch
  <1>2. /\ taken \in Nat /\ n \in Nat \ {0} /\ faults \in Nat /\ batches = <<>>
        /\ UNCHANGED <<kind, point, failures, published, discarded, consumer, faults>>
    BY <1>a, TakenIsWritten, OutboxConstants DEF TakeBatch
  <1>3. PICK m \in 0..MaxFacts : Written = 1..m /\ Cardinality(Written) = m
    BY <1>a, WrittenIs DEF OutboxInv
  <1> DEFINE b == [first |-> taken + 1, last |-> taken + n, retries |-> 0]
  <1>4. b \in Batch /\ b.first = taken + 1 /\ b.last = taken + n /\ b.retries = 0
    BY <1>1, <1>2, <1>3, OutboxConstants DEF Batch, Facts
  <1>5. batches' = <<b>>
    BY <1>1
  <1> HIDE DEF b
  <1>6. <<b>> \in Seq(Batch) /\ Len(<<b>>) = 1 /\ <<b>>[1] = b
    BY <1>4
  <1>7. StreamNext
    <2>1. \A i \in 1..Len(<<b>>) : i = 1
      BY <1>6
    <2> QED BY <1>1, <1>2, <1>4, <1>5, <1>6, <2>1 DEF StreamNext, Stream
  <1>8. Tracked'
    <2>1. \A f : ~Carried(batches, f)
      BY <1>2 DEF Carried
    <2>2. \A f \in (taken + 1)..(taken + n) : Carried(<<b>>, f)
      BY <1>2, <1>4, <1>6 DEF Carried, InBatch
    <2>3. \A f \in 1..taken' : f \in 1..taken \/ f \in (taken + 1)..(taken + n)
      BY <1>1, <1>2
    <2> QED BY <1>2, <1>5, <2>1, <2>2, <2>3, <1>a DEF Tracked, Open
  <1>9. TypesNext
    BY <1>1, <1>2, <1>3, <1>a DEF TypesNext, TypeOK, consumer
  <1>10. PublisherInv'
    BY <1>2, <1>a DEF PublisherInv
  <1> QED BY <1>2, <1>7, <1>8, <1>9, <1>10, StepKeeps

LEMMA InvokeKeeps ==
    ASSUME LossInv, Invoke
    PROVE  LossInv'
  <1>a. OutboxInv /\ TypeOK /\ PublisherInv /\ Tracked
    BY DEF LossInv, OutboxInv
  <1>1. /\ batches # <<>> /\ point' = "put" /\ failures' = Refused(Head(batches))
        /\ UNCHANGED <<kind, taken, batches, published, discarded, consumer, faults>>
    BY DEF Invoke
  <1>2. InBatch(Head(batches)) \subseteq 1..taken /\ 1..taken \subseteq Written
    BY <1>1, <1>a, HeadIs, TakenIsWritten
  <1>3. StreamNext
    BY <1>1, <1>a DEF OutboxInv, StreamNext, Open
  <1>4. Tracked'
    BY <1>1, <1>a DEF Tracked, Open
  <1>5. TypesNext
    BY <1>1, <1>2, <1>a DEF TypesNext, TypeOK, consumer, Refused
  <1>6. PublisherInv'
    BY <1>1 DEF PublisherInv, Refused
  <1> QED BY <1>1, <1>3, <1>4, <1>5, <1>6, StepKeeps

LEMMA PutEventsKeeps ==
    ASSUME LossInv, PutEvents
    PROVE  LossInv'
  <1>a. OutboxInv /\ TypeOK /\ PublisherInv /\ Tracked
    BY DEF LossInv, OutboxInv
  <1> DEFINE b == Head(batches)
             sent == InBatch(b) \ failures
  <1>1. PICK accepted \in SUBSET sent, answered \in SUBSET sent :
           /\ \/ accepted = sent /\ answered = sent /\ UNCHANGED faults
              \/ (accepted # sent \/ answered # sent) /\ Fault
           /\ published' = published \cup accepted
           /\ due' = [f \in Facts |->
                 IF f \in accepted /\ kind[f] \in Audited
                 THEN [due[f] EXCEPT ![0] = @ + 1] ELSE due[f]]
           /\ failures' = failures \cup Unpublished(sent, answered, accepted)
    BY DEF PutEvents
  <1>2. /\ point = "put" /\ point' = "report"
        /\ UNCHANGED <<kind, taken, batches, discarded, audit>>
    BY DEF PutEvents
  <1>3. /\ batches # <<>> /\ failures \subseteq InBatch(b) /\ failures = Refused(b)
    BY <1>2, <1>a DEF PublisherInv
  <1>4. /\ InBatch(b) \subseteq 1..taken /\ b.retries \in Nat
        /\ \A f \in InBatch(b) \cap Open : b.retries <= faults
    BY <1>3, <1>a, HeadIs, OutboxConstants
  <1>5. /\ 1..taken \subseteq Written /\ Written \subseteq Facts /\ taken \in Nat /\ faults \in Nat
    BY <1>a, TakenIsWritten
  <1>6. faults' \in Nat /\ faults <= faults' /\ faults' \in 0..MaxFaults
    BY <1>1, <1>5, <1>a, OutboxConstants DEF Fault, TypeOK
  <1>7. failures' \subseteq InBatch(b) /\ accepted \subseteq InBatch(b)
    BY <1>1, <1>3 DEF Unpublished
  <1>8. InBatch(b) \ failures' \subseteq published'
    BY <1>1, <1>3 DEF Unpublished
  <1>9. \A f \in InBatch(b) : kind[f] \in Validated /\ f \notin published' => b.retries < faults'
    <2> SUFFICES ASSUME NEW f \in InBatch(b), kind[f] \in Validated, f \notin published'
                 PROVE  b.retries < faults'
      OBVIOUS
    <2>1. f \in Open /\ f \in sent
      BY <1>1, <1>3, <1>4, <1>5 DEF Open, Refused
    <2>2. faults' = faults + 1
      BY <1>1, <2>1 DEF Fault
    <2> QED BY <1>4, <1>5, <2>1, <2>2
  <1> HIDE DEF b, sent
  <1>10. StreamNext
    <2>1. Open' \subseteq Open
      BY <1>1, <1>2 DEF Open
    <2>2. Stream(batches, taken, Open, faults)
      BY <1>a DEF OutboxInv
    <2> QED BY <1>2, <1>5, <1>6, <2>1, <2>2, StreamWeaker DEF StreamNext
  <1>11. Tracked'
    BY <1>1, <1>2, <1>5, <1>6, <1>a, OutboxConstants DEF Tracked, Open
  <1>12. TypesNext
    <2>1. due' \in [Facts -> [0..AuditRetries -> Nat]]
      <3>1. 0 \in 0..AuditRetries
        BY OutboxConstants
      <3>2. \A f \in Facts : due[f] \in Deliveries /\ [due[f] EXCEPT ![0] = @ + 1] \in Deliveries
        BY <1>a, <3>1, OneMore DEF TypeOK, Deliveries
      <3> QED BY <1>1, <3>2 DEF Deliveries
    <2> QED BY <1>1, <1>2, <1>4, <1>5, <1>6, <1>7, <1>a, <2>1 DEF TypesNext, TypeOK
  <1>13. PublisherInv'
    BY <1>2, <1>3, <1>7, <1>8, <1>9 DEF PublisherInv, Open, b
  <1> QED BY <1>2, <1>10, <1>11, <1>12, <1>13, StepKeeps

LEMMA ReportKeeps ==
    ASSUME LossInv, Report
    PROVE  LossInv'
  <1>a. OutboxInv /\ TypeOK /\ PublisherInv /\ Tracked
    BY DEF LossInv, OutboxInv
  <1> DEFINE b == Head(batches)
             next == [b EXCEPT !.first = Min(failures)]
  <1>1. /\ point = "report" /\ point' = "idle" /\ failures' = {}
        /\ UNCHANGED <<kind, taken, published, consumer, faults>>
        /\ IF failures = {} THEN batches' = Tail(batches) /\ UNCHANGED discarded
                            ELSE TryAgain(b, next)
    BY DEF Report
  <1>2. /\ batches # <<>> /\ failures \subseteq InBatch(b) /\ InBatch(b) \ failures \subseteq published
        /\ \A f \in InBatch(b) \cap Open : b.retries < faults
    BY <1>1, <1>a DEF PublisherInv
  <1>3. /\ b = batches[1] /\ b \in Batch /\ b.first <= b.last /\ b.first \in Nat /\ b.last \in Nat
        /\ InBatch(b) \subseteq 1..taken
    BY <1>2, <1>a, HeadIs
  <1>4. taken \in Nat /\ faults \in Nat /\ 1..taken \subseteq Written /\ Written \subseteq Facts
    BY <1>a, TakenIsWritten
  <1>5. Open' = Open
    BY <1>1 DEF Open
  <1>6. PublisherInv'
    BY <1>1 DEF PublisherInv
  <1>7. CASE failures = {}
    <2>1. /\ Stream(Tail(batches), taken, Open, faults)
          /\ \A f : Carried(batches, f) => f \in InBatch(batches[1]) \/ Carried(Tail(batches), f)
      BY <1>2, <1>4, <1>a, StreamTail DEF OutboxInv
    <2>2. batches' = Tail(batches) /\ discarded' = discarded
      BY <1>1, <1>7
    <2>3. StreamNext
      BY <1>1, <1>5, <2>1, <2>2 DEF StreamNext
    <2>4. Tracked'
      BY <1>1, <1>2, <1>3, <1>5, <1>7, <1>a, <2>1, <2>2 DEF Tracked
    <2>5. TypesNext
      BY <1>1, <1>a, <2>2 DEF TypesNext, TypeOK, consumer
    <2> QED BY <1>1, <1>6, <2>3, <2>4, <2>5, StepKeeps
  <1>8. CASE failures # {}
    <2>1. failures \in SUBSET Nat
      BY <1>2, <1>3 DEF InBatch
    <2>2. Min(failures) \in failures /\ \A f \in failures : Min(failures) <= f
      BY <1>8, <2>1, MinIs
    <2>3. Min(failures) \in b.first..b.last
      BY <1>2, <2>2 DEF InBatch
    <2>4. /\ next \in Batch /\ next.first = Min(failures) /\ next.last = b.last
          /\ next.retries = b.retries
      BY <1>3, <2>3, LaterFirst
    <2>5. TryAgain(b, next)
      BY <1>1, <1>8
    <2> HIDE DEF b, next
    <2>6. next.first <= next.last /\ b.first <= next.first
      BY <1>3, <2>3, <2>4
    <2>7. InBatch(b) \ InBatch(next) \subseteq published
      BY <1>2, <1>3, <2>2, <2>3, <2>4 DEF InBatch
    <2>8. InBatch(next) \subseteq 1..taken
      BY <1>3, <2>3, <2>4 DEF InBatch
    <2>9. /\ Stream(batches', taken, Open, faults)
          /\ discarded \subseteq discarded' /\ discarded' \subseteq discarded \cup InBatch(next)
          /\ \A f : Carried(batches, f) =>
                Carried(batches', f) \/ f \in InBatch(b) \ InBatch(next) \/ f \in discarded'
          /\ \A f \in (discarded' \ discarded) \cap Open : RetryAttempts < faults
      BY <1>2, <1>4, <1>a, <2>4, <2>5, <2>6, TriedAgain DEF b
    <2>10. StreamNext
      BY <1>1, <1>5, <2>9 DEF StreamNext
    <2>11. Tracked'
      BY <1>1, <1>5, <1>a, <2>7, <2>9 DEF Tracked
    <2>12. TypesNext
      BY <1>1, <1>4, <1>a, <2>8, <2>9 DEF TypesNext, TypeOK, consumer
    <2> QED BY <1>1, <1>6, <2>10, <2>11, <2>12, StepKeeps
  <1> QED BY <1>7, <1>8

LEMMA InvocationFailsKeeps ==
    ASSUME LossInv, InvocationFails
    PROVE  LossInv'
  <1>a. OutboxInv /\ TypeOK /\ PublisherInv /\ Tracked
    BY DEF LossInv, OutboxInv
  <1> DEFINE b == Head(batches)
             middle == (b.first + b.last) \div 2
             c == [b EXCEPT !.last = middle]
             d == [b EXCEPT !.first = middle + 1]
  <1>1. /\ point # "idle" /\ Fault /\ point' = "idle" /\ failures' = {}
        /\ UNCHANGED <<kind, taken, published, consumer>>
        /\ IF b.first < b.last
           THEN batches' = <<c, d>> \o Tail(batches) /\ UNCHANGED discarded
           ELSE TryAgain(b, b)
    BY DEF InvocationFails
  <1>2. batches # <<>>
    BY <1>1, <1>a DEF PublisherInv
  <1>3. /\ b = batches[1] /\ b \in Batch /\ b.first <= b.last /\ b.first \in Nat /\ b.last \in Nat
        /\ b.retries \in Nat /\ InBatch(b) \subseteq 1..taken
        /\ \A f \in InBatch(b) \cap Open : b.retries <= faults
    BY <1>2, <1>a, HeadIs, OutboxConstants
  <1>4. taken \in Nat /\ faults \in Nat /\ 1..taken \subseteq Written /\ Written \subseteq Facts
    BY <1>a, TakenIsWritten
  <1>5. faults' = faults + 1 /\ faults' \in 0..MaxFaults
    BY <1>1, <1>4, <1>a, OutboxConstants DEF Fault, TypeOK
  <1>6. Open' = Open
    BY <1>1 DEF Open
  <1>7. PublisherInv'
    BY <1>1 DEF PublisherInv
  <1>8. Stream(batches, taken, Open, faults')
    BY <1>4, <1>5, <1>a, StreamWeaker DEF OutboxInv
  <1>9. CASE b.first < b.last
    <2>1. middle \in b.first..(b.last - 1)
      BY <1>3, <1>9
    <2>2. batches' = <<c, d>> \o Tail(batches) /\ discarded' = discarded
      BY <1>1, <1>9
    <2>3. /\ c \in Batch /\ c.first = b.first /\ c.last = middle /\ c.retries = b.retries
          /\ d \in Batch /\ d.first = middle + 1 /\ d.last = b.last /\ d.retries = b.retries
      <3>1. middle \in b.first..b.last /\ middle + 1 \in b.first..b.last
        BY <1>3, <2>1
      <3> HIDE DEF b, middle
      <3> QED BY <1>3, <3>1, LaterFirst, EarlierLast
    <2> HIDE DEF c, d, middle
    <2>4. c.first <= c.last /\ d.first <= d.last /\ c.last = d.first - 1
      BY <1>3, <2>1, <2>3
    <2>5. /\ Stream(<<c, d>> \o Tail(batches), taken, Open, faults')
          /\ \A f : Carried(batches, f) => Carried(<<c, d>> \o Tail(batches), f)
      BY <1>2, <1>3, <1>4, <1>8, <2>3, <2>4, StreamCut
    <2>6. StreamNext
      BY <1>1, <1>6, <2>2, <2>5 DEF StreamNext
    <2>7. Tracked'
      <3>1. \A f \in 1..taken' : f \in published' \/ f \in discarded' \/ Carried(batches', f)
        BY <1>1, <1>a, <2>2, <2>5 DEF Tracked
      <3>2. \A f \in discarded' \cap Open' : RetryAttempts < faults'
        BY <1>4, <1>5, <1>6, <1>a, <2>2, OutboxConstants DEF Tracked
      <3> QED BY <3>1, <3>2 DEF Tracked
    <2>8. TypesNext
      BY <1>1, <1>5, <1>a, <2>2 DEF TypesNext, TypeOK, consumer
    <2> QED BY <1>1, <1>7, <2>6, <2>7, <2>8, StepKeeps
  <1>10. CASE ~ (b.first < b.last)
    <2>1. TryAgain(b, b)
      BY <1>1, <1>10
    <2>2. \A f \in InBatch(b) \cap Open : b.retries < faults'
      BY <1>3, <1>4, <1>5
    <2>3. /\ Stream(batches', taken, Open, faults')
          /\ discarded \subseteq discarded' /\ discarded' \subseteq discarded \cup InBatch(b)
          /\ \A f : Carried(batches, f) =>
                Carried(batches', f) \/ f \in InBatch(b) \ InBatch(b) \/ f \in discarded'
          /\ \A f \in (discarded' \ discarded) \cap Open : RetryAttempts < faults'
      <3>1. faults <= faults' /\ faults' \in Nat /\ b.first <= b.first
        BY <1>3, <1>4, <1>5
      <3> QED BY <1>2, <1>3, <1>a, <2>1, <2>2, <3>1, TriedAgain
    <2>4. StreamNext
      BY <1>1, <1>6, <2>3 DEF StreamNext
    <2>5. Tracked'
      BY <1>1, <1>4, <1>5, <1>6, <1>a, <2>3, OutboxConstants DEF Tracked
    <2>6. TypesNext
      BY <1>1, <1>3, <1>4, <1>5, <1>a, <2>3 DEF TypesNext, TypeOK, consumer
    <2> QED BY <1>1, <1>7, <2>4, <2>5, <2>6, StepKeeps
  <1> QED BY <1>9, <1>10

(* The consumer's steps leave the stream and the publisher alone. *)
LEMMA ConsumerKeeps ==
    ASSUME LossInv, UNCHANGED <<kind, taken, publisher, published, discarded>>,
           faults' \in 0..MaxFaults, faults <= faults',
           due' \in [Facts -> Deliveries], audit' \in [Facts -> {0, 1}]
    PROVE  LossInv'
  <1>a. OutboxInv /\ TypeOK /\ PublisherInv /\ Tracked /\ Stream(batches, taken, Open, faults)
    BY DEF LossInv, OutboxInv
  <1>1. taken \in Nat /\ faults \in Nat /\ faults' \in Nat
    BY <1>a, TakenIsWritten, OutboxConstants
  <1>2. Open' = Open
    BY DEF Open
  <1>3. StreamNext
    <2>1. Stream(batches, taken, Open, faults')
      BY <1>a, <1>1, StreamWeaker
    <2> QED BY <1>2, <2>1 DEF StreamNext, publisher
  <1>4. Tracked'
    BY <1>1, <1>2, <1>a, OutboxConstants DEF Tracked, publisher
  <1>5. TypesNext
    BY <1>a DEF TypesNext, TypeOK, publisher, Deliveries
  <1>6. PublisherInv'
    <2>1. batches # <<>> => Head(batches).retries \in Nat
      BY <1>a, HeadIs, OutboxConstants
    <2> QED BY <1>1, <1>2, <1>a, <2>1 DEF PublisherInv, publisher, Refused
  <1> QED BY <1>3, <1>4, <1>5, <1>6, StepKeeps

LEMMA DeliveryKeeps ==
    ASSUME LossInv, NEW f \in Facts, NEW n \in 0..AuditRetries,
           Audit(f, n) \/ AuditFails(f, n) \/ DeliverTwice(f, n)
    PROVE  LossInv'
  <1>a. TypeOK
    BY DEF LossInv, OutboxInv
  <1>1. /\ UNCHANGED <<kind, taken, publisher, published, discarded>>
        /\ faults' = faults \/ Fault
        /\ Record(f) \/ UNCHANGED audit
    BY DEF Audit, AuditFails, DeliverTwice
  <1>2. faults' \in 0..MaxFaults /\ faults <= faults'
    BY <1>1, <1>a, OutboxConstants DEF TypeOK, Fault
  <1>3. audit' \in [Facts -> {0, 1}]
    BY <1>1, <1>a DEF TypeOK, Record
  <1>4. /\ due[f] \in Deliveries /\ due[f][n] > 0 /\ due \in [Facts -> Deliveries]
    BY <1>a DEF TypeOK, Deliveries, Audit, AuditFails, DeliverTwice
  <1>5. Consumed(f, n) \in Deliveries
    BY <1>4, OneLess DEF Consumed
  <1>7. CASE AuditFails(f, n)
    <2> DEFINE left == IF n < AuditRetries
                       THEN [Consumed(f, n) EXCEPT ![n + 1] = @ + 1] ELSE Consumed(f, n)
    <2>1. n < AuditRetries => [Consumed(f, n) EXCEPT ![n + 1] = @ + 1] \in Deliveries
      <3>1. n < AuditRetries => n + 1 \in 0..AuditRetries
        BY OutboxConstants
      <3> QED BY <1>5, <3>1, OneMore
    <2>2. left \in Deliveries
      BY <1>5, <2>1
    <2>3. due' = [due EXCEPT ![f] = left]
      BY <1>7 DEF AuditFails
    <2> HIDE DEF left
    <2>4. due' \in [Facts -> Deliveries]
      BY <1>4, <2>2, <2>3
    <2> QED BY <1>1, <1>2, <1>3, <2>4, ConsumerKeeps
  <1>8. CASE DeliverTwice(f, n)
    <2>1. due' = [due EXCEPT ![f] = [due[f] EXCEPT ![n] = @ + 1]]
      BY <1>4, <1>8 DEF DeliverTwice
    <2>2. [due[f] EXCEPT ![n] = @ + 1] \in Deliveries
      BY <1>4, OneMore
    <2>3. due' \in [Facts -> Deliveries]
      BY <1>4, <2>1, <2>2
    <2> QED BY <1>1, <1>2, <1>3, <2>3, ConsumerKeeps
  <1>9. CASE Audit(f, n)
    <2>1. due' \in [Facts -> Deliveries]
      BY <1>4, <1>5, <1>9 DEF Audit
    <2> QED BY <1>1, <1>2, <1>3, <2>1, ConsumerKeeps
  <1> QED BY <1>7, <1>8, <1>9

LEMMA LossStep == LossInv /\ [Next]_vars => LossInv'
  <1> SUFFICES ASSUME LossInv, [Next]_vars PROVE LossInv'
    OBVIOUS
  <1>1. CASE UNCHANGED vars
    <2>1. faults \in 0..MaxFaults /\ due \in [Facts -> Deliveries] /\ audit \in [Facts -> {0, 1}]
      BY DEF LossInv, OutboxInv, TypeOK, Deliveries
    <2>2. faults <= faults
      BY <2>1
    <2> QED BY <1>1, <2>1, <2>2, ConsumerKeeps DEF vars, consumer
  <1>2. CASE Next
    BY <1>2, WriteFactKeeps, TakeBatchKeeps, InvokeKeeps, PutEventsKeeps, ReportKeeps,
       InvocationFailsKeeps, DeliveryKeeps DEF Next, Publisher
  <1> QED BY <1>1, <1>2

LEMMA LossInit == Init => LossInv
  <1> SUFFICES ASSUME Init PROVE LossInv
    OBVIOUS
  <1> USE DEF Init
  <1>1. Written = {} /\ Written = 1..0 /\ 0 \in 0..MaxFacts /\ Cardinality(Written) = 0
    <2>1. Written = {}
      BY DEF Written
    <2>2. 1..0 = {} /\ 0 \in 0..MaxFacts
      BY OutboxConstants
    <2> QED BY <2>1, <2>2, FS_EmptySet
  <1>2. Len(batches) = 0 /\ batches \in Seq(Batch)
    OBVIOUS
  <1>3. TypeOK
    <2>1. kind \in [Facts -> Kinds \cup {NoKind}] /\ audit \in [Facts -> {0, 1}]
      OBVIOUS
    <2>2. due \in [Facts -> [0..AuditRetries -> Nat]]
      OBVIOUS
    <2>3. taken \in 0..Cardinality(Written) /\ faults \in 0..MaxFaults
      BY <1>1, OutboxConstants
    <2>4. failures \subseteq Written /\ published \subseteq Written /\ discarded \subseteq Written
      OBVIOUS
    <2>5. ~ (\E i \in 1..Len(batches) : TRUE)
      BY <1>2
    <2> QED BY <1>2, <2>1, <2>2, <2>3, <2>4, <2>5 DEF TypeOK
  <1>4. Stream(batches, taken, Open, faults)
    BY <1>2 DEF Stream
  <1>5. PublisherInv /\ Tracked
    BY DEF PublisherInv, Tracked
  <1> QED BY <1>1, <1>3, <1>4, <1>5 DEF LossInv, OutboxInv

(* The stream, the publisher's batch and the facts keep track of each      *)
(* other: every fact the stream has handed on is in hand, on the bus or    *)
(* discarded, and one that may be published fails only with a fault.       *)
THEOREM LossHolds == Spec => []LossInv
  BY LossInit, LossStep, PTL DEF Spec

(* The types of the stream, of the publisher and of the deliveries; the    *)
(* batches in hand follow each other and end where the stream has come to. *)
THEOREM TypeIsCorrect == Spec => []TypeOK
  <1>1. LossInv => TypeOK
    BY DEF LossInv, OutboxInv
  <1> QED BY <1>1, LossHolds, PTL

(* Nothing the stream has handed on is lost: not when a batch is cut in    *)
(* two, not when a response ends early or never comes, not behind a fact   *)
(* the publisher refuses; and what may be published reaches the bus or has *)
(* failed on every attempt.                                                *)
THEOREM NothingIsEverLost == Spec => []NothingIsLost
  <1>1. LossInv => NothingIsLost
    <2> SUFFICES ASSUME LossInv, NEW f \in 1..taken
                 PROVE  \/ f \in published \/ f \in InHand
                        \/ f \in discarded /\ (kind[f] \in Validated => faults > RetryAttempts)
      BY DEF NothingIsLost
    <2>1. f \in Facts /\ faults \in Nat
      BY TakenIsWritten DEF LossInv
    <2>2. f \in published \/ f \in InHand \/ f \in discarded
      BY DEF LossInv, Tracked, InHand, Carried
    <2>3. f \in discarded /\ f \notin published /\ kind[f] \in Validated => faults > RetryAttempts
      BY <2>1, OutboxConstants DEF LossInv, Tracked, Open
    <2> QED BY <2>2, <2>3
  <1> QED BY <1>1, LossHolds, PTL
=============================================================================
