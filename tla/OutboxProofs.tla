----------------------------- MODULE OutboxProofs -----------------------------
(***************************************************************************)
(* Proofs about Outbox for every set of entities and publishers, every     *)
(* batch limit and every bound.                                            *)
(***************************************************************************)
EXTENDS Outbox, SequenceTheorems, FiniteSetTheorems, WellFoundedInduction, TLAPS

RowIds == {r.id : r \in rows}

(* An id is drawn once, and an entity's rows commit in the order of ids. *)
Numbered ==
    /\ \A r \in rows : r.id <= sequence
    /\ \A a \in Aggregates : open[a] <= sequence
    /\ \A a \in Aggregates : open[a] # 0 =>
          /\ \A r \in rows : r.id # open[a] /\ (r.agg = a => r.id < open[a])
          /\ \A b \in Aggregates \ {a} : open[b] # open[a]

(* Publishers only handle committed rows. *)
Known ==
    /\ published \subseteq RowIds
    /\ \A i \in Instances : batch[i] \subseteq RowIds
    /\ \A i \in Instances : \A k \in 1 .. Len(buffer[i]) : buffer[i][k] \in RowIds
    /\ \A k \in 1 .. Len(delivered) : delivered[k] \in RowIds

Counted == stops \in Nat /\ breaks \in Nat /\ failures \in Nat

RInv == TypeOK /\ Counted /\ Numbered /\ Known

(* Rows of one entity. *)
Precedes(m, n) ==
    m < n /\ \E r, s \in rows : r.agg = s.agg /\ r.id = m /\ s.id = n

InBuffer(i, m)        == \E k \in 1 .. Len(buffer[i]) : buffer[i][k] = m
BufferedBy(i, l, m)   == \E k \in 1 .. l - 1 : buffer[i][k] = m
DeliveredBy(l, m)     == \E k \in 1 .. l - 1 : delivered[k] = m
Accepted(m)           == Sent(m) \/ \E i \in Instances : InBuffer(i, m)

-----------------------------------------------------------------------------
(* Any number of publishers *)

(* What is marked has been accepted, and so is what a batch leaves behind. *)
MarkedAccepted ==
    /\ \A m \in published : Accepted(m)
    /\ \A i \in Instances : pc[i] = "mark" => Accepted(Current(i))

BatchesClosed ==
    \A i \in Instances, m \in Ids, n \in Ids :
        n \in batch[i] /\ Precedes(m, n) => m \in batch[i] \/ Accepted(m)

(* A connection holds an event back behind a later one of its entity only  *)
(* if another one has it too.                                              *)
BuffersOrdered ==
    \A i \in Instances : \A l \in 1 .. Len(buffer[i]) : \A m \in Ids :
        Precedes(m, buffer[i][l]) =>
            \/ Sent(m) \/ BufferedBy(i, l, m)
            \/ \E j \in Instances \ {i} : InBuffer(j, m)

HeldInv == stops = 0 /\ breaks = 0 => MarkedAccepted /\ BatchesClosed /\ BuffersOrdered

-----------------------------------------------------------------------------
(* One publisher *)

BatchUnpublished == \A i \in Instances : batch[i] \cap published = {}

(* No call failed: the predecessors of what was accepted are marked. *)
PredecessorsMarked ==
    \A i \in Instances, m \in Ids, n \in Ids : Precedes(m, n) =>
        /\ n \in batch[i] => m \in batch[i] \/ m \in published
        /\ InBuffer(i, n) => m \in published
        /\ Sent(n) => m \in published

QueuesSorted ==
    \A i \in Instances, m \in Ids, n \in Ids : Precedes(m, n) =>
        /\ \A k, l \in 1 .. Len(buffer[i]) : buffer[i][k] = m /\ buffer[i][l] = n => k < l
        /\ \A k, l \in 1 .. Len(delivered) : delivered[k] = m /\ delivered[l] = n => k < l
        /\ Sent(n) => ~ InBuffer(i, m)

(* No connection broke: what precedes was accepted before, or is marked    *)
(* and lost.                                                               *)
Lost(m) == m \in published /\ ~ Accepted(m)

PredecessorsFirst ==
    \A i \in Instances, m \in Ids :
        /\ pc[i] = "mark" => Accepted(Current(i))
        /\ \A n \in batch[i] : Precedes(m, n) =>
              m \in batch[i] \/ Accepted(m) \/ m \in published
        /\ \A l \in 1 .. Len(buffer[i]) : Precedes(m, buffer[i][l]) =>
              Sent(m) \/ BufferedBy(i, l, m) \/ Lost(m)
        /\ \A l \in 1 .. Len(delivered) : Precedes(m, delivered[l]) =>
              DeliveredBy(l, m) \/ Lost(m)

OrderInv ==
    /\ BatchUnpublished
    /\ failures = 0 => PredecessorsMarked /\ QueuesSorted
    /\ breaks = 0 => PredecessorsFirst

-----------------------------------------------------------------------------
(* Sets of ids and sequences of ids *)

LEMMA LeastExists ==
    ASSUME NEW S \in SUBSET Nat, S # {}
    PROVE  Min(S) \in S /\ \A y \in S : Min(S) <= y
<1>1. PICK x \in S : \A y \in S : ~ (<<y, x>> \in OpToRel(<, Nat))
  BY NatLessThanWellFounded, WFMin, Zenon
<1>2. \A y \in S : x <= y
  <2> SUFFICES ASSUME NEW y \in S PROVE x <= y
    OBVIOUS
  <2>1. x \in Nat /\ y \in Nat /\ <<y, x>> \in Nat \X Nat
    OBVIOUS
  <2>2. ~ (y < x)
    BY <1>1, <2>1 DEF OpToRel
  <2> QED
    BY <2>1, <2>2
<1> QED
  BY <1>2 DEF Min

(* The row that is handled next is the one of the batch with the least id. *)
LEMMA CurrentIsLeast ==
    ASSUME TypeOK, NEW i \in Instances, batch[i] # {}
    PROVE  Current(i) \in batch[i] /\ \A m \in batch[i] : Current(i) <= m
<1>1. batch[i] \in SUBSET Nat
  BY NumbersAssumption DEF TypeOK, Ids
<1> QED
  BY <1>1, LeastExists DEF Current

(* A batch leaves out no unpublished row below one that it has, and it is  *)
(* empty only if everything is published.                                  *)
LEMMA BatchIsPrefix ==
    ASSUME TypeOK
    PROVE  /\ FirstUnpublished \subseteq Unpublished
           /\ Unpublished # {} => FirstUnpublished # {}
           /\ \A n \in FirstUnpublished, m \in Unpublished :
                  m < n => m \in FirstUnpublished
<1> DEFINE Below(n) == {u \in Unpublished : u < n}
<1>1. Unpublished \subseteq Ids /\ Ids \subseteq Nat /\ MaxRows \in Nat
  BY NumbersAssumption DEF TypeOK, Ids, Unpublished
<1>2. IsFiniteSet(Unpublished)
  <2>1. IsFiniteSet(1 .. MaxRows)
    BY <1>1, FS_Interval
  <2> QED
    BY <1>1, <2>1, FS_Subset DEF Ids
<1>3. \A n : IsFiniteSet(Below(n)) /\ Cardinality(Below(n)) \in Nat
  BY <1>2, FS_Subset, FS_CardinalityType
<1>4. FirstUnpublished \subseteq Unpublished
  BY DEF FirstUnpublished
<1>5. ASSUME Unpublished # {} PROVE FirstUnpublished # {}
  <2>1. Unpublished \in SUBSET Nat
    BY <1>1
  <2>2. PICK x \in Unpublished : \A y \in Unpublished : x <= y
    BY <1>5, <2>1, LeastExists
  <2>3. \A u \in Unpublished : ~ (u < x)
    BY <2>1, <2>2
  <2>4. Below(x) = {}
    BY <2>3
  <2>5. Cardinality(Below(x)) < BatchLimit
    BY <2>4, FS_EmptySet, NumbersAssumption
  <2> QED
    BY <2>2, <2>5 DEF FirstUnpublished
<1>6. ASSUME NEW n \in FirstUnpublished, NEW m \in Unpublished, m < n
      PROVE  m \in FirstUnpublished
  <2>1. \A u \in Unpublished : u < m => u < n
    <3>1. m \in Nat /\ n \in Nat /\ \A u \in Unpublished : u \in Nat
      BY <1>1, <1>4
    <3> QED
      BY <1>6, <3>1
  <2>1a. Below(m) \subseteq Below(n)
    BY <2>1
  <2>2. Cardinality(Below(m)) <= Cardinality(Below(n))
    BY <1>2, <1>3, <2>1a, FS_Subset
  <2>3. Cardinality(Below(n)) < BatchLimit
    BY DEF FirstUnpublished
  <2>4. Cardinality(Below(m)) < BatchLimit
    BY <1>3, <2>2, <2>3, NumbersAssumption
  <2> QED
    BY <2>4 DEF FirstUnpublished
<1> QED
  BY <1>4, <1>5, <1>6

LEMMA Appended ==
    ASSUME NEW S, NEW s \in Seq(S), NEW e \in S
    PROVE  /\ Append(s, e) \in Seq(S) /\ Len(Append(s, e)) = Len(s) + 1
           /\ \A k \in 1 .. Len(s) : Append(s, e)[k] = s[k]
           /\ Append(s, e)[Len(s) + 1] = e
  OBVIOUS

(* t is what remains of s without its first n elements. *)
Drops(t, s, n) ==
    /\ n \in 0 .. Len(s) /\ Len(t) = Len(s) - n
    /\ \A k \in 1 .. Len(t) : t[k] = s[k + n]

LEMMA Shifted ==
    ASSUME NEW s, Len(s) \in Nat, NEW t, NEW n \in Nat, Drops(t, s, n)
    PROVE  /\ Len(t) \in Nat /\ Len(t) <= Len(s)
           /\ \A k \in 1 .. Len(t) : k + n \in 1 .. Len(s) /\ t[k] = s[k + n]
           /\ \A k \in 1 .. Len(s) : k > n => k - n \in 1 .. Len(t) /\ t[k - n] = s[k]
<1>1. PICK x \in Nat, y \in Int : x = Len(s) /\ y = Len(t) /\ y = x - n /\ n <= x
  BY DEF Drops
<1>2. \A k \in 1 .. y : t[k] = s[k + n]
  BY <1>1 DEF Drops
<1>3. ASSUME NEW k \in 1 .. x, k > n PROVE k - n \in 1 .. y /\ t[k - n] = s[k]
  <2>1. k - n \in 1 .. y /\ (k - n) + n = k
    BY <1>1, <1>3
  <2>2. t[k - n] = s[(k - n) + n]
    BY <1>2, <2>1
  <2> QED
    BY <2>1, <2>2
<1> QED
  BY <1>1, <1>2, <1>3

LEMMA Dropped ==
    ASSUME NEW S, NEW s \in Seq(S)
    PROVE  /\ s # <<>> => Head(s) = s[1] /\ Tail(s) \in Seq(S) /\ Drops(Tail(s), s, 1)
           /\ \A n \in 1 .. Len(s) : /\ SubSeq(s, n + 1, Len(s)) \in Seq(S)
                                     /\ Drops(SubSeq(s, n + 1, Len(s)), s, n)
           /\ <<>> \in Seq(S) /\ Drops(<<>>, s, Len(s))
<1>1. s # <<>> => Head(s) = s[1] /\ Tail(s) \in Seq(S) /\ Drops(Tail(s), s, 1)
  BY DEF Drops
<1>2. ASSUME NEW n \in 1 .. Len(s)
      PROVE  /\ SubSeq(s, n + 1, Len(s)) \in Seq(S)
             /\ Drops(SubSeq(s, n + 1, Len(s)), s, n)
  BY DEF Drops
<1>3. <<>> \in Seq(S) /\ Drops(<<>>, s, Len(s))
  BY DEF Drops
<1> QED
  BY <1>1, <1>2, <1>3

(* What steps do to a connection's buffer and to the broker. *)

Others(i) == \A j \in Instances \ {i} : buffer'[j] = buffer[j]

LEMMA Replaced ==
    ASSUME TypeOK, NEW i \in Instances, NEW t \in Seq(Ids),
           buffer' = [buffer EXCEPT ![i] = t]
    PROVE  buffer' \in [Instances -> Seq(Ids)] /\ Others(i) /\ buffer'[i] = t
  BY DEF TypeOK, Others

LEMMA Accepts ==
    ASSUME TypeOK, NEW i \in Instances, Publish(i)
    PROVE  /\ buffer' \in [Instances -> Seq(Ids)] /\ Others(i)
           /\ Current(i) \in batch[i]
           /\ Len(buffer'[i]) = Len(buffer[i]) + 1
           /\ \A k \in 1 .. Len(buffer[i]) : buffer'[i][k] = buffer[i][k]
           /\ buffer'[i][Len(buffer[i]) + 1] = Current(i)
<1> DEFINE c == Current(i)
           t == Append(buffer[i], c)
<1>1. buffer[i] \in Seq(Ids) /\ batch[i] \subseteq Ids /\ batch[i] # {}
  BY DEF TypeOK, Publish
<1>2. c \in batch[i]
  BY <1>1, CurrentIsLeast
<1>3. buffer' = [buffer EXCEPT ![i] = t]
  BY DEF Publish
<1>4. /\ t \in Seq(Ids) /\ Len(t) = Len(buffer[i]) + 1
      /\ \A k \in 1 .. Len(buffer[i]) : t[k] = buffer[i][k]
      /\ t[Len(buffer[i]) + 1] = c
  <2> HIDE DEF c
  <2> QED
    BY <1>1, <1>2, Appended
<1> HIDE DEF c, t
<1>5. buffer' \in [Instances -> Seq(Ids)] /\ Others(i) /\ buffer'[i] = t
  BY <1>3, <1>4, Replaced
<1> QED
  BY <1>2, <1>4, <1>5 DEF c

LEMMA Flushes ==
    ASSUME TypeOK, NEW i \in Instances, Flush(i)
    PROVE  /\ buffer' \in [Instances -> Seq(Ids)] /\ Others(i)
           /\ Drops(buffer'[i], buffer[i], 1)
           /\ 1 \in 1 .. Len(buffer[i])
           /\ delivered' \in Seq(Ids) /\ Len(delivered') = Len(delivered) + 1
           /\ \A k \in 1 .. Len(delivered) : delivered'[k] = delivered[k]
           /\ delivered'[Len(delivered) + 1] = buffer[i][1]
<1> DEFINE b == buffer[i]
           t == Tail(b)
           h == Head(b)
<1>1. b \in Seq(Ids) /\ b # <<>> /\ delivered \in Seq(Ids)
  BY DEF TypeOK, Flush
<1>2. buffer' = [buffer EXCEPT ![i] = t] /\ delivered' = Append(delivered, h)
  BY DEF Flush
<1>3. t \in Seq(Ids) /\ Drops(t, b, 1) /\ h \in Ids /\ h = b[1] /\ 1 \in 1 .. Len(b)
  <2>1. Len(b) \in Nat /\ Len(b) # 0
    BY <1>1
  <2> QED
    BY <1>1, <2>1, Dropped
<1> HIDE DEF t, h
<1>4. buffer' \in [Instances -> Seq(Ids)] /\ Others(i) /\ buffer'[i] = t
  BY <1>2, <1>3, Replaced
<1>5. /\ Append(delivered, h) \in Seq(Ids)
      /\ Len(Append(delivered, h)) = Len(delivered) + 1
      /\ \A k \in 1 .. Len(delivered) : Append(delivered, h)[k] = delivered[k]
      /\ Append(delivered, h)[Len(delivered) + 1] = h
  BY <1>1, <1>3, Appended
<1> QED
  BY <1>2, <1>3, <1>4, <1>5

(* Breaks and stops take the oldest messages of the buffer with them. *)
LEMMA Loses ==
    ASSUME TypeOK, NEW i \in Instances, Disconnect(i) \/ GiveUp(i) \/ Stop(i)
    PROVE  /\ buffer' \in [Instances -> Seq(Ids)] /\ Others(i)
           /\ \E n \in Nat : Drops(buffer'[i], buffer[i], n)
           /\ delivered' = delivered
<1> DEFINE b == buffer[i]
<1>1. b \in Seq(Ids) /\ Len(b) \in Nat
  BY DEF TypeOK
<1>2. CASE Disconnect(i)
  <2>1. PICK n \in 1 .. Len(b) : buffer' = [buffer EXCEPT ![i] = SubSeq(b, n + 1, Len(b))]
    BY <1>2 DEF Disconnect
  <2> DEFINE t == SubSeq(b, n + 1, Len(b))
  <2>2. t \in Seq(Ids) /\ Drops(t, b, n) /\ n \in Nat
    BY <1>1, Dropped
  <2> HIDE DEF t
  <2>3. buffer' \in [Instances -> Seq(Ids)] /\ Others(i) /\ buffer'[i] = t
    BY <2>1, <2>2, Replaced DEF t
  <2> QED
    BY <1>2, <2>2, <2>3 DEF Disconnect
<1>3. CASE GiveUp(i) \/ Stop(i)
  <2>1. buffer' = [buffer EXCEPT ![i] = <<>>] /\ delivered' = delivered
    BY <1>3 DEF GiveUp, Stop
  <2>2. <<>> \in Seq(Ids) /\ Drops(<<>>, b, Len(b))
    BY <1>1, Dropped
  <2>3. buffer' \in [Instances -> Seq(Ids)] /\ Others(i) /\ buffer'[i] = <<>>
    BY <2>1, <2>2, Replaced
  <2> QED
    BY <1>1, <2>1, <2>2, <2>3
<1> QED
  BY <1>2, <1>3

-----------------------------------------------------------------------------
(* Types, and what the tables know *)

LEMMA InitRows == ASSUME Init PROVE RInv
<1>1. TypeOK /\ Counted
  BY NumbersAssumption DEF Init, TypeOK, Counted, Ids
<1>2. Numbered /\ Known
  BY DEF Init, Numbered, Known, RowIds
<1> QED
  BY <1>1, <1>2 DEF RInv

LEMMA StepKeepsTypes ==
    ASSUME RInv, [Next]_vars
    PROVE  (TypeOK /\ Counted)'
<1> USE DEF RInv
<1>1. ASSUME NEW a \in Aggregates, DrawId(a) PROVE (TypeOK /\ Counted)'
  BY <1>1, NumbersAssumption DEF DrawId, TypeOK, Counted, counts, Ids
<1>2. ASSUME NEW a \in Aggregates, CommitRow(a) \/ RollbackRow(a)
      PROVE  (TypeOK /\ Counted)'
  <2>1. PICK new \in SUBSET [id : Ids, agg : Aggregates] : End(a, new)
    <3>1. open[a] # 0 => open[a] \in Ids
      BY NumbersAssumption DEF TypeOK, Ids
    <3>2. ASSUME CommitRow(a)
          PROVE  \E new \in SUBSET [id : Ids, agg : Aggregates] : End(a, new)
      <4>1. open[a] # 0 /\ End(a, {[id |-> open[a], agg |-> a]})
        BY <3>2 DEF CommitRow, End
      <4>2. {[id |-> open[a], agg |-> a]} \in SUBSET [id : Ids, agg : Aggregates]
        BY <3>1, <4>1
      <4> QED
        BY <4>1, <4>2
    <3>3. RollbackRow(a) => \E new \in SUBSET [id : Ids, agg : Aggregates] : End(a, new)
      BY DEF RollbackRow
    <3> QED
      BY <1>2, <3>2, <3>3
  <2> QED
    BY <2>1, NumbersAssumption DEF End, TypeOK, Counted, counts, Ids
<1>3. ASSUME NEW i \in Instances, Start(i) PROVE (TypeOK /\ Counted)'
  BY <1>3, NumbersAssumption DEF Start, TypeOK, Counted, counts, tables
<1>4. ASSUME NEW i \in Instances, Poll(i) PROVE (TypeOK /\ Counted)'
  <2>1. FirstUnpublished \subseteq Ids /\ FirstUnpublished # {}
    BY <1>4, BatchIsPrefix DEF Poll, TypeOK, Unpublished
  <2> QED
    BY <1>4, <2>1 DEF Poll, TypeOK, Counted, counts, tables
<1>5. ASSUME NEW i \in Instances, Publish(i) PROVE (TypeOK /\ Counted)'
  <2>1. buffer' \in [Instances -> Seq(Ids)]
    BY <1>5, Accepts
  <2> QED
    BY <1>5, <2>1 DEF Publish, TypeOK, Counted, counts, tables
<1>6. ASSUME NEW i \in Instances, PublishRefused(i) PROVE (TypeOK /\ Counted)'
  BY <1>6 DEF PublishRefused, Refuses, CountFailure, TypeOK, Counted, counts, tables
<1>7. ASSUME NEW i \in Instances, Mark(i) \/ MarkFails(i)
      PROVE  (TypeOK /\ Counted)'
  <2>1. Current(i) \in Ids /\ Current(i) \in batch[i]
    BY <1>7, CurrentIsLeast DEF Mark, MarkFails, TypeOK
  <2>2. published' \subseteq Ids /\ Counted'
    BY <1>7, <2>1 DEF Mark, MarkFails, CountFailure, TypeOK, Counted, counts
  <2>3. /\ batch' = [batch EXCEPT ![i] = @ \ {Current(i)}]
        /\ pc' = [pc EXCEPT ![i] = IF batch[i] = {Current(i)} THEN "idle" ELSE "publish"]
        /\ UNCHANGED <<tables, nc, buffer, delivered>>
    BY <1>7 DEF Mark, MarkFails, NextInBatch
  <2> QED
    BY <2>1, <2>2, <2>3 DEF TypeOK, tables
<1>8. ASSUME NEW i \in Instances, Flush(i) PROVE (TypeOK /\ Counted)'
  <2>1. buffer' \in [Instances -> Seq(Ids)] /\ delivered' \in Seq(Ids)
    BY <1>8, Flushes
  <2> QED
    BY <1>8, <2>1 DEF Flush, TypeOK, Counted, counts, tables
<1>9. ASSUME NEW i \in Instances, Disconnect(i) \/ GiveUp(i) \/ Stop(i)
      PROVE  (TypeOK /\ Counted)'
  <2>1. buffer' \in [Instances -> Seq(Ids)] /\ delivered' = delivered
    BY <1>9, Loses
  <2>2. Disconnect(i) => (TypeOK /\ Counted)'
    BY <2>1 DEF Disconnect, CountBreak, TypeOK, Counted, tables
  <2>3. GiveUp(i) => (TypeOK /\ Counted)'
    BY <2>1 DEF GiveUp, CountBreak, TypeOK, Counted, tables
  <2>4. Stop(i) => (TypeOK /\ Counted)'
    BY <2>1 DEF Stop, CountStop, TypeOK, Counted, tables
  <2> QED
    BY <1>9, <2>2, <2>3, <2>4
<1>10. CASE UNCHANGED vars
  BY <1>10 DEF vars, counts, TypeOK, Counted
<1> QED
  BY <1>1, <1>2, <1>3, <1>4, <1>5, <1>6, <1>7, <1>8, <1>9, <1>10 DEF Next, Step

(* Publishers, connections and instances leave the write path alone. *)
PublisherStep(i) ==
    Step(i) \/ MarkFails(i) \/ Flush(i) \/ Disconnect(i) \/ GiveUp(i) \/ Stop(i)

LEMMA TablesKept ==
    ASSUME NEW i \in Instances, PublisherStep(i) PROVE UNCHANGED tables
<1>1. Step(i) => UNCHANGED tables
  BY DEF Step, Start, Poll, Publish, PublishRefused, Refuses, Mark
<1> QED
  BY <1>1 DEF PublisherStep, MarkFails, Flush, Disconnect, GiveUp, Stop

(* What Publishers see of the write path's steps. *)
WriteStep(a) == DrawId(a) \/ CommitRow(a) \/ RollbackRow(a)

LEMMA PublishersKept ==
    ASSUME NEW a \in Aggregates, WriteStep(a)
    PROVE  UNCHANGED <<published, pc, nc, batch, buffer, delivered, counts>>
  BY DEF WriteStep, DrawId, CommitRow, RollbackRow, End

LEMMA NextSplits ==
    ASSUME [Next]_vars
    PROVE  \/ \E a \in Aggregates : WriteStep(a)
           \/ \E i \in Instances : PublisherStep(i)
           \/ UNCHANGED vars
  BY DEF Next, WriteStep, PublisherStep

LEMMA StepKeepsNumbers ==
    ASSUME RInv, [Next]_vars
    PROVE  Numbered'
<1> USE DEF RInv
<1>1. ASSUME NEW a \in Aggregates, DrawId(a) PROVE Numbered'
  <2>1. sequence \in Nat /\ \A r \in rows : r.id \in Nat
    BY NumbersAssumption DEF TypeOK, Ids
  <2>2. \A b \in Aggregates : open[b] \in Nat
    BY NumbersAssumption DEF TypeOK
  <2>3. /\ sequence' = sequence + 1 /\ rows' = rows
        /\ open'[a] = sequence + 1 /\ \A b \in Aggregates \ {a} : open'[b] = open[b]
    BY <1>1 DEF DrawId, TypeOK
  <2>4. \A r \in rows : r.id <= sequence
    BY DEF Numbered
  <2>5. \A b \in Aggregates : open[b] <= sequence
    BY DEF Numbered
  <2>6. \A r \in rows' : r.id <= sequence'
    BY <2>1, <2>3, <2>4
  <2>7. \A b \in Aggregates : open'[b] <= sequence'
    BY <2>1, <2>2, <2>3, <2>5
  <2>8. ASSUME NEW b \in Aggregates, open'[b] # 0
        PROVE  /\ \A r \in rows : r.id # open'[b] /\ (r.agg = b => r.id < open'[b])
               /\ \A d \in Aggregates \ {b} : open'[d] # open'[b]
    BY <2>1, <2>2, <2>3, <2>4, <2>5, <2>8 DEF Numbered
  <2> QED
    BY <2>3, <2>6, <2>7, <2>8 DEF Numbered
<1>2. ASSUME NEW a \in Aggregates, CommitRow(a) \/ RollbackRow(a) PROVE Numbered'
  <2>1. PICK new : End(a, new) /\ \A r \in new : r.id = open[a] /\ r.agg = a
    BY <1>2 DEF CommitRow, RollbackRow
  <2>2. /\ open[a] # 0 /\ rows' = rows \cup new /\ sequence' = sequence
        /\ open'[a] = 0 /\ \A b \in Aggregates \ {a} : open'[b] = open[b]
    BY <2>1 DEF End, TypeOK
  <2>3. \A b \in Aggregates : open'[b] <= sequence'
    <3>1. sequence \in Nat /\ \A b \in Aggregates : open[b] <= sequence
      BY NumbersAssumption DEF Numbered, TypeOK
    <3> QED
      BY <2>2, <3>1
  <2>4. \A r \in rows' : r.id <= sequence'
    BY <2>1, <2>2 DEF Numbered
  <2>5. ASSUME NEW b \in Aggregates, open'[b] # 0
        PROVE  /\ \A r \in rows' : r.id # open'[b] /\ (r.agg = b => r.id < open'[b])
               /\ \A d \in Aggregates \ {b} : open'[d] # open'[b]
    <3>1. b # a /\ open'[b] = open[b]
      BY <2>2, <2>5
    <3>2. \A r \in rows : r.id # open[b] /\ (r.agg = b => r.id < open[b])
      BY <2>5, <3>1 DEF Numbered
    <3>3. \A d \in Aggregates \ {b} : open[d] # open[b]
      BY <2>5, <3>1 DEF Numbered
    <3> QED
      BY <2>1, <2>2, <2>5, <3>1, <3>2, <3>3
  <2> QED
    BY <2>3, <2>4, <2>5 DEF Numbered
<1>3. ASSUME NEW i \in Instances, PublisherStep(i) PROVE Numbered'
  BY <1>3, TablesKept DEF tables, Numbered
<1>4. CASE UNCHANGED vars
  BY <1>4 DEF vars, Numbered
<1> QED
  BY <1>1, <1>2, <1>3, <1>4, NextSplits DEF WriteStep

LEMMA StepKeepsKnown ==
    ASSUME RInv, [Next]_vars
    PROVE  Known'
<1> USE DEF RInv
<1>1. ASSUME NEW a \in Aggregates, WriteStep(a) PROVE Known'
  <2>1. RowIds \subseteq RowIds'
    BY <1>1 DEF WriteStep, DrawId, CommitRow, RollbackRow, End, RowIds
  <2> QED
    BY <1>1, <2>1, PublishersKept DEF Known
<1>2. ASSUME NEW i \in Instances, PublisherStep(i) PROVE Known'
  <2>1. RowIds' = RowIds
    BY <1>2, TablesKept DEF tables, RowIds
  <2>2. batch \in [Instances -> SUBSET Ids] /\ buffer \in [Instances -> Seq(Ids)]
    BY DEF TypeOK
  <2>3. CASE Start(i)
    BY <2>1, <2>3 DEF Start, Known
  <2>4. CASE Poll(i)
    <3>1. FirstUnpublished \subseteq RowIds
      BY BatchIsPrefix DEF Unpublished, RowIds
    <3> QED
      BY <2>1, <2>2, <2>4, <3>1 DEF Poll, Known
  <2>5. CASE Publish(i)
    <3>1. /\ Others(i) /\ Current(i) \in batch[i]
          /\ Len(buffer'[i]) = Len(buffer[i]) + 1
          /\ \A k \in 1 .. Len(buffer[i]) : buffer'[i][k] = buffer[i][k]
          /\ buffer'[i][Len(buffer[i]) + 1] = Current(i)
      BY <2>5, Accepts
    <3>2. Len(buffer[i]) \in Nat
      BY <2>2
    <3>3. \A k \in 1 .. Len(buffer'[i]) : buffer'[i][k] \in RowIds
      BY <3>1, <3>2 DEF Known
    <3>4. \A j \in Instances : \A k \in 1 .. Len(buffer'[j]) : buffer'[j][k] \in RowIds
      BY <3>1, <3>3 DEF Known, Others
    <3>5. batch' = batch /\ published' = published /\ delivered' = delivered
      BY <2>5 DEF Publish
    <3> QED
      BY <2>1, <3>4, <3>5 DEF Known
  <2>6. CASE PublishRefused(i)
    BY <2>1, <2>2, <2>6 DEF PublishRefused, Known
  <2>7. CASE Mark(i) \/ MarkFails(i)
    <3>1. Current(i) \in batch[i]
      BY <2>7, CurrentIsLeast DEF Mark, MarkFails, TypeOK
    <3>2. /\ batch' = [batch EXCEPT ![i] = @ \ {Current(i)}]
          /\ published' \subseteq published \cup {Current(i)}
          /\ buffer' = buffer /\ delivered' = delivered
      BY <2>7 DEF Mark, MarkFails, NextInBatch
    <3> QED
      BY <2>1, <2>2, <3>1, <3>2 DEF Known
  <2>8. CASE Flush(i)
    <3>1. /\ Others(i) /\ Drops(buffer'[i], buffer[i], 1) /\ 1 \in 1 .. Len(buffer[i])
          /\ Len(delivered') = Len(delivered) + 1
          /\ \A k \in 1 .. Len(delivered) : delivered'[k] = delivered[k]
          /\ delivered'[Len(delivered) + 1] = buffer[i][1]
      BY <2>8, Flushes
    <3>2. Len(buffer[i]) \in Nat /\ Len(delivered) \in Nat
      BY <2>2 DEF TypeOK
    <3>3. \A k \in 1 .. Len(buffer'[i]) : buffer'[i][k] \in RowIds
      BY <3>1, <3>2 DEF Known, Drops
    <3>4. \A j \in Instances : \A k \in 1 .. Len(buffer'[j]) : buffer'[j][k] \in RowIds
      BY <3>1, <3>3 DEF Known, Others
    <3>5. \A k \in 1 .. Len(delivered') : delivered'[k] \in RowIds
      BY <3>1, <3>2 DEF Known
    <3>6. batch' = batch /\ published' = published
      BY <2>8 DEF Flush
    <3> QED
      BY <2>1, <3>4, <3>5, <3>6 DEF Known
  <2>9. CASE Disconnect(i) \/ GiveUp(i) \/ Stop(i)
    <3>1. PICK n \in Nat : Drops(buffer'[i], buffer[i], n)
      BY <2>9, Loses
    <3>2. Others(i) /\ delivered' = delivered
      BY <2>9, Loses
    <3>3. Len(buffer[i]) \in Nat
      BY <2>2
    <3>4. \A k \in 1 .. Len(buffer'[i]) : buffer'[i][k] \in RowIds
      BY <3>1, <3>3 DEF Known, Drops
    <3>5. \A j \in Instances : \A k \in 1 .. Len(buffer'[j]) : buffer'[j][k] \in RowIds
      BY <3>2, <3>4 DEF Known, Others
    <3>6. published' = published /\ \A j \in Instances : batch'[j] \subseteq batch[j]
      BY <2>2, <2>9 DEF Disconnect, GiveUp, Stop
    <3> QED
      BY <2>1, <3>2, <3>5, <3>6 DEF Known
  <2> QED
    BY <1>2, <2>3, <2>4, <2>5, <2>6, <2>7, <2>8, <2>9 DEF PublisherStep, Step
<1>3. CASE UNCHANGED vars
  BY <1>3 DEF vars, Known, RowIds
<1> QED
  BY <1>1, <1>2, <1>3, NextSplits

LEMMA StepKeepsRows ==
    ASSUME RInv, [Next]_vars PROVE RInv'
  BY StepKeepsTypes, StepKeepsNumbers, StepKeepsKnown DEF RInv

(* What precedes a committed row has been committed before it. *)
LEMMA NothingPrecedesLater ==
    ASSUME RInv, [Next]_vars, NEW m, NEW n \in RowIds, Precedes(m, n)'
    PROVE  Precedes(m, n)
<1>1. m < n /\ \E r, s \in rows' : r.agg = s.agg /\ r.id = m /\ s.id = n
  BY DEF Precedes
<1>2. PICK r \in rows', s \in rows' : r.agg = s.agg /\ r.id = m /\ s.id = n
  BY <1>1
<1>3. r \in rows /\ s \in rows
  <2>1. CASE rows' = rows
    BY <2>1
  <2>2. ASSUME NEW a \in Aggregates, CommitRow(a) PROVE r \in rows /\ s \in rows
    <3>1. open[a] # 0 /\ rows' = rows \cup {[id |-> open[a], agg |-> a]}
      BY <2>2 DEF CommitRow, End
    <3>2. \A x \in rows : x.id # open[a] /\ (x.agg = a => x.id < open[a])
      BY <3>1 DEF RInv, Numbered
    <3>3. s \in rows
      BY <1>2, <3>1, <3>2 DEF RowIds
    <3>4. CASE r \notin rows
      <4>1. r.id = open[a] /\ r.agg = a /\ s.agg = a
        BY <1>2, <3>1, <3>4
      <4>2. s.id < open[a] /\ open[a] < s.id
        BY <1>1, <1>2, <3>2, <3>3, <4>1
      <4>3. open[a] \in Int /\ s.id \in Int
        BY <3>3 DEF RInv, TypeOK, Ids
      <4> QED
        BY <4>2, <4>3
    <3> QED
      BY <3>3, <3>4
  <2>3. (\E a \in Aggregates : CommitRow(a)) \/ rows' = rows
    <3>1. \A a \in Aggregates : DrawId(a) \/ RollbackRow(a) => rows' = rows
      BY DEF DrawId, RollbackRow, End
    <3>2. \A i \in Instances : PublisherStep(i) => rows' = rows
      BY TablesKept DEF tables
    <3>3. UNCHANGED vars => rows' = rows
      BY DEF vars
    <3> QED
      BY <3>1, <3>2, <3>3, NextSplits DEF WriteStep
  <2> QED
    BY <2>1, <2>2, <2>3
<1> QED
  BY <1>1, <1>2, <1>3 DEF Precedes

LEMMA CountsGrow ==
    ASSUME RInv, [Next]_vars
    PROVE  /\ stops' = 0 => stops = 0
           /\ breaks' = 0 => breaks = 0
           /\ failures' = 0 => failures = 0
<1>1. stops \in Nat /\ breaks \in Nat /\ failures \in Nat
  BY DEF RInv, Counted
<1>2. UNCHANGED counts \/ CountFailure \/ CountStop \/ CountBreak
  <2>1. ASSUME NEW i \in Instances, PublisherStep(i)
        PROVE  UNCHANGED counts \/ CountFailure \/ CountStop \/ CountBreak
    <3>1. Step(i) => UNCHANGED counts \/ CountFailure
      BY DEF Step, Start, Poll, Publish, PublishRefused, Refuses, Mark
    <3> QED
      BY <2>1, <3>1 DEF PublisherStep, MarkFails, Flush, Disconnect, GiveUp, Stop
  <2> QED
    BY <2>1, NextSplits, PublishersKept DEF vars
<1> QED
  BY <1>1, <1>2 DEF counts, CountFailure, CountStop, CountBreak

(* What an accepted message turns into. *)
LEMMA PublishAccepts ==
    ASSUME RInv, NEW i \in Instances, Publish(i), NEW m
    PROVE  /\ Sent(m)' <=> Sent(m)
           /\ \A j \in Instances \ {i} : InBuffer(j, m)' <=> InBuffer(j, m)
           /\ InBuffer(i, m)' <=> InBuffer(i, m) \/ m = Current(i)
<1>1. /\ Others(i) /\ Current(i) \in batch[i]
      /\ Len(buffer'[i]) = Len(buffer[i]) + 1
      /\ \A k \in 1 .. Len(buffer[i]) : buffer'[i][k] = buffer[i][k]
      /\ buffer'[i][Len(buffer[i]) + 1] = Current(i)
  BY Accepts DEF RInv
<1>2. Len(buffer[i]) \in Nat /\ delivered' = delivered
  BY DEF RInv, TypeOK, Publish
<1>3. PICK l \in Nat : l = Len(buffer[i])
  BY <1>2
<1>4. InBuffer(i, m)' <=> InBuffer(i, m) \/ m = Current(i)
  <2>1. 1 .. Len(buffer'[i]) = 1 .. l \cup {l + 1}
    BY <1>1, <1>3
  <2> QED
    BY <1>1, <1>3, <2>1 DEF InBuffer
<1> QED
  BY <1>1, <1>2, <1>4 DEF Others, InBuffer, Sent

LEMMA FlushAccepts ==
    ASSUME RInv, NEW i \in Instances, Flush(i), NEW m
    PROVE  /\ Sent(m)' <=> Sent(m) \/ m = buffer[i][1]
           /\ \A j \in Instances \ {i} : InBuffer(j, m)' <=> InBuffer(j, m)
           /\ InBuffer(i, m) <=> m = buffer[i][1] \/ InBuffer(i, m)'
<1>1. /\ Others(i) /\ Drops(buffer'[i], buffer[i], 1) /\ 1 \in 1 .. Len(buffer[i])
      /\ delivered' \in Seq(Ids) /\ Len(delivered') = Len(delivered) + 1
      /\ \A k \in 1 .. Len(delivered) : delivered'[k] = delivered[k]
      /\ delivered'[Len(delivered) + 1] = buffer[i][1]
  BY Flushes DEF RInv
<1>2. delivered \in Seq(Ids) /\ Len(buffer[i]) \in Nat
  BY DEF RInv, TypeOK
<1>3. Sent(m)' <=> Sent(m) \/ m = buffer[i][1]
  <2>1. Len(delivered) \in Nat
    BY <1>2
  <2>2. DOMAIN delivered' = DOMAIN delivered \cup {Len(delivered) + 1}
    BY <1>1, <1>2
  <2>3. DOMAIN delivered = 1 .. Len(delivered)
    BY <1>2
  <2> QED
    BY <1>1, <2>2, <2>3 DEF Sent
<1>4. InBuffer(i, m) => m = buffer[i][1] \/ InBuffer(i, m)'
  <2> SUFFICES ASSUME NEW k \in 1 .. Len(buffer[i]), buffer[i][k] = m, k # 1
               PROVE  InBuffer(i, m)'
    BY DEF InBuffer
  <2>1. k - 1 \in 1 .. Len(buffer'[i]) /\ buffer'[i][k - 1] = buffer[i][k]
    BY <1>1, <1>2, Shifted
  <2> QED
    BY <2>1 DEF InBuffer
<1>5. InBuffer(i, m)' => InBuffer(i, m)
  <2> SUFFICES ASSUME NEW k \in 1 .. Len(buffer'[i]), buffer'[i][k] = m
               PROVE  InBuffer(i, m)
    BY DEF InBuffer
  <2>1. k + 1 \in 1 .. Len(buffer[i]) /\ buffer[i][k + 1] = m
    BY <1>1, <1>2, Shifted
  <2> QED
    BY <2>1 DEF InBuffer
<1> QED
  BY <1>1, <1>3, <1>4, <1>5 DEF Others, InBuffer

-----------------------------------------------------------------------------
(* Any number of publishers: nothing is passed over *)

LEMMA InitHeld == ASSUME Init PROVE HeldInv
  BY DEF Init, HeldInv, MarkedAccepted, BatchesClosed, BuffersOrdered

LEMMA WriteKeepsHeld ==
    ASSUME RInv, HeldInv, stops = 0, breaks = 0, [Next]_vars,
           NEW a \in Aggregates, WriteStep(a)
    PROVE  (MarkedAccepted /\ BatchesClosed /\ BuffersOrdered)'
<1>1. UNCHANGED <<published, pc, nc, batch, buffer, delivered, counts>>
  BY PublishersKept
<1>2. \A n \in RowIds : \A m : Precedes(m, n)' => Precedes(m, n)
  BY NothingPrecedesLater
<1>3. MarkedAccepted'
  BY <1>1 DEF HeldInv, MarkedAccepted, Accepted, Sent, InBuffer, Current
<1>4. BatchesClosed'
  <2> SUFFICES ASSUME NEW i \in Instances, NEW m \in Ids, NEW n \in Ids,
                      n \in batch[i], Precedes(m, n)'
               PROVE  m \in batch[i] \/ Accepted(m)
    BY <1>1 DEF BatchesClosed, Accepted, Sent, InBuffer
  <2>1. n \in RowIds
    BY DEF RInv, Known
  <2> QED
    BY <1>2, <2>1 DEF HeldInv, BatchesClosed
<1>5. BuffersOrdered'
  <2> SUFFICES ASSUME NEW i \in Instances, NEW l \in 1 .. Len(buffer[i]), NEW m \in Ids,
                      Precedes(m, buffer[i][l])'
               PROVE  \/ Sent(m) \/ BufferedBy(i, l, m)
                      \/ \E j \in Instances \ {i} : InBuffer(j, m)
    BY <1>1 DEF BuffersOrdered, Sent, InBuffer, BufferedBy
  <2>1. buffer[i][l] \in RowIds
    BY DEF RInv, Known
  <2>2. Precedes(m, buffer[i][l])
    <3>1. PICK n : n = buffer[i][l]
      OBVIOUS
    <3>2. Precedes(m, n)'
      BY <1>1, <3>1 DEF Precedes
    <3> QED
      BY <1>2, <2>1, <3>1, <3>2
  <2> QED
    BY <2>2 DEF HeldInv, BuffersOrdered
<1> QED
  BY <1>3, <1>4, <1>5

LEMMA PublisherKeepsHeld ==
    ASSUME RInv, HeldInv, stops = 0, breaks = 0,
           NEW i \in Instances, Step(i) \/ MarkFails(i) \/ Flush(i)
    PROVE  (MarkedAccepted /\ BatchesClosed /\ BuffersOrdered)'
<1> DEFINE c == Current(i)
<1>0. /\ batch \in [Instances -> SUBSET Ids] /\ buffer \in [Instances -> Seq(Ids)]
      /\ pc \in [Instances -> {"stopped", "idle", "publish", "mark"}]
  BY DEF RInv, TypeOK
<1>1. MarkedAccepted /\ BatchesClosed /\ BuffersOrdered
  BY DEF HeldInv
<1>2. \A m, n : Precedes(m, n)' <=> Precedes(m, n)
  BY TablesKept DEF PublisherStep, tables, Precedes
<1>3. ASSUME UNCHANGED <<buffer, delivered>>, NEW b \in SUBSET Ids,
             batch' = [batch EXCEPT ![i] = b],
             \A j \in Instances \ {i} : pc'[j] = pc[j], pc'[i] # "mark",
             \A m \in published' : Accepted(m),
             \A n \in b, m \in Ids : Precedes(m, n) => m \in b \/ Accepted(m)
      PROVE  (MarkedAccepted /\ BatchesClosed /\ BuffersOrdered)'
  <2>1. \A m : Accepted(m)' <=> Accepted(m)
    BY <1>3 DEF Accepted, Sent, InBuffer
  <2>2. MarkedAccepted'
    <3>1. \A j \in Instances \ {i} : Current(j)' = Current(j)
      BY <1>0, <1>3 DEF Current
    <3> QED
      BY <1>1, <1>3, <2>1, <3>1 DEF MarkedAccepted
  <2>3. BatchesClosed'
    BY <1>0, <1>1, <1>2, <1>3, <2>1 DEF BatchesClosed
  <2>4. BuffersOrdered'
    BY <1>1, <1>2, <1>3 DEF BuffersOrdered, Sent, InBuffer, BufferedBy
  <2> QED
    BY <2>2, <2>3, <2>4
<1>4. CASE Start(i)
  <2>1. batch' = [batch EXCEPT ![i] = batch[i]]
    BY <1>0, <1>4 DEF Start
  <2> QED
    BY <1>0, <1>1, <1>3, <1>4, <2>1 DEF Start, MarkedAccepted, BatchesClosed
<1>5. CASE Poll(i)
  <2> DEFINE b == FirstUnpublished
  <2>1. b \subseteq Unpublished /\ Unpublished \subseteq Ids
    BY BatchIsPrefix DEF RInv, TypeOK, Unpublished
  <2>2. ASSUME NEW n \in b, NEW m \in Ids, Precedes(m, n) PROVE m \in b \/ Accepted(m)
    <3>1. m \in RowIds /\ m < n
      BY <2>2 DEF Precedes, RowIds
    <3>2. CASE m \in published
      BY <1>1, <3>2 DEF MarkedAccepted
    <3>3. CASE m \notin published
      <4>1. m \in Unpublished
        BY <3>1, <3>3 DEF Unpublished, RowIds
      <4> QED
        BY <3>1, <4>1, BatchIsPrefix DEF RInv
    <3> QED
      BY <3>2, <3>3
  <2>3. /\ batch' = [batch EXCEPT ![i] = b] /\ pc' = [pc EXCEPT ![i] = "publish"]
        /\ UNCHANGED <<published, buffer, delivered>>
    BY <1>5 DEF Poll
  <2> HIDE DEF b
  <2> QED
    BY <1>0, <1>1, <1>3, <2>1, <2>2, <2>3 DEF MarkedAccepted
<1>6. CASE PublishRefused(i)
  <2>1. /\ batch' = [batch EXCEPT ![i] = {}] /\ pc' = [pc EXCEPT ![i] = "idle"]
        /\ UNCHANGED <<published, buffer, delivered>>
    BY <1>6 DEF PublishRefused
  <2>2. pc'[i] # "mark" /\ \A j \in Instances \ {i} : pc'[j] = pc[j]
    BY <1>0, <2>1
  <2>3. \A m \in published' : Accepted(m)
    BY <1>1, <2>1 DEF MarkedAccepted
  <2>4. {} \in SUBSET Ids
    OBVIOUS
  <2> QED
    BY <1>3, <2>1, <2>2, <2>3, <2>4
<1>7. CASE Mark(i) \/ MarkFails(i)
  <2> DEFINE b == batch[i] \ {c}
  <2>1. pc[i] = "mark" /\ UNCHANGED <<buffer, delivered>>
    BY <1>7 DEF Mark, MarkFails
  <2>2. Accepted(c) /\ b \subseteq Ids
    BY <1>0, <1>1, <2>1 DEF MarkedAccepted
  <2>3. /\ batch' = [batch EXCEPT ![i] = b] /\ pc'[i] # "mark"
        /\ \A j \in Instances \ {i} : pc'[j] = pc[j]
    BY <1>0, <1>7 DEF Mark, MarkFails, NextInBatch
  <2>4. published' \subseteq published \cup {c}
    BY <1>7 DEF Mark, MarkFails
  <2>5. \A n \in b, m \in Ids : Precedes(m, n) => m \in b \/ Accepted(m)
    BY <1>0, <1>1, <2>2 DEF BatchesClosed
  <2>6. \A m \in published' : Accepted(m)
    BY <1>1, <2>2, <2>4 DEF MarkedAccepted
  <2> HIDE DEF b, c
  <2> QED
    BY <1>3, <2>1, <2>2, <2>3, <2>5, <2>6
<1>8. CASE Publish(i)
  <2>1. /\ Others(i) /\ c \in batch[i] /\ Len(buffer'[i]) = Len(buffer[i]) + 1
        /\ \A k \in 1 .. Len(buffer[i]) : buffer'[i][k] = buffer[i][k]
        /\ buffer'[i][Len(buffer[i]) + 1] = c
    BY <1>8, Accepts DEF RInv
  <2>2. \A m : /\ Sent(m)' <=> Sent(m)
               /\ \A j \in Instances \ {i} : InBuffer(j, m)' <=> InBuffer(j, m)
               /\ InBuffer(i, m)' <=> InBuffer(i, m) \/ m = c
    BY <1>8, PublishAccepts
  <2>3. batch' = batch /\ published' = published /\ pc' = [pc EXCEPT ![i] = "mark"]
    BY <1>8 DEF Publish
  <2>4. \A j \in Instances : Current(j)' = Current(j)
    BY <2>3 DEF Current
  <2>5. \A m \in batch[i] : c <= m
    BY <2>1, CurrentIsLeast DEF RInv
  <2> HIDE DEF c
  <2>6. \A m : Accepted(m) \/ m = c => Accepted(m)'
    BY <2>2 DEF Accepted
  <2>7. MarkedAccepted'
    BY <1>0, <1>1, <2>3, <2>4, <2>6 DEF MarkedAccepted, c
  <2>8. BatchesClosed'
    BY <1>1, <1>2, <2>3, <2>6 DEF BatchesClosed
  <2>9. ASSUME NEW j \in Instances, NEW l \in 1 .. Len(buffer'[j]), NEW m \in Ids,
               Precedes(m, buffer[j][l])'
        PROVE  \/ Sent(m)' \/ BufferedBy(j, l, m)'
               \/ \E x \in Instances \ {j} : InBuffer(x, m)'
    <3>1. PICK n : n = buffer'[j][l]
      OBVIOUS
    <3>2. Precedes(m, n)
      BY <1>2, <2>9, <3>1 DEF Precedes
    <3>3. CASE l \in 1 .. Len(buffer[j]) /\ n = buffer[j][l]
      <4>1. \/ Sent(m) \/ BufferedBy(j, l, m)
            \/ \E x \in Instances \ {j} : InBuffer(x, m)
        BY <1>1, <3>2, <3>3 DEF BuffersOrdered
      <4>2. BufferedBy(j, l, m) => BufferedBy(j, l, m)'
        <5>1. \A k \in 1 .. l - 1 : k \in 1 .. Len(buffer[j])
          BY <1>0, <3>3
        <5>2. \A k \in 1 .. Len(buffer[j]) : buffer'[j][k] = buffer[j][k]
          BY <2>1 DEF Others
        <5> QED
          BY <5>1, <5>2 DEF BufferedBy
      <4> QED
        BY <2>2, <4>1, <4>2
    <3>4. CASE j = i /\ n = c /\ l = Len(buffer[i]) + 1
      <4>1. m \in batch[i] \/ Accepted(m)
        BY <1>0, <1>1, <2>1, <3>2, <3>4 DEF BatchesClosed
      <4>2. m \notin batch[i]
        BY <2>1, <2>5, <1>0, <3>2, <3>4 DEF Precedes, Ids
      <4>3. InBuffer(i, m) => BufferedBy(i, l, m)'
        <5>1. 1 .. l - 1 = 1 .. Len(buffer[i])
          BY <1>0, <3>4
        <5> QED
          BY <2>1, <5>1 DEF InBuffer, BufferedBy
      <4> QED
        BY <2>2, <3>4, <4>1, <4>2, <4>3 DEF Accepted
    <3>5. \/ l \in 1 .. Len(buffer[j]) /\ n = buffer[j][l]
          \/ j = i /\ n = c /\ l = Len(buffer[i]) + 1
      <4>1. j # i => buffer'[j] = buffer[j]
        BY <2>1 DEF Others
      <4>2. j = i => l \in 1 .. Len(buffer[i]) \/ l = Len(buffer[i]) + 1
        BY <1>0, <2>1
      <4> QED
        BY <2>1, <3>1, <4>1, <4>2
    <3> QED
      BY <3>3, <3>4, <3>5
  <2> QED
    BY <2>7, <2>8, <2>9 DEF BuffersOrdered
<1>9. CASE Flush(i)
  <2>1. /\ Others(i) /\ Drops(buffer'[i], buffer[i], 1)
        /\ batch' = batch /\ published' = published /\ pc' = pc
    BY <1>9, Flushes DEF RInv, Flush
  <2>2. \A m : /\ Sent(m) => Sent(m)'
               /\ \A j \in Instances \ {i} : InBuffer(j, m)' <=> InBuffer(j, m)
               /\ InBuffer(i, m) => Sent(m)' \/ InBuffer(i, m)'
    BY <1>9, FlushAccepts
  <2>3. \A j \in Instances : Current(j)' = Current(j)
    BY <2>1 DEF Current
  <2>4. \A m : Accepted(m) => Accepted(m)'
    BY <2>2 DEF Accepted
  <2>5. MarkedAccepted'
    BY <1>1, <2>1, <2>3, <2>4 DEF MarkedAccepted
  <2>6. BatchesClosed'
    BY <1>1, <1>2, <2>1, <2>4 DEF BatchesClosed
  <2>7. ASSUME NEW j \in Instances, NEW l \in 1 .. Len(buffer'[j]), NEW m \in Ids,
               Precedes(m, buffer[j][l])'
        PROVE  \/ Sent(m)' \/ BufferedBy(j, l, m)'
               \/ \E x \in Instances \ {j} : InBuffer(x, m)'
    <3>1. PICK n : n = buffer'[j][l]
      OBVIOUS
    <3>2. Precedes(m, n)
      BY <1>2, <2>7, <3>1 DEF Precedes
    <3>3. CASE j # i
      <4>1. buffer'[j] = buffer[j]
        BY <2>1, <3>3 DEF Others
      <4>2. \/ Sent(m) \/ BufferedBy(j, l, m)
            \/ \E x \in Instances \ {j} : InBuffer(x, m)
        BY <1>1, <3>1, <3>2, <4>1 DEF BuffersOrdered
      <4>3. BufferedBy(j, l, m) => BufferedBy(j, l, m)'
        BY <4>1 DEF BufferedBy
      <4>4. ASSUME NEW x \in Instances \ {j}, InBuffer(x, m)
            PROVE  Sent(m)' \/ InBuffer(x, m)'
        BY <2>2, <4>4
      <4> QED
        BY <2>2, <4>2, <4>3, <4>4
    <3>4. CASE j = i
      <4>1. l + 1 \in 1 .. Len(buffer[i]) /\ n = buffer[i][l + 1]
        BY <1>0, <2>1, <3>1, <3>4, Shifted
      <4>2. \/ Sent(m) \/ BufferedBy(i, l + 1, m)
            \/ \E x \in Instances \ {i} : InBuffer(x, m)
        BY <1>1, <3>2, <4>1 DEF BuffersOrdered
      <4>3. BufferedBy(i, l + 1, m) => Sent(m)' \/ BufferedBy(i, l, m)'
        <5> SUFFICES ASSUME NEW k \in 1 .. l + 1 - 1, buffer[i][k] = m
                     PROVE  Sent(m)' \/ BufferedBy(i, l, m)'
          BY DEF BufferedBy
        <5>1. l \in Nat /\ Len(buffer[i]) \in Nat /\ k \in 1 .. Len(buffer[i])
          BY <1>0, <4>1
        <5>2. CASE k = 1
          BY <1>9, <5>2, FlushAccepts
        <5>3. CASE k # 1
          <6>1. k - 1 \in 1 .. l - 1 /\ buffer'[i][k - 1] = m
            BY <2>1, <5>1, <5>3, Shifted
          <6> QED
            BY <6>1 DEF BufferedBy
        <5> QED
          BY <5>2, <5>3
      <4> QED
        BY <2>2, <3>4, <4>2, <4>3
    <3> QED
      BY <3>3, <3>4
  <2> QED
    BY <2>5, <2>6, <2>7 DEF BuffersOrdered
<1> QED
  BY <1>4, <1>5, <1>6, <1>7, <1>8, <1>9 DEF Step

LEMMA StepKeepsHeld ==
    ASSUME RInv, HeldInv, [Next]_vars
    PROVE  HeldInv'
<1> SUFFICES ASSUME stops' = 0, breaks' = 0
             PROVE  (MarkedAccepted /\ BatchesClosed /\ BuffersOrdered)'
  BY DEF HeldInv
<1>1. stops = 0 /\ breaks = 0
  BY CountsGrow
<1>2. ASSUME NEW a \in Aggregates, WriteStep(a)
      PROVE  (MarkedAccepted /\ BatchesClosed /\ BuffersOrdered)'
  BY <1>1, <1>2, WriteKeepsHeld
<1>3. ASSUME NEW i \in Instances, PublisherStep(i)
      PROVE  (MarkedAccepted /\ BatchesClosed /\ BuffersOrdered)'
  <2>1. ~ (Disconnect(i) \/ GiveUp(i) \/ Stop(i))
    BY <1>1 DEF Disconnect, GiveUp, Stop, CountBreak, CountStop
  <2> QED
    BY <1>1, <1>3, <2>1, PublisherKeepsHeld DEF PublisherStep
<1>4. CASE UNCHANGED vars
  BY <1>1, <1>4 DEF HeldInv, vars, MarkedAccepted, BatchesClosed, BuffersOrdered, Accepted,
                    Sent, InBuffer, BufferedBy, Current, Precedes
<1> QED
  BY <1>2, <1>3, <1>4, NextSplits

-----------------------------------------------------------------------------
(* One publisher: what precedes comes first *)

LEMMA InitOrder == ASSUME Init PROVE OrderInv
<1>1. /\ \A i \in Instances : batch[i] = {} /\ buffer[i] = <<>> /\ pc[i] # "mark"
      /\ delivered = <<>> /\ published = {} /\ rows = {}
  BY DEF Init
<1>2. \A m, n : ~ Precedes(m, n)
  BY <1>1 DEF Precedes
<1> QED
  BY <1>1, <1>2 DEF OrderInv, BatchUnpublished, PredecessorsMarked, QueuesSorted,
                    PredecessorsFirst

LEMMA WriteKeepsOrder ==
    ASSUME RInv, OrderInv, [Next]_vars, NEW a \in Aggregates, WriteStep(a)
    PROVE  OrderInv'
<1>1. UNCHANGED <<published, pc, nc, batch, buffer, delivered, counts>>
  BY PublishersKept
<1>2. \A n \in RowIds : \A m : Precedes(m, n)' => Precedes(m, n)
  BY NothingPrecedesLater
<1>3. /\ \A i \in Instances : batch[i] \subseteq RowIds
      /\ \A i \in Instances : \A k \in 1 .. Len(buffer[i]) : buffer[i][k] \in RowIds
      /\ \A k \in 1 .. Len(delivered) : delivered[k] \in RowIds
  BY DEF RInv, Known
<1>4. \A n : /\ Sent(n)' = Sent(n) /\ \A i \in Instances : InBuffer(i, n)' = InBuffer(i, n)
             /\ Accepted(n)' = Accepted(n) /\ Lost(n)' = Lost(n)
  BY <1>1 DEF Sent, InBuffer, Accepted, Lost
<1>5. BatchUnpublished'
  BY <1>1 DEF OrderInv, BatchUnpublished
<1>6. ASSUME PredecessorsMarked, QueuesSorted PROVE (PredecessorsMarked /\ QueuesSorted)'
  <2> SUFFICES ASSUME NEW i \in Instances, NEW m \in Ids, NEW n \in Ids, Precedes(m, n)'
      PROVE  /\ n \in batch[i] => m \in batch[i] \/ m \in published
             /\ InBuffer(i, n) => m \in published
             /\ Sent(n) => m \in published
             /\ \A k, l \in 1 .. Len(buffer[i]) : buffer[i][k] = m /\ buffer[i][l] = n => k < l
             /\ \A k, l \in 1 .. Len(delivered) : delivered[k] = m /\ delivered[l] = n => k < l
             /\ Sent(n) => ~ InBuffer(i, m)
    BY <1>1, <1>4 DEF PredecessorsMarked, QueuesSorted
  <2>1. CASE n \in RowIds
    BY <1>2, <1>6, <2>1 DEF PredecessorsMarked, QueuesSorted
  <2>2. CASE n \notin RowIds
    <3>1. n \notin batch[i] /\ ~ InBuffer(i, n)
      BY <1>3, <2>2 DEF InBuffer
    <3>2. DOMAIN delivered = 1 .. Len(delivered)
      BY DEF RInv, TypeOK
    <3>3. ~ Sent(n)
      BY <1>3, <2>2, <3>2 DEF Sent
    <3> QED
      BY <1>3, <2>2, <3>1, <3>3
  <2> QED
    BY <2>1, <2>2
<1>7. ASSUME PredecessorsFirst PROVE PredecessorsFirst'
  <2> SUFFICES ASSUME NEW i \in Instances, NEW m \in Ids
      PROVE  /\ pc[i] = "mark" => Accepted(Current(i))
             /\ \A n \in batch[i] : Precedes(m, n)' =>
                   m \in batch[i] \/ Accepted(m) \/ m \in published
             /\ \A l \in 1 .. Len(buffer[i]) : Precedes(m, buffer[i][l])' =>
                   Sent(m) \/ BufferedBy(i, l, m) \/ Lost(m)
             /\ \A l \in 1 .. Len(delivered) : Precedes(m, delivered[l])' =>
                   DeliveredBy(l, m) \/ Lost(m)
    <3>1. \A i \in Instances : Current(i)' = Current(i)
      BY <1>1 DEF Current
    <3> QED
      BY <1>1, <1>4, <3>1 DEF PredecessorsFirst, BufferedBy, DeliveredBy, Accepted, Sent,
                             InBuffer
  <2>1. pc[i] = "mark" => Accepted(Current(i))
    BY <1>7 DEF PredecessorsFirst
  <2>2. ASSUME NEW n \in batch[i], Precedes(m, n)'
        PROVE  m \in batch[i] \/ Accepted(m) \/ m \in published
    BY <1>2, <1>3, <1>7, <2>2 DEF PredecessorsFirst
  <2>3. ASSUME NEW l \in 1 .. Len(buffer[i]), Precedes(m, buffer[i][l])'
        PROVE  Sent(m) \/ BufferedBy(i, l, m) \/ Lost(m)
    <3>1. PICK n \in RowIds : n = buffer[i][l]
      BY <1>3
    <3>2. Precedes(m, n)'
      BY <1>1, <2>3, <3>1 DEF Precedes
    <3> QED
      BY <1>2, <1>7, <3>1, <3>2 DEF PredecessorsFirst
  <2>4. ASSUME NEW l \in 1 .. Len(delivered), Precedes(m, delivered[l])'
        PROVE  DeliveredBy(l, m) \/ Lost(m)
    <3>1. PICK n \in RowIds : n = delivered[l]
      BY <1>3
    <3>2. Precedes(m, n)'
      BY <1>1, <2>4, <3>1 DEF Precedes
    <3> QED
      BY <1>2, <1>7, <3>1, <3>2 DEF PredecessorsFirst
  <2> QED
    BY <2>1, <2>2, <2>3, <2>4
<1> QED
  BY <1>1, <1>5, <1>6, <1>7 DEF OrderInv, counts

LEMMA PrecedesKept ==
    ASSUME NEW i \in Instances, PublisherStep(i)
    PROVE  \A m, n : Precedes(m, n)' <=> Precedes(m, n)
  BY TablesKept DEF tables, Precedes

(* Steps that only change what a publisher has left to do. *)
LEMMA BatchKeepsOrder ==
    ASSUME RInv, OrderInv, [Next]_vars,
           NEW i \in Instances, Instances = {i},
           Start(i) \/ Poll(i) \/ PublishRefused(i) \/ Mark(i) \/ MarkFails(i)
    PROVE  OrderInv'
<1> DEFINE c == Current(i)
<1>0. /\ batch \in [Instances -> SUBSET Ids] /\ pc \in [Instances -> {"stopped", "idle", "publish", "mark"}]
      /\ failures \in Nat
  BY DEF RInv, TypeOK, Counted
<1>1. UNCHANGED <<buffer, delivered>>
  BY DEF Start, Poll, PublishRefused, Mark, MarkFails
<1>2. \A m, n : Precedes(m, n)' <=> Precedes(m, n)
  BY PrecedesKept DEF PublisherStep, Step
<1>3. \A m : Accepted(m)' = Accepted(m) /\ Sent(m)' = Sent(m) /\ InBuffer(i, m)' = InBuffer(i, m)
  BY <1>1 DEF Accepted, Sent, InBuffer
<1>4. (failures' = 0 => failures = 0) /\ (breaks' = 0 => breaks = 0)
  BY CountsGrow
<1>5. ASSUME NEW b \in SUBSET Ids, batch'[i] = b, published \subseteq published',
             b \cap published' = {}, pc'[i] # "mark",
             failures' = 0 => \A n \in b, m \in Ids :
                                 Precedes(m, n) => m \in b \/ m \in published',
             breaks' = 0 => \A n \in b, m \in Ids :
                                 Precedes(m, n) => m \in b \/ Accepted(m) \/ m \in published'
      PROVE  OrderInv'
  <2>1. BatchUnpublished'
    BY <1>5 DEF BatchUnpublished
  <2>2. ASSUME failures' = 0 PROVE (PredecessorsMarked /\ QueuesSorted)'
    <3>1. PredecessorsMarked /\ QueuesSorted
      BY <1>4, <2>2 DEF OrderInv
    <3>2. PredecessorsMarked'
      BY <1>2, <1>3, <1>5, <2>2, <3>1 DEF PredecessorsMarked
    <3>3. QueuesSorted'
      BY <1>1, <1>2, <1>3, <3>1 DEF QueuesSorted
    <3> QED
      BY <3>2, <3>3
  <2>3. ASSUME breaks' = 0 PROVE PredecessorsFirst'
    <3>1. PredecessorsFirst
      BY <1>4, <2>3 DEF OrderInv
    <3>2. \A m : Lost(m) => Lost(m)'
      BY <1>3, <1>5 DEF Lost
    <3> QED
      BY <1>1, <1>2, <1>3, <1>5, <2>3, <3>1, <3>2
         DEF PredecessorsFirst, BufferedBy, DeliveredBy
  <2> QED
    BY <2>1, <2>2, <2>3 DEF OrderInv
<1>6. CASE Start(i) \/ PublishRefused(i)
  <2>1. batch'[i] = batch[i] \/ batch'[i] = {}
    BY <1>0, <1>6 DEF Start, PublishRefused
  <2>2. published' = published /\ pc'[i] # "mark"
    BY <1>0, <1>6 DEF Start, PublishRefused
  <2>3. batch[i] \in SUBSET Ids /\ batch[i] \cap published = {}
    BY <1>0 DEF OrderInv, BatchUnpublished
  <2>4. failures' = 0 => \A n \in batch[i], m \in Ids :
            Precedes(m, n) => m \in batch[i] \/ m \in published
    BY <1>4, <2>3 DEF OrderInv, PredecessorsMarked
  <2>5. breaks' = 0 => \A n \in batch[i], m \in Ids :
            Precedes(m, n) => m \in batch[i] \/ Accepted(m) \/ m \in published
    BY <1>4, <2>3 DEF OrderInv, PredecessorsFirst
  <2>6. CASE batch'[i] = batch[i]
    BY <1>5, <2>2, <2>3, <2>4, <2>5, <2>6
  <2>7. CASE batch'[i] = {}
    <3>1. {} \in SUBSET Ids /\ {} \cap published = {} /\ \A n : n \notin {}
      OBVIOUS
    <3> QED
      BY <1>5, <2>2, <2>7, <3>1
  <2> QED
    BY <2>1, <2>6, <2>7
<1>7. CASE Poll(i)
  <2> DEFINE b == FirstUnpublished
  <2>1. b \subseteq Unpublished /\ Unpublished \subseteq Ids /\ b \cap published = {}
    BY BatchIsPrefix DEF RInv, TypeOK, Unpublished
  <2>2. ASSUME NEW n \in b, NEW m \in Ids, Precedes(m, n) PROVE m \in b \/ m \in published
    <3>1. m < n /\ m \in RowIds
      BY <2>2 DEF Precedes, RowIds
    <3>2. m \notin published => m \in Unpublished
      BY <3>1 DEF Unpublished, RowIds
    <3> QED
      BY <3>1, <3>2, BatchIsPrefix DEF RInv
  <2>3. batch'[i] = b /\ pc'[i] # "mark" /\ published' = published
    BY <1>0, <1>7 DEF Poll
  <2> HIDE DEF b
  <2> QED
    BY <1>5, <2>1, <2>2, <2>3
<1>8. CASE Mark(i) \/ MarkFails(i)
  <2> DEFINE b == batch[i] \ {c}
  <2>1. /\ batch'[i] = b /\ b \in SUBSET Ids /\ pc[i] = "mark" /\ pc'[i] # "mark"
        /\ published \subseteq published' /\ published' \subseteq published \cup {c}
    BY <1>0, <1>8 DEF Mark, MarkFails, NextInBatch
  <2>2. failures' = 0 => c \in published'
    <3>1. Mark(i) => c \in published'
      BY DEF Mark
    <3>2. MarkFails(i) => failures' # 0
      BY <1>0 DEF MarkFails, CountFailure
    <3> QED
      BY <1>8, <3>1, <3>2
  <2>3. breaks' = 0 => Accepted(c)
    <3>1. PICK m \in Ids : m \in batch[i]
      BY <1>0, <2>1 DEF RInv, TypeOK
    <3> QED
      BY <1>4, <2>1, <3>1 DEF OrderInv, PredecessorsFirst
  <2>4. b \cap published' = {}
    BY <2>1 DEF OrderInv, BatchUnpublished
  <2>5. failures' = 0 => \A n \in b, m \in Ids :
            Precedes(m, n) => m \in b \/ m \in published'
    BY <1>0, <1>4, <2>1, <2>2 DEF OrderInv, PredecessorsMarked
  <2>6. breaks' = 0 => \A n \in b, m \in Ids :
            Precedes(m, n) => m \in b \/ Accepted(m) \/ m \in published'
    BY <1>4, <2>1, <2>3 DEF OrderInv, PredecessorsFirst
  <2> HIDE DEF b
  <2> QED
    BY <1>5, <2>1, <2>4, <2>5, <2>6
<1> QED
  BY <1>6, <1>7, <1>8

LEMMA PublishKeepsOrder ==
    ASSUME RInv, OrderInv,
           NEW i \in Instances, Instances = {i}, Publish(i)
    PROVE  OrderInv'
<1> DEFINE c == Current(i)
<1>0. /\ batch[i] \in SUBSET Ids /\ Len(buffer[i]) \in Nat
      /\ Ids \subseteq Nat
  BY DEF RInv, TypeOK, Ids
<1>1. /\ c \in batch[i] /\ Len(buffer'[i]) = Len(buffer[i]) + 1
      /\ \A k \in 1 .. Len(buffer[i]) : buffer'[i][k] = buffer[i][k]
      /\ buffer'[i][Len(buffer[i]) + 1] = c
  BY Accepts DEF RInv
<1>2. \A m : /\ Sent(m)' <=> Sent(m)
             /\ InBuffer(i, m)' <=> InBuffer(i, m) \/ m = c
  BY PublishAccepts
<1>3. \A m, n : Precedes(m, n)' <=> Precedes(m, n)
  BY PrecedesKept DEF PublisherStep, Step
<1>4. UNCHANGED <<batch, published, delivered, counts>>
  BY DEF Publish
<1>5. \A m \in batch[i] : c <= m
  BY <1>1, CurrentIsLeast DEF RInv
<1>6. Current(i)' = c
  BY <1>4 DEF Current
<1>7. c \notin published /\ c \in Ids
  BY <1>0, <1>1 DEF OrderInv, BatchUnpublished
<1> HIDE DEF c
<1>8. \A m \in Ids : Precedes(m, c) => m \notin batch[i]
  <2> SUFFICES ASSUME NEW m \in Ids, m < c, m \in batch[i] PROVE FALSE
    BY DEF Precedes
  <2>1. c <= m /\ m \in Nat /\ c \in Nat
    BY <1>0, <1>5, <1>7
  <2> QED
    BY <2>1
<1>9. \A m, n : Precedes(m, n) => m # n
  <2> SUFFICES ASSUME NEW m, NEW n, Precedes(m, n) PROVE m # n
    OBVIOUS
  <2>1. m < n /\ m \in Nat /\ n \in Nat
    BY <1>0 DEF Precedes, RInv, TypeOK
  <2> QED
    BY <2>1
<1>10. \A m : Accepted(m)' <=> Accepted(m) \/ m = c
  BY <1>2 DEF Accepted
<1>11. BatchUnpublished'
  BY <1>4 DEF OrderInv, BatchUnpublished
<1>12. ASSUME PredecessorsMarked, QueuesSorted PROVE (PredecessorsMarked /\ QueuesSorted)'
  <2>1. ASSUME NEW m \in Ids, NEW n \in Ids, Precedes(m, n)
        PROVE  /\ n \in batch[i] => m \in batch[i] \/ m \in published
               /\ InBuffer(i, n) \/ n = c => m \in published
               /\ Sent(n) => m \in published
    BY <1>1, <1>8, <1>12, <2>1 DEF PredecessorsMarked
  <2>2. PredecessorsMarked'
    BY <1>2, <1>3, <1>4, <2>1 DEF PredecessorsMarked
  <2>3. ASSUME NEW m \in Ids, NEW n \in Ids, Precedes(m, n),
               NEW k \in 1 .. Len(buffer'[i]), NEW l \in 1 .. Len(buffer'[i]),
               buffer'[i][k] = m, buffer'[i][l] = n
        PROVE  k < l
    <3>1. k \in 1 .. Len(buffer[i]) \/ k = Len(buffer[i]) + 1
      BY <1>0, <1>1
    <3>2. l \in 1 .. Len(buffer[i]) \/ l = Len(buffer[i]) + 1
      BY <1>0, <1>1
    <3>3. CASE k \in 1 .. Len(buffer[i]) /\ l \in 1 .. Len(buffer[i])
      BY <1>1, <1>12, <2>3, <3>3 DEF QueuesSorted
    <3>4. CASE k \in 1 .. Len(buffer[i]) /\ l = Len(buffer[i]) + 1
      BY <1>0, <3>4
    <3>5. k # Len(buffer[i]) + 1
      <4> SUFFICES ASSUME k = Len(buffer[i]) + 1 PROVE FALSE
        OBVIOUS
      <4>1. m = c /\ n # c
        BY <1>1, <1>9, <2>3
      <4>2. InBuffer(i, n)
        BY <1>1, <2>3, <3>2, <4>1 DEF InBuffer
      <4> QED
        BY <1>7, <2>1, <2>3, <4>1, <4>2
    <3> QED
      BY <3>1, <3>2, <3>3, <3>4, <3>5
  <2>4. QueuesSorted'
    <3>1. ASSUME NEW m \in Ids, NEW n \in Ids, Precedes(m, n)
          PROVE  /\ \A k, l \in 1 .. Len(delivered) :
                        delivered[k] = m /\ delivered[l] = n => k < l
                 /\ Sent(n) => ~ (InBuffer(i, m) \/ m = c)
      BY <1>7, <1>12, <2>1, <3>1 DEF QueuesSorted
    <3> QED
      BY <1>2, <1>3, <1>4, <2>3, <3>1 DEF QueuesSorted
  <2> QED
    BY <2>2, <2>4
<1>13. ASSUME PredecessorsFirst PROVE PredecessorsFirst'
  <2>1. \A m : Lost(m) => Lost(m)'
    BY <1>4, <1>7, <1>10 DEF Lost
  <2>2. ASSUME NEW m \in Ids, NEW l \in 1 .. Len(buffer'[i]), Precedes(m, buffer[i][l])'
        PROVE  Sent(m)' \/ BufferedBy(i, l, m)' \/ Lost(m)'
    <3>1. PICK n : n = buffer'[i][l]
      OBVIOUS
    <3>2. Precedes(m, n)
      <4>1. Precedes(m, n)'
        BY <2>2, <3>1 DEF Precedes
      <4> QED
        BY <1>3, <4>1
    <3>3. l \in 1 .. Len(buffer[i]) \/ l = Len(buffer[i]) + 1
      BY <1>0, <1>1
    <3>4. CASE l \in 1 .. Len(buffer[i])
      <4>1. Sent(m) \/ BufferedBy(i, l, m) \/ Lost(m)
        BY <1>1, <1>13, <3>1, <3>2, <3>4 DEF PredecessorsFirst
      <4>2. \A k \in 1 .. l - 1 : k \in 1 .. Len(buffer[i])
        BY <1>0, <3>4
      <4>3. BufferedBy(i, l, m) => BufferedBy(i, l, m)'
        BY <1>1, <4>2 DEF BufferedBy
      <4> QED
        BY <1>2, <2>1, <4>1, <4>3
    <3>5. CASE l = Len(buffer[i]) + 1
      <4>1. Precedes(m, c)
        BY <1>1, <3>1, <3>2, <3>5
      <4>2. Accepted(m) \/ Lost(m)
        BY <1>1, <1>8, <1>13, <4>1 DEF PredecessorsFirst, Lost
      <4>3. InBuffer(i, m) => BufferedBy(i, l, m)'
        <5>1. 1 .. l - 1 = 1 .. Len(buffer[i])
          BY <1>0, <3>5
        <5> QED
          BY <1>1, <5>1 DEF InBuffer, BufferedBy
      <4> QED
        BY <1>2, <2>1, <4>2, <4>3 DEF Accepted
    <3> QED
      BY <3>3, <3>4, <3>5
  <2>3. ASSUME NEW m \in Ids, NEW l \in 1 .. Len(delivered), Precedes(m, delivered[l])'
        PROVE  DeliveredBy(l, m)' \/ Lost(m)'
    <3>1. PICK n : n = delivered[l]
      OBVIOUS
    <3>2. Precedes(m, n)
      <4>1. Precedes(m, n)'
        BY <1>4, <2>3, <3>1 DEF Precedes
      <4> QED
        BY <1>3, <4>1
    <3> QED
      BY <1>4, <1>13, <2>1, <3>1, <3>2 DEF PredecessorsFirst, DeliveredBy
  <2>4. ASSUME NEW m \in Ids
        PROVE  \A n \in batch[i] : Precedes(m, n) =>
                   m \in batch[i] \/ Accepted(m)' \/ m \in published
    <3>1. Accepted(m) => Accepted(m)'
      BY <1>10
    <3>2. \A n \in batch[i] : Precedes(m, n) =>
              m \in batch[i] \/ Accepted(m) \/ m \in published
      BY <1>13 DEF PredecessorsFirst
    <3> QED
      BY <3>1, <3>2
  <2>5. ASSUME NEW j \in Instances, NEW m \in Ids
        PROVE  /\ Accepted(Current(j))'
               /\ \A n \in batch'[j] : Precedes(m, n)' =>
                     m \in batch'[j] \/ Accepted(m)' \/ m \in published'
    <3>1. j = i /\ Accepted(Current(i))'
      BY <1>6, <1>10 DEF Accepted, Sent, InBuffer
    <3> QED
      BY <1>3, <1>4, <2>4, <3>1
  <2> QED
    BY <1>4, <2>2, <2>3, <2>5 DEF PredecessorsFirst
<1> QED
  BY <1>4, <1>11, <1>12, <1>13 DEF OrderInv, counts

LEMMA FlushKeepsOrder ==
    ASSUME RInv, OrderInv,
           NEW i \in Instances, Instances = {i}, Flush(i)
    PROVE  OrderInv'
<1>0. Len(buffer[i]) \in Nat /\ Len(delivered) \in Nat /\ Ids \subseteq Nat
      /\ delivered \in Seq(Ids)
  BY DEF RInv, TypeOK, Ids
<1>1. /\ Drops(buffer'[i], buffer[i], 1) /\ 1 \in 1 .. Len(buffer[i])
      /\ Len(delivered') = Len(delivered) + 1
      /\ \A k \in 1 .. Len(delivered) : delivered'[k] = delivered[k]
      /\ delivered'[Len(delivered) + 1] = buffer[i][1]
  BY Flushes DEF RInv
<1>2. /\ Len(buffer'[i]) \in Nat
      /\ \A k \in 1 .. Len(buffer'[i]) :
            k + 1 \in 1 .. Len(buffer[i]) /\ buffer'[i][k] = buffer[i][k + 1]
      /\ \A k \in 1 .. Len(buffer[i]) :
            k > 1 => k - 1 \in 1 .. Len(buffer'[i]) /\ buffer'[i][k - 1] = buffer[i][k]
  BY <1>0, <1>1, Shifted
<1>3. PICK h : h = buffer[i][1]
  OBVIOUS
<1>4. \A m : /\ Sent(m)' <=> Sent(m) \/ m = h
             /\ InBuffer(i, m) <=> m = h \/ InBuffer(i, m)'
  BY <1>3, FlushAccepts
<1>5. \A m, n : Precedes(m, n)' <=> Precedes(m, n)
  BY PrecedesKept DEF PublisherStep
<1>6. UNCHANGED <<batch, published, pc, counts>>
  BY DEF Flush
<1>7. Current(i)' = Current(i)
  BY <1>6 DEF Current
<1>8. \A m, n : Precedes(m, n) => m # n
  <2> SUFFICES ASSUME NEW m, NEW n, Precedes(m, n) PROVE m # n
    OBVIOUS
  <2>1. m < n /\ m \in Nat /\ n \in Nat
    BY <1>0 DEF Precedes, RInv, TypeOK
  <2> QED
    BY <2>1
<1>9. \A m : Accepted(m)' <=> Accepted(m)
  BY <1>4 DEF Accepted
<1>10. BatchUnpublished'
  BY <1>6 DEF OrderInv, BatchUnpublished
<1>11. ASSUME PredecessorsMarked, QueuesSorted PROVE (PredecessorsMarked /\ QueuesSorted)'
  <2>1. ASSUME NEW m \in Ids, NEW n \in Ids, Precedes(m, n)
        PROVE  /\ n \in batch[i] => m \in batch[i] \/ m \in published
               /\ InBuffer(i, n)' => m \in published
               /\ Sent(n)' => m \in published
    BY <1>4, <1>11, <2>1 DEF PredecessorsMarked
  <2>2. PredecessorsMarked'
    BY <1>5, <1>6, <2>1 DEF PredecessorsMarked
  <2>3. ASSUME NEW m \in Ids, NEW n \in Ids, Precedes(m, n),
               NEW k \in 1 .. Len(buffer'[i]), NEW l \in 1 .. Len(buffer'[i]),
               buffer'[i][k] = m, buffer'[i][l] = n
        PROVE  k < l
    <3>1. k + 1 < l + 1
      BY <1>2, <1>11, <2>3 DEF QueuesSorted
    <3> QED
      BY <1>2, <3>1
  <2>4. ASSUME NEW m \in Ids, NEW n \in Ids, Precedes(m, n),
               NEW k \in 1 .. Len(delivered'), NEW l \in 1 .. Len(delivered'),
               delivered'[k] = m, delivered'[l] = n
        PROVE  k < l
    <3>1. k \in 1 .. Len(delivered) \/ k = Len(delivered) + 1
      BY <1>0, <1>1
    <3>2. l \in 1 .. Len(delivered) \/ l = Len(delivered) + 1
      BY <1>0, <1>1
    <3>3. CASE k \in 1 .. Len(delivered) /\ l \in 1 .. Len(delivered)
      BY <1>1, <1>11, <2>4, <3>3 DEF QueuesSorted
    <3>4. CASE k \in 1 .. Len(delivered) /\ l = Len(delivered) + 1
      BY <1>0, <3>4
    <3>5. k # Len(delivered) + 1
      <4> SUFFICES ASSUME k = Len(delivered) + 1 PROVE FALSE
        OBVIOUS
      <4>1. m = h /\ n # h
        BY <1>1, <1>3, <1>8, <2>4
      <4>2. Sent(n)
        BY <1>0, <1>1, <1>3, <2>4, <3>2, <4>1 DEF Sent
      <4>3. InBuffer(i, m)
        BY <1>4, <4>1
      <4> QED
        BY <1>11, <2>4, <4>2, <4>3 DEF QueuesSorted
    <3> QED
      BY <3>1, <3>2, <3>3, <3>4, <3>5
  <2>5. ASSUME NEW m \in Ids, NEW n \in Ids, Precedes(m, n), Sent(n)', InBuffer(i, m)'
        PROVE  FALSE
    <3>1. InBuffer(i, m)
      BY <1>4, <2>5
    <3>2. n = h
      BY <1>4, <1>11, <2>5, <3>1 DEF QueuesSorted
    <3>3. PICK k \in 1 .. Len(buffer'[i]) : buffer'[i][k] = m
      BY <2>5 DEF InBuffer
    <3>4. k + 1 \in 1 .. Len(buffer[i]) /\ buffer[i][k + 1] = m
      BY <1>2, <3>3
    <3>5. k + 1 < 1
      BY <1>1, <1>3, <1>11, <2>5, <3>2, <3>4 DEF QueuesSorted
    <3> QED
      BY <1>2, <3>5
  <2>6. QueuesSorted'
    BY <1>5, <2>3, <2>4, <2>5 DEF QueuesSorted
  <2> QED
    BY <2>2, <2>6
<1>12. ASSUME PredecessorsFirst PROVE PredecessorsFirst'
  <2>1. \A m : Lost(m)' <=> Lost(m)
    BY <1>6, <1>9 DEF Lost
  <2>2. ASSUME NEW m \in Ids, NEW l \in 1 .. Len(buffer'[i]), Precedes(m, buffer[i][l])'
        PROVE  Sent(m)' \/ BufferedBy(i, l, m)' \/ Lost(m)'
    <3>1. PICK n : n = buffer'[i][l]
      OBVIOUS
    <3>2. Precedes(m, n)
      <4>1. Precedes(m, n)'
        BY <2>2, <3>1 DEF Precedes
      <4> QED
        BY <1>5, <4>1
    <3>3. Sent(m) \/ BufferedBy(i, l + 1, m) \/ Lost(m)
      BY <1>2, <1>12, <3>1, <3>2 DEF PredecessorsFirst
    <3>4. ASSUME NEW k \in 1 .. l + 1 - 1, buffer[i][k] = m
          PROVE  Sent(m)' \/ BufferedBy(i, l, m)'
      <4>1. k \in 1 .. Len(buffer[i])
        BY <1>0, <1>2
      <4>2. k = 1 => Sent(m)'
        BY <1>3, <1>4, <3>4
      <4>3. k # 1 => k - 1 \in 1 .. l - 1 /\ buffer'[i][k - 1] = m
        BY <1>2, <3>4, <4>1
      <4> QED
        BY <4>2, <4>3 DEF BufferedBy
    <3> QED
      BY <1>4, <2>1, <3>3, <3>4 DEF BufferedBy
  <2>3. ASSUME NEW m \in Ids, NEW l \in 1 .. Len(delivered'), Precedes(m, delivered[l])'
        PROVE  DeliveredBy(l, m)' \/ Lost(m)'
    <3>1. PICK n : n = delivered'[l]
      OBVIOUS
    <3>2. Precedes(m, n)
      <4>1. Precedes(m, n)'
        BY <2>3, <3>1 DEF Precedes
      <4> QED
        BY <1>5, <4>1
    <3>3. l \in 1 .. Len(delivered) \/ l = Len(delivered) + 1
      BY <1>0, <1>1
    <3>4. CASE l \in 1 .. Len(delivered)
      <4>1. DeliveredBy(l, m) \/ Lost(m)
        BY <1>1, <1>12, <3>1, <3>2, <3>4 DEF PredecessorsFirst
      <4>2. \A k \in 1 .. l - 1 : k \in 1 .. Len(delivered)
        BY <1>0, <3>4
      <4> QED
        BY <1>1, <2>1, <4>1, <4>2 DEF DeliveredBy
    <3>5. CASE l = Len(delivered) + 1
      <4>1. Precedes(m, buffer[i][1])
        BY <1>1, <3>1, <3>2, <3>5
      <4>2. Sent(m) \/ BufferedBy(i, 1, m) \/ Lost(m)
        BY <1>1, <1>12, <4>1 DEF PredecessorsFirst
      <4>3. ~ BufferedBy(i, 1, m)
        BY DEF BufferedBy
      <4>4. Sent(m) => DeliveredBy(l, m)'
        <5>1. 1 .. l - 1 = DOMAIN delivered /\ DOMAIN delivered = 1 .. Len(delivered)
          BY <1>0, <3>5
        <5> QED
          BY <1>1, <5>1 DEF Sent, DeliveredBy
      <4> QED
        BY <2>1, <4>2, <4>3, <4>4
    <3> QED
      BY <3>3, <3>4, <3>5
  <2>4. ASSUME NEW m \in Ids
        PROVE  /\ pc[i] = "mark" => Accepted(Current(i))'
               /\ \A n \in batch[i] : Precedes(m, n) =>
                     m \in batch[i] \/ Accepted(m)' \/ m \in published
    <3>1. \A x : Accepted(x) => Accepted(x)'
      BY <1>9
    <3>2. /\ pc[i] = "mark" => Accepted(Current(i))
          /\ \A n \in batch[i] : Precedes(m, n) =>
                 m \in batch[i] \/ Accepted(m) \/ m \in published
      BY <1>12 DEF PredecessorsFirst
    <3>3. PICK c : c = Current(i)
      OBVIOUS
    <3>4. Accepted(c)' => Accepted(Current(i))'
      BY <1>7, <3>3 DEF Accepted, Sent, InBuffer
    <3> QED
      BY <3>1, <3>2, <3>3, <3>4
  <2> QED
    BY <1>5, <1>6, <2>2, <2>3, <2>4 DEF PredecessorsFirst
<1> QED
  BY <1>6, <1>10, <1>11, <1>12 DEF OrderInv, counts

LEMMA LossKeepsOrder ==
    ASSUME RInv, OrderInv, [Next]_vars,
           NEW i \in Instances, Instances = {i}, Disconnect(i) \/ GiveUp(i) \/ Stop(i)
    PROVE  OrderInv'
<1>0. Len(buffer[i]) \in Nat
  BY DEF RInv, TypeOK
<1>1. PICK d \in Nat : Drops(buffer'[i], buffer[i], d)
  BY Loses DEF RInv
<1>2. delivered' = delivered /\ published' = published
  BY Loses DEF RInv, Disconnect, GiveUp, Stop
<1>3. \A k \in 1 .. Len(buffer'[i]) :
          k \in Nat /\ k + d \in 1 .. Len(buffer[i]) /\ buffer'[i][k] = buffer[i][k + d]
  BY <1>0, <1>1, Shifted
<1>4. \A m : (InBuffer(i, m)' => InBuffer(i, m)) /\ (Sent(m)' <=> Sent(m))
  BY <1>2, <1>3 DEF InBuffer, Sent
<1>5. \A m, n : Precedes(m, n)' <=> Precedes(m, n)
  BY PrecedesKept DEF PublisherStep
<1>6. batch'[i] = batch[i] \/ batch'[i] = {}
  BY DEF Disconnect, GiveUp, Stop, RInv, TypeOK
<1>7. BatchUnpublished'
  BY <1>2, <1>6 DEF OrderInv, BatchUnpublished
<1>8. ASSUME PredecessorsMarked, QueuesSorted PROVE (PredecessorsMarked /\ QueuesSorted)'
  <2>1. PredecessorsMarked'
    BY <1>2, <1>4, <1>5, <1>6, <1>8 DEF PredecessorsMarked
  <2>2. ASSUME NEW m \in Ids, NEW n \in Ids, Precedes(m, n),
               NEW k \in 1 .. Len(buffer'[i]), NEW l \in 1 .. Len(buffer'[i]),
               buffer'[i][k] = m, buffer'[i][l] = n
        PROVE  k < l
    <3>1. k + d < l + d
      BY <1>3, <1>8, <2>2 DEF QueuesSorted
    <3>2. k \in Nat /\ l \in Nat
      BY <1>3
    <3> QED
      BY <3>1, <3>2
  <2>3. QueuesSorted'
    BY <1>2, <1>4, <1>5, <1>8, <2>2 DEF QueuesSorted
  <2> QED
    BY <2>1, <2>3
<1>9. ASSUME breaks' = 0 PROVE PredecessorsFirst'
  <2>1. breaks = 0 /\ Stop(i)
    BY <1>9, CountsGrow DEF RInv, Counted, Disconnect, GiveUp, CountBreak
  <2>2. /\ buffer'[i] = <<>> /\ batch'[i] = {} /\ pc'[i] = "stopped"
    BY <2>1 DEF Stop, RInv, TypeOK
  <2>3. \A m : Lost(m) => Lost(m)'
    BY <1>2, <1>4 DEF Lost, Accepted
  <2>4. PredecessorsFirst
    BY <2>1 DEF OrderInv
  <2>5. ASSUME NEW m \in Ids, NEW l \in 1 .. Len(delivered), Precedes(m, delivered[l])'
        PROVE  DeliveredBy(l, m)' \/ Lost(m)'
    <3>1. PICK n : n = delivered[l]
      OBVIOUS
    <3>2. Precedes(m, n)
      <4>1. Precedes(m, n)'
        BY <1>2, <2>5, <3>1 DEF Precedes
      <4> QED
        BY <1>5, <4>1
    <3> QED
      BY <1>2, <2>3, <2>4, <3>1, <3>2 DEF PredecessorsFirst, DeliveredBy
  <2> QED
    BY <1>2, <2>2, <2>5 DEF PredecessorsFirst
<1>10. failures' = 0 => failures = 0
  BY CountsGrow
<1> QED
  BY <1>7, <1>8, <1>9, <1>10 DEF OrderInv

LEMMA StepKeepsOrder ==
    ASSUME RInv, OrderInv, [Next]_vars,
           NEW i \in Instances, Instances = {i}
    PROVE  OrderInv'
<1>1. ASSUME NEW a \in Aggregates, WriteStep(a) PROVE OrderInv'
  BY <1>1, WriteKeepsOrder
<1>2. CASE PublisherStep(i)
  <2>1. \/ Start(i) \/ Poll(i) \/ PublishRefused(i) \/ Mark(i) \/ MarkFails(i)
        \/ Publish(i) \/ Flush(i) \/ Disconnect(i) \/ GiveUp(i) \/ Stop(i)
    BY <1>2 DEF PublisherStep, Step
  <2> QED
    BY <2>1, BatchKeepsOrder, PublishKeepsOrder, FlushKeepsOrder, LossKeepsOrder
<1>3. CASE UNCHANGED vars
  <2>1. UNCHANGED <<rows, published, pc, batch, buffer, delivered, failures, breaks>>
    BY <1>3 DEF vars, counts
  <2>2. \A m, n : Precedes(m, n)' <=> Precedes(m, n)
    BY <2>1 DEF Precedes
  <2> QED
    BY <2>1, <2>2 DEF OrderInv, BatchUnpublished, PredecessorsMarked, QueuesSorted,
       PredecessorsFirst, Accepted, Lost, Sent, InBuffer, BufferedBy, DeliveredBy, Current,
       Precedes
<1> QED
  BY <1>1, <1>2, <1>3, NextSplits

-----------------------------------------------------------------------------
(* Shapes of the outbox rows and of a publisher's locals, for any bounds.  *)
THEOREM TypeCorrect == Spec => []TypeOK
<1>1. Init => RInv
  BY InitRows
<1>2. RInv /\ [Next]_vars => RInv'
  BY StepKeepsRows
<1>3. RInv => TypeOK
  BY DEF RInv
<1> QED
  BY <1>1, <1>2, <1>3, PTL DEF Spec

(* However many publishers share the outbox, an event is overtaken by a    *)
(* later one of its entity only while another instance's connection holds  *)
(* it back, as long as none is stopped or breaks.                          *)
THEOREM NothingIsPassedOver == Spec => OvertakenOnlyInBuffers
<1> DEFINE Inv == RInv /\ HeldInv
<1>1. Init => Inv
  BY InitRows, InitHeld
<1>2. Inv /\ [Next]_vars => Inv'
  BY StepKeepsRows, StepKeepsHeld
<1>3. Inv => [stops = 0 /\ breaks = 0 => \A i \in Instances : OvertakesABufferAtMost(i)]_vars
  <2> SUFFICES ASSUME RInv, BuffersOrdered, NEW i \in Instances, NEW r \in rows, NEW s \in rows,
                      r.agg = s.agg, r.id < s.id, ~Sent(r.id),
                      Flush(i), Head(buffer[i]) = s.id
               PROVE  \E j \in Instances \ {i} : Contains(buffer[j], r.id)
    BY DEF HeldInv, OvertakesABufferAtMost
  <2>1. buffer[i] \in Seq(Ids) /\ buffer[i] # <<>> /\ r.id \in Ids
    BY DEF RInv, TypeOK, Flush
  <2>2. 1 \in 1 .. Len(buffer[i]) /\ buffer[i][1] = s.id
    <3>1. Len(buffer[i]) \in Nat /\ Len(buffer[i]) # 0
      BY <2>1
    <3> QED
      BY <2>1, <3>1
  <2>3. Precedes(r.id, buffer[i][1])
    BY <2>2 DEF Precedes
  <2>4. ~ BufferedBy(i, 1, r.id)
    BY DEF BufferedBy
  <2>5. PICK j \in Instances \ {i} : InBuffer(j, r.id)
    BY <2>1, <2>2, <2>3, <2>4 DEF BuffersOrdered
  <2> QED
    BY <2>5 DEF InBuffer, Contains
<1> QED
  BY <1>1, <1>2, <1>3, PTL DEF Spec, OvertakenOnlyInBuffers

(* One publisher keeps the order: consumers see an entity's events for the *)
(* first time in version order, through duplicates, batches, rows that     *)
(* commit behind later ids, restarts, and failed calls or broken           *)
(* connections, unless both happen.                                        *)
THEOREM OnePublisherKeepsOrder ==
    ASSUME NEW i, Instances = {i}
    PROVE  Spec => []FirstDeliveriesInOrder
<1> DEFINE Inv == RInv /\ OrderInv
<1>1. Init => Inv
  BY InitRows, InitOrder
<1>2. Inv /\ [Next]_vars => Inv'
  BY StepKeepsRows, StepKeepsOrder
<1>3. Inv => FirstDeliveriesInOrder
  <2> SUFFICES ASSUME RInv, OrderInv, failures = 0 \/ breaks = 0,
                      NEW r \in rows, NEW s \in rows, r.agg = s.agg, r.id < s.id,
                      Sent(r.id), Sent(s.id)
               PROVE  FirstSent(r.id) < FirstSent(s.id)
    BY DEF FirstDeliveriesInOrder
  <2> DEFINE At(m) == {k \in DOMAIN delivered : delivered[k] = m}
  <2>1. DOMAIN delivered = 1 .. Len(delivered) /\ Len(delivered) \in Nat
    BY DEF RInv, TypeOK
  <2>2. r.id \in Ids /\ s.id \in Ids /\ Precedes(r.id, s.id)
    BY DEF RInv, TypeOK, Precedes
  <2>3. \A m : Sent(m) => At(m) # {} /\ At(m) \in SUBSET Nat
    BY <2>1 DEF Sent
  <2>4. PICK k : k = FirstSent(r.id) /\ k \in At(r.id) /\ \A x \in At(r.id) : k <= x
    BY <2>3, LeastExists DEF FirstSent
  <2>5. PICK l : l = FirstSent(s.id) /\ l \in At(s.id)
    BY <2>3, LeastExists DEF FirstSent
  <2>6. CASE failures = 0
    BY <2>1, <2>2, <2>4, <2>5, <2>6 DEF OrderInv, QueuesSorted
  <2>7. CASE breaks = 0
    <3>1. DeliveredBy(l, r.id) \/ Lost(r.id)
      BY <2>1, <2>2, <2>5, <2>7 DEF OrderInv, PredecessorsFirst
    <3>2. PICK x \in 1 .. l - 1 : delivered[x] = r.id
      BY <3>1 DEF DeliveredBy, Lost, Accepted
    <3>3. k <= x /\ x < l /\ k \in Nat /\ x \in Nat /\ l \in Nat
      BY <2>1, <2>4, <2>5, <3>2
    <3> QED
      BY <2>4, <2>5, <3>3
  <2> QED
    BY <2>6, <2>7
<1> QED
  BY <1>1, <1>2, <1>3, PTL DEF Spec
=============================================================================
