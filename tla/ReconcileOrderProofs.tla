------------------------ MODULE ReconcileOrderProofs ------------------------
(***************************************************************************)
(* Proofs about the batches of ReconcileQueue: the queue never locks       *)
(* itself out, and batches are delivered in order.                         *)
(***************************************************************************)
EXTENDS ReconcileQueueProofs

Mates(i, j) == Present(i) /\ Present(j) /\ records[i].batch = records[j].batch

\* The shape of a batch.  Unlike validateBatchGroup, which looks one record
\* back, NoGaps looks at every earlier sequence: what the proofs below need to
\* find the record at the tip without an induction over sequences.
InBatches == \A i \in Ids : Present(i) => records[i].batch \in Batches

DistinctSeqs ==
  \A i, j \in Ids : Mates(i, j) /\ records[i].seq = records[j].seq => i = j

OneOwner == \A i, j \in Ids : Mates(i, j) => records[i].owner = records[j].owner

NoGaps ==
  \A i \in Ids : Present(i) =>
    \A n \in 0..(records[i].seq - 1) :
      \E j \in Ids : Mates(i, j) /\ records[j].seq = n

\* The acknowledged records are those the checkpoint lists, at their place.
AckedPrefix ==
  \A i \in Ids : Present(i) =>
    /\ records[i].state = "acknowledged" <=>
         records[i].seq < Expected(records[i].batch)
    /\ records[i].state = "acknowledged" =>
         checkpoint[records[i].batch][records[i].seq + 1] = i

\* The checkpoint is not ahead of the records.
Tip ==
  \A b \in Batches : Expected(b) > 0 =>
    \E i \in Ids : /\ Present(i) /\ records[i].batch = b
                   /\ records[i].seq + 1 = Expected(b)

DiscardedLast ==
  \A i, j \in Ids : Mates(i, j) /\ records[i].state = "discarded" =>
                      records[j].seq <= records[i].seq

\* A record that was ever sent is the one after the acknowledged prefix, or
\* part of it.
SentInOrder ==
  \A i \in Ids : Present(i) /\ records[i].attempts > 0 =>
                   records[i].seq <= Expected(records[i].batch)

BatchInv ==
  /\ InBatches /\ DistinctSeqs /\ OneOwner /\ NoGaps
  /\ AckedPrefix /\ Tip /\ DiscardedLast /\ SentInOrder

\* A receipt in hand, or acknowledged, is for evidence the server has.
Vouched ==
  /\ AcknowledgedIsDelivered
  /\ \A h \in Handles : uploader[h].pc = "acking" => uploader[h].id \in accepted

-----------------------------------------------------------------------------
(***************************************************************************)
(* What BatchInv gives.                                                    *)
(***************************************************************************)

\* Types of the fields the batch invariants compare.
LEMMA Fields ==
  ASSUME RecordInv
  PROVE  /\ \A i \in Ids : /\ records[i].seq \in Nat /\ records[i].batch \in Nat
                           /\ records[i].attempts \in Nat
                           /\ records[i].state \in States
         /\ \A b \in Batches : Expected(b) \in Nat /\ checkpoint[b] \in Seq(Ids)
<1>1. \A i \in Ids : records[i] \in Record
  BY DEF RecordInv, TypeOK
<1>2. \A i \in Ids : /\ records[i].seq \in Nat /\ records[i].batch \in Nat
                     /\ records[i].attempts \in Nat
                     /\ records[i].state \in States
  BY <1>1, Policy DEF Record
<1>3. \A b \in Batches : checkpoint[b] \in Seq(Ids)
  BY DEF RecordInv, TypeOK
<1>4. QED
  BY <1>2, <1>3 DEF Expected

\* validateAllBatchGroups, the gate of every operation, passes.
LEMMA BatchesFit ==
  ASSUME RecordInv, BatchInv
  PROVE  QueueUsable
<1> USE DEF BatchInv
<1> SUFFICES ASSUME NEW b \in Batches, Group(b) # {}
             PROVE  \E f \in Group(b) :
      /\ records[f].seq \in {0, Expected(b)}
      /\ \A i \in Group(b) :
           /\ records[i].owner = records[f].owner
           /\ records[i].seq >= records[f].seq
           /\ i # f => \E j \in Group(b) : records[i].seq = records[j].seq + 1
           /\ \A j \in Group(b) : records[j].seq = records[i].seq => j = i
           /\ IF records[i].seq < Expected(b)
              THEN /\ records[i].state = "acknowledged"
                   /\ checkpoint[b][records[i].seq + 1] = i
              ELSE /\ records[i].state # "acknowledged"
                   /\ records[i].state = "discarded" =>
                        \A j \in Group(b) : records[j].seq <= records[i].seq
      /\ records[f].seq < Expected(b) =>
           \E i \in Group(b) : records[i].seq = Expected(b) - 1
  BY DEF QueueUsable, validateAllBatchGroups, validateBatchGroup
<1>1. \A i \in Group(b) : i \in Ids /\ Present(i) /\ records[i].batch = b
  BY DEF Group
<1>2. \A i, j \in Group(b) : Mates(i, j)
  BY <1>1 DEF Mates
<1>3. PICK f \in Group(b) : records[f].seq = 0
  <2>1. PICK g \in Group(b) : TRUE
    OBVIOUS
  <2>2. CASE records[g].seq = 0
    BY <2>2
  <2>3. CASE records[g].seq # 0
    <3>1. 0 \in 0..(records[g].seq - 1)
      BY <1>1, <2>3, Fields
    <3>2. PICK j \in Ids : Mates(g, j) /\ records[j].seq = 0
      BY <1>1, <3>1 DEF NoGaps
    <3>3. j \in Group(b)
      BY <1>1, <3>2 DEF Mates, Group
    <3>4. QED
      BY <3>2, <3>3
  <2>4. QED
    BY <2>2, <2>3
<1>4. ASSUME NEW i \in Group(b)
      PROVE  /\ records[i].owner = records[f].owner
             /\ records[i].seq >= records[f].seq
             /\ \A j \in Group(b) : records[j].seq = records[i].seq => j = i
  BY <1>1, <1>2, <1>3, Fields DEF OneOwner, DistinctSeqs
<1>5. ASSUME NEW i \in Group(b), i # f
      PROVE  \E j \in Group(b) : records[i].seq = records[j].seq + 1
  <2>1. records[i].seq # 0
    BY <1>3, <1>4, <1>5
  <2>2. records[i].seq - 1 \in 0..(records[i].seq - 1)
    BY <1>1, <2>1, Fields
  <2>3. PICK j \in Ids : Mates(i, j) /\ records[j].seq = records[i].seq - 1
    BY <1>1, <2>2 DEF NoGaps
  <2>4. j \in Group(b) /\ records[j].seq + 1 = records[i].seq
    BY <1>1, <2>3, Fields DEF Mates, Group
  <2>5. QED
    BY <2>4
<1>6. ASSUME NEW i \in Group(b)
      PROVE  IF records[i].seq < Expected(b)
             THEN /\ records[i].state = "acknowledged"
                  /\ checkpoint[b][records[i].seq + 1] = i
             ELSE /\ records[i].state # "acknowledged"
                  /\ records[i].state = "discarded" =>
                       \A j \in Group(b) : records[j].seq <= records[i].seq
  <2>1. /\ records[i].state = "acknowledged" <=> records[i].seq < Expected(b)
        /\ records[i].state = "acknowledged" =>
             checkpoint[b][records[i].seq + 1] = i
    BY <1>1 DEF AckedPrefix
  <2>2. records[i].state = "discarded" =>
          \A j \in Group(b) : records[j].seq <= records[i].seq
    BY <1>1, <1>2 DEF DiscardedLast
  <2>3. QED
    BY <2>1, <2>2
<1>7. records[f].seq < Expected(b) =>
        \E i \in Group(b) : records[i].seq = Expected(b) - 1
  <2> SUFFICES ASSUME records[f].seq < Expected(b)
               PROVE  \E i \in Group(b) : records[i].seq = Expected(b) - 1
    OBVIOUS
  <2>1. Expected(b) > 0
    BY <1>3
  <2>2. PICK i \in Ids : /\ Present(i) /\ records[i].batch = b
                         /\ records[i].seq + 1 = Expected(b)
    BY <2>1 DEF Tip
  <2>3. i \in Group(b) /\ records[i].seq = Expected(b) - 1
    BY <2>2, Fields DEF Group
  <2>4. QED
    BY <2>3
<1>8. records[f].seq \in {0, Expected(b)}
  BY <1>3
<1>9. QED
  BY <1>3, <1>4, <1>5, <1>6, <1>7, <1>8

\* Nothing is sent ahead of an earlier record that is not delivered.
LEMMA SentIsInOrder ==
  ASSUME RecordInv, BatchInv, Vouched
  PROVE  InOrderDelivery
<1> SUFFICES ASSUME NEW i \in Ids, NEW j \in Ids, Present(i), Present(j),
                    records[i].batch = records[j].batch,
                    records[j].seq < records[i].seq,
                    records[i].attempts > 0
             PROVE  records[j].state = "acknowledged" /\ j \in accepted
  BY DEF InOrderDelivery
<1>1. records[i].seq <= Expected(records[i].batch)
  BY DEF BatchInv, SentInOrder
<1>2. records[i].batch \in Batches
  BY DEF BatchInv, InBatches
<1>3. records[j].seq < Expected(records[j].batch)
  BY <1>1, <1>2, Fields
<1>4. records[j].state = "acknowledged"
  BY <1>3 DEF BatchInv, AckedPrefix
<1>5. QED
  BY <1>4 DEF Vouched, AcknowledgedIsDelivered

-----------------------------------------------------------------------------
(***************************************************************************)
(* BatchInv and Vouched are inductive, given RecordInv.                    *)
(***************************************************************************)

\* An operation that adds no record and acknowledges none keeps every batch in
\* shape, if what it discards is last in its batch and what it sends is next.
LEMMA ShapeKept ==
  ASSUME RecordInv, BatchInv, checkpoint' = checkpoint,
         \A i \in Ids :
           /\ records'[i].owner = records[i].owner
           /\ records'[i].batch = records[i].batch
           /\ records'[i].seq = records[i].seq
           /\ records'[i].state = "absent" <=> records[i].state = "absent"
           /\ records'[i].state = "acknowledged" <=>
                records[i].state = "acknowledged"
           /\ records'[i].state = "discarded" =>
                \/ records[i].state = "discarded"
                \/ \A j \in Group(records[i].batch) :
                     records[j].seq <= records[i].seq
           /\ Present(i) /\ records'[i].attempts > 0 =>
                \/ records[i].attempts > 0
                \/ records[i].seq <= Expected(records[i].batch)
  PROVE  BatchInv'
<1> USE DEF BatchInv
<1>1. \A i \in Ids : Present(i)' <=> Present(i)
  BY DEF Present
<1>2. \A i, j \in Ids : Mates(i, j)' <=> Mates(i, j)
  BY <1>1 DEF Mates
<1>3. \A b : Expected(b)' = Expected(b)
  BY DEF Expected
<1>4. InBatches' /\ DistinctSeqs' /\ OneOwner'
  BY <1>1, <1>2 DEF InBatches, DistinctSeqs, OneOwner
<1>5. NoGaps'
  BY <1>1, <1>2 DEF NoGaps
<1>6. AckedPrefix'
  BY <1>1, <1>3 DEF AckedPrefix
<1>7. Tip'
  BY <1>1, <1>3 DEF Tip
<1>8. DiscardedLast'
  BY <1>1, <1>2 DEF DiscardedLast, Mates, Group
<1>9. SentInOrder'
  BY <1>1, <1>3 DEF SentInOrder
<1>10. QED
  BY <1>4, <1>5, <1>6, <1>7, <1>8, <1>9

\* fail keeps a record's evidence and attempts.
LEMMA FailedKeeps ==
  ASSUME NEW r \in Record, NEW minimum, NEW jitter
  PROVE  LET q == Failed(r, minimum, jitter)
         IN  /\ q.owner = r.owner /\ q.batch = r.batch /\ q.seq = r.seq
             /\ q.attempts = r.attempts
             /\ q.state \in {"pending", "retry_wait"}
<1>1. CASE r.attempts >= MaxAttempts
  BY <1>1 DEF Failed, BackToPending, Record
<1>2. CASE ~(r.attempts >= MaxAttempts)
  BY <1>2 DEF Failed, Record
<1>3. QED
  BY <1>1, <1>2

\* claim takes the record after the acknowledged prefix: the record there is
\* not discarded, as it is not the last, and claim would take it first.
LEMMA ClaimsTip ==
  ASSUME RecordInv, BatchInv, NEW o \in Bindings, NEW i \in Claimable(o),
         \A j \in Claimable(o) \ {i} : Before(i, j)
  PROVE  records[i].seq <= Expected(records[i].batch)
<1> DEFINE b == records[i].batch
<1> SUFFICES ASSUME ~(records[i].seq <= Expected(b)) PROVE FALSE
  OBVIOUS
<1>1. i \in Ids /\ records[i].owner = o /\ Present(i)
  BY DEF Claimable, Present
<1>2. b \in Batches /\ Expected(b) \in Nat
  BY <1>1, Fields DEF BatchInv, InBatches
<1>3. Expected(b) \in 0..(records[i].seq - 1)
  BY <1>1, <1>2, Fields
<1>4. PICK j \in Ids : Mates(i, j) /\ records[j].seq = Expected(b)
  BY <1>1, <1>3 DEF BatchInv, NoGaps
<1>5. /\ Present(j) /\ records[j].batch = b /\ records[j].owner = o
      /\ records[j].seq < records[i].seq
  BY <1>1, <1>2, <1>3, <1>4, Fields DEF Mates, BatchInv, OneOwner
<1>6. records[j].state \notin {"acknowledged", "discarded", "absent"}
  BY <1>1, <1>2, <1>4, <1>5, Fields
  DEF BatchInv, AckedPrefix, DiscardedLast, Mates, Present
<1>7. ~Blocks(j)
  BY <1>1, <1>5 DEF Claimable, Group
<1>8. records[j].state \in {"pending", "retry_wait"}
  BY <1>6, <1>7, Fields DEF Blocks, States
<1>9. records[j].attempts < MaxAttempts
  <2>1. validateRecord(records[j])
    BY DEF RecordInv, Stored, Sound
  <2>2. records[j].state = "pending" => records[j].disposition = "automatic"
    BY <1>7 DEF Blocks
  <2>3. QED
    BY <1>8, <2>1, <2>2 DEF validateRecord
<1>10. ASSUME NEW k \in Group(b), records[k].seq < records[j].seq
       PROVE  ~Blocks(k)
  <2>1. k \in Ids /\ Present(k) /\ records[k].batch = b
    BY DEF Group
  <2>2. records[k].state = "acknowledged"
    BY <1>4, <1>10, <2>1 DEF BatchInv, AckedPrefix
  <2>3. records[k].hold # "held"
    BY <2>1, <2>2 DEF RecordInv, Stored, Sound
  <2>4. QED
    BY <2>2, <2>3 DEF Blocks
<1>11. j \in Claimable(o)
  BY <1>5, <1>7, <1>8, <1>9, <1>10 DEF Claimable
<1>12. Before(i, j)
  BY <1>5, <1>11, <1>1, Fields
<1>13. QED
  BY <1>1, <1>5, <1>12, Fields DEF Before

\* A record enters its batch at the next sequence.
LEMMA EnqueueShape ==
  ASSUME RecordInv, BatchInv, NEW h \in Handles, NEW o \in Bindings,
         NEW i \in Ids, NEW b \in Batches, NEW n \in 0..MaxRecords,
         enqueue(h, o, i, b, n)
  PROVE  BatchInv'
<1> USE DEF BatchInv
<1>1. /\ ~Present(i) /\ checkpoint' = checkpoint
      /\ validateEnqueueSequence(o, b, n)
  BY DEF enqueue
<1>2. /\ records'[i].owner = o /\ records'[i].batch = b /\ records'[i].seq = n
      /\ records'[i].state = "pending" /\ records'[i].attempts = 0
      /\ \A j \in Ids \ {i} : records'[j] = records[j]
  BY DEF enqueue, RecordInv, TypeOK, Blank
<1>3. /\ \A j \in Ids \ {i} : Present(j)' <=> Present(j)
      /\ Present(i)'
      /\ \A c : Expected(c)' = Expected(c)
  BY <1>1, <1>2 DEF Present, Expected
<1>4. n \in Nat /\ Expected(b) \in Nat /\ n >= Expected(b)
  BY <1>1, Fields, QueueAssumption DEF validateEnqueueSequence, QueueAssumption
<1>5. \A j \in Group(b) : /\ j \in Ids /\ j # i
                          /\ Present(j) /\ records[j].batch = b
                          /\ records[j].owner = o
                          /\ records[j].state # "discarded"
                          /\ records[j].seq < n
  BY <1>1 DEF validateEnqueueSequence, Group
<1>6. \A j \in Ids \ {i} : Mates(i, j)' <=> j \in Group(b)
  BY <1>2, <1>3 DEF Mates, Group
<1>7. \A j \in Ids \ {i} : Mates(j, i)' <=> j \in Group(b)
  BY <1>2, <1>3 DEF Mates, Group
<1>8. \A j, k \in Ids \ {i} : Mates(j, k)' <=> Mates(j, k)
  BY <1>2, <1>3 DEF Mates
<1>9. InBatches'
  BY <1>2, <1>3 DEF InBatches
<1>10. DistinctSeqs'
  BY <1>2, <1>4, <1>5, <1>6, <1>7, <1>8, Fields DEF DistinctSeqs
<1>11. OneOwner'
  BY <1>2, <1>5, <1>6, <1>7, <1>8 DEF OneOwner
<1>12. NoGaps'
  <2> SUFFICES ASSUME NEW j \in Ids, Present(j)',
                      NEW m \in 0..(records'[j].seq - 1)
               PROVE  \E k \in Ids : Mates(j, k)' /\ records'[k].seq = m
    BY DEF NoGaps
  <2>1. CASE j # i
    <3>1. PICK k \in Ids : Mates(j, k) /\ records[k].seq = m
      BY <2>1, <1>2, <1>3 DEF NoGaps
    <3>2. k # i
      BY <3>1, <1>1 DEF Mates
    <3>3. QED
      BY <2>1, <3>1, <3>2, <1>2, <1>8
  <2>2. CASE j = i
    <3>1. m \in Nat /\ m < n
      BY <2>2, <1>2, <1>4
    <3>2. PICK k \in Group(b) : records[k].seq + 1 = n
      <4>1. CASE n = Expected(b)
        <5>1. Expected(b) > 0
          BY <3>1, <4>1
        <5>2. PICK k \in Ids : /\ Present(k) /\ records[k].batch = b
                               /\ records[k].seq + 1 = Expected(b)
          BY <5>1 DEF Tip
        <5>3. QED
          BY <5>2, <4>1 DEF Group
      <4>2. CASE \E k \in Group(b) : n = records[k].seq + 1
        BY <4>2
      <4>3. QED
        BY <1>1, <4>1, <4>2 DEF validateEnqueueSequence
    <3>3. k \in Ids \ {i} /\ Present(k) /\ records[k].batch = b
      BY <1>5
    <3>4. CASE m = records[k].seq
      BY <2>2, <3>3, <3>4, <1>2, <1>6
    <3>5. CASE m # records[k].seq
      <4>1. m \in 0..(records[k].seq - 1)
        BY <3>1, <3>2, <3>3, <3>5, <1>4, Fields
      <4>2. PICK l \in Ids : Mates(k, l) /\ records[l].seq = m
        BY <3>3, <4>1 DEF NoGaps
      <4>3. l \in Group(b)
        BY <3>3, <4>2 DEF Mates, Group
      <4>4. l \in Ids \ {i} /\ Mates(i, l)'
        BY <4>3, <1>5, <1>6
      <4>5. QED
        BY <2>2, <4>2, <4>4, <1>2
    <3>6. QED
      BY <3>4, <3>5
  <2>3. QED
    BY <2>1, <2>2
<1>13. AckedPrefix'
  <2> SUFFICES ASSUME NEW j \in Ids, Present(j)'
               PROVE  (/\ records[j].state = "acknowledged" <=>
                            records[j].seq < Expected(records[j].batch)
                       /\ records[j].state = "acknowledged" =>
                            checkpoint[records[j].batch][records[j].seq + 1]
                              = j)'
    BY DEF AckedPrefix
  <2>1. CASE j = i
    BY <2>1, <1>2, <1>3, <1>4
  <2>2. CASE j # i
    BY <2>2, <1>1, <1>2, <1>3 DEF AckedPrefix
  <2>3. QED
    BY <2>1, <2>2
<1>14. Tip'
  <2> SUFFICES ASSUME NEW c \in Batches, (Expected(c) > 0)'
               PROVE  (\E j \in Ids : /\ Present(j) /\ records[j].batch = c
                                      /\ records[j].seq + 1 = Expected(c))'
    BY DEF Tip
  <2>1. PICK j \in Ids : /\ Present(j) /\ records[j].batch = c
                         /\ records[j].seq + 1 = Expected(c)
    BY <1>3 DEF Tip
  <2>2. j # i
    BY <2>1, <1>1
  <2>3. QED
    BY <2>1, <2>2, <1>2, <1>3
<1>15. DiscardedLast'
  <2> SUFFICES ASSUME NEW j \in Ids, NEW k \in Ids, Mates(j, k)',
                      records'[j].state = "discarded"
               PROVE  records'[k].seq <= records'[j].seq
    BY DEF DiscardedLast
  <2>1. j # i
    BY <1>2
  <2>2. k # i
    BY <2>1, <1>2, <1>5, <1>7
  <2>3. QED
    BY <2>1, <2>2, <1>2, <1>8 DEF DiscardedLast
<1>16. SentInOrder'
  BY <1>2, <1>3 DEF SentInOrder
<1>17. QED
  BY <1>9, <1>10, <1>11, <1>12, <1>13, <1>14, <1>15, <1>16

\* Record and checkpoint move together: the record acknowledged is the one the
\* checkpoint expects.
LEMMA AckShape ==
  ASSUME RecordInv, BatchInv, NEW h \in Handles, ack(h)
  PROVE  BatchInv'
<1> USE DEF BatchInv
<1>0. PICK i : i = uploader[h].id
  OBVIOUS
<1>b. PICK b : b = records[i].batch
  OBVIOUS
<1>1. i \in Ids
  BY <1>0 DEF ack, RecordInv, Engaged, Busy
<1>2. /\ records[i].state = "sending" /\ records[i].seq = Expected(b)
      /\ checkpoint' = [checkpoint EXCEPT ![b] = Append(@, i)]
  BY <1>0, <1>b DEF ack, AckAccepted
<1>3. /\ records'[i].owner = records[i].owner
      /\ records'[i].batch = b
      /\ records'[i].seq = records[i].seq
      /\ records'[i].state = "acknowledged"
      /\ records'[i].attempts = records[i].attempts
      /\ \A j \in Ids \ {i} : records'[j] = records[j]
  BY <1>0, <1>b, <1>1 DEF ack, RecordInv, TypeOK, Record
<1>4. Present(i) /\ b \in Batches
  BY <1>1, <1>2, <1>b DEF Present, InBatches
<1>5. checkpoint[b] \in Seq(Ids) /\ Expected(b) \in Nat
  BY <1>4, Fields
<1>6. /\ checkpoint'[b] = Append(checkpoint[b], i)
      /\ \A c \in Batches \ {b} : checkpoint'[c] = checkpoint[c]
  BY <1>2, <1>4 DEF RecordInv, TypeOK
<1>7. /\ Expected(b)' = Expected(b) + 1
      /\ \A c \in Batches \ {b} : Expected(c)' = Expected(c)
      /\ checkpoint'[b][Expected(b) + 1] = i
      /\ \A m \in 1..Expected(b) : checkpoint'[b][m] = checkpoint[b][m]
  BY <1>1, <1>5, <1>6 DEF Expected
<1>8. /\ \A j \in Ids : Present(j)' <=> Present(j)
      /\ \A j \in Ids : records'[j].owner = records[j].owner
                        /\ records'[j].batch = records[j].batch
                        /\ records'[j].seq = records[j].seq
                        /\ records'[j].attempts = records[j].attempts
      /\ \A j \in Ids \ {i} : records'[j].state = records[j].state
  BY <1>1, <1>2, <1>3, <1>b DEF Present
<1>9. \A j, k \in Ids : Mates(j, k)' <=> Mates(j, k)
  BY <1>8 DEF Mates
<1>10. InBatches' /\ DistinctSeqs' /\ OneOwner' /\ NoGaps'
  BY <1>8, <1>9 DEF InBatches, DistinctSeqs, OneOwner, NoGaps
<1>11. DiscardedLast'
  BY <1>3, <1>8, <1>9 DEF DiscardedLast
<1>12. ASSUME NEW j \in Ids, Present(j)
       PROVE  /\ records[j].batch \in Batches /\ records[j].seq \in Nat
              /\ Expected(records[j].batch) \in Nat
  BY <1>12, Fields DEF InBatches
<1>13. SentInOrder'
  <2> SUFFICES ASSUME NEW j \in Ids, Present(j), records[j].attempts > 0
               PROVE  (records[j].seq <= Expected(records[j].batch))'
    BY <1>8 DEF SentInOrder
  <2>1. records[j].seq <= Expected(records[j].batch)
    BY DEF SentInOrder
  <2>2. QED
    BY <2>1, <1>5, <1>7, <1>8, <1>12
<1>14. Tip'
  <2> SUFFICES ASSUME NEW c \in Batches, (Expected(c) > 0)'
               PROVE  (\E j \in Ids : /\ Present(j) /\ records[j].batch = c
                                      /\ records[j].seq + 1 = Expected(c))'
    BY DEF Tip
  <2>1. CASE c = b
    BY <2>1, <1>1, <1>2, <1>3, <1>4, <1>7, <1>8
  <2>2. CASE c # b
    BY <2>2, <1>7, <1>8 DEF Tip
  <2>3. QED
    BY <2>1, <2>2
<1>15. AckedPrefix'
  <2> SUFFICES ASSUME NEW j \in Ids, Present(j)
               PROVE  (/\ records[j].state = "acknowledged" <=>
                            records[j].seq < Expected(records[j].batch)
                       /\ records[j].state = "acknowledged" =>
                            checkpoint[records[j].batch][records[j].seq + 1]
                              = j)'
    BY <1>8 DEF AckedPrefix
  <2>0. /\ records[j].state = "acknowledged" <=>
             records[j].seq < Expected(records[j].batch)
        /\ records[j].state = "acknowledged" =>
             checkpoint[records[j].batch][records[j].seq + 1] = j
    BY DEF AckedPrefix
  <2>1. CASE j = i
    <3>1. /\ Len(checkpoint'[b]) = Expected(b) + 1
          /\ records'[j].batch = b /\ records'[j].seq = Expected(b)
          /\ records'[j].state = "acknowledged"
      BY <2>1, <1>2, <1>3, <1>7 DEF Expected
    <3>2. QED
      BY <2>1, <3>1, <1>5, <1>7 DEF Expected
  <2>2. CASE j # i /\ records[j].batch # b
    <3>1. records[j].batch \in Batches \ {b}
      BY <2>2, <1>12
    <3>2. /\ checkpoint'[records[j].batch] = checkpoint[records[j].batch]
          /\ Len(checkpoint'[records[j].batch]) = Expected(records[j].batch)
      BY <3>1, <1>6 DEF Expected
    <3>3. records'[j] = records[j]
      BY <2>2, <1>3
    <3>4. QED
      BY <2>0, <3>2, <3>3 DEF Expected
  <2>3. CASE j # i /\ records[j].batch = b
    <3>1. records[j].seq # Expected(b)
      BY <2>3, <1>1, <1>2, <1>4, <1>b DEF DistinctSeqs, Mates
    <3>2. records[j].seq < Expected(b)' <=> records[j].seq < Expected(b)
      BY <2>3, <3>1, <1>5, <1>7, <1>12
    <3>3. records[j].seq < Expected(b) =>
            checkpoint'[b][records[j].seq + 1]
              = checkpoint[b][records[j].seq + 1]
      <4> SUFFICES ASSUME records[j].seq < Expected(b)
                   PROVE  records[j].seq + 1 \in 1..Expected(b)
        BY <1>7
      <4> QED
        BY <1>5, <1>12
    <3>4. QED
      BY <2>0, <2>3, <3>2, <3>3, <1>8
  <2>4. QED
    BY <2>1, <2>2, <2>3
<1>16. QED
  BY <1>10, <1>11, <1>13, <1>14, <1>15

\* Every operation keeps the batches in shape.
LEMMA BatchInvNext == RecordInv /\ BatchInv /\ [Next]_vars => BatchInv'
<1> SUFFICES ASSUME RecordInv, BatchInv, [Next]_vars PROVE BatchInv'
  OBVIOUS
<1>rec. \A i \in Ids : Sound(records[i]) /\ records[i] \in Record
  BY DEF RecordInv, Stored, Sound
<1>same. ASSUME UNCHANGED <<records, checkpoint>> PROVE BatchInv'
  BY <1>same, ShapeKept
<1>1. ASSUME NEW h \in Handles, NEW o \in Bindings, claim(h, o)
      PROVE  BatchInv'
  <2>1. PICK i \in Claimable(o) :
          /\ \A j \in Claimable(o) \ {i} : Before(i, j)
          /\ records' = [records EXCEPT ![i] = SendingNow(@)]
    BY <1>1 DEF claim
  <2>2. /\ i \in Ids /\ records[i].state \in {"pending", "retry_wait"}
        /\ records[i].seq <= Expected(records[i].batch)
    BY <2>1, ClaimsTip DEF Claimable
  <2>3. \A j \in Ids \ {i} : records'[j] = records[j]
    BY <2>1 DEF RecordInv, TypeOK
  <2>4. /\ records'[i].owner = records[i].owner
        /\ records'[i].batch = records[i].batch
        /\ records'[i].seq = records[i].seq
        /\ records'[i].state = "sending"
    BY <2>1, <2>2, <1>rec DEF RecordInv, TypeOK, SendingNow, Record
  <2>5. checkpoint' = checkpoint
    BY <1>1 DEF claim
  <2>6. QED
    BY <2>2, <2>3, <2>4, <2>5, ShapeKept
<1>2. ASSUME NEW h \in Handles, NEW i \in Ids, manualRetry(h, i)
      PROVE  BatchInv'
  <2>1. /\ records[i].state = "pending"
        /\ records[i].disposition = "manual_intervention"
           \/ records[i].hold = "held"
        /\ records' = [records EXCEPT ![i] = SendingNow(@)]
        /\ checkpoint' = checkpoint
    BY <1>2 DEF manualRetry
  <2>2. records[i].attempts > 0
    BY <2>1, <1>rec, Policy, Fields DEF Sound, validateRecord
  <2>3. \A j \in Ids \ {i} : records'[j] = records[j]
    BY <2>1 DEF RecordInv, TypeOK
  <2>4. /\ records'[i].owner = records[i].owner
        /\ records'[i].batch = records[i].batch
        /\ records'[i].seq = records[i].seq
        /\ records'[i].state = "sending"
    BY <2>1, <1>rec DEF RecordInv, TypeOK, SendingNow, Record
  <2>5. QED
    BY <2>1, <2>2, <2>3, <2>4, ShapeKept
<1>3. ASSUME NEW h \in Handles, hold(h)
      PROVE  BatchInv'
  <2>1. PICK i : i = uploader[h].id
    OBVIOUS
  <2>2. CASE records' = records
    BY <1>3, <2>2, <1>same DEF hold
  <2>3. CASE records' # records
    <3>1. /\ i \in Ids /\ records[i].state = "sending"
          /\ records' = [records EXCEPT ![i] =
                           [BackToPending(@) EXCEPT !.hold = "held"]]
          /\ checkpoint' = checkpoint
      BY <1>3, <2>1, <2>3 DEF hold, RecordInv, Engaged, Busy
    <3>2. \A j \in Ids \ {i} : records'[j] = records[j]
      BY <3>1 DEF RecordInv, TypeOK
    <3>3. /\ records'[i].owner = records[i].owner
          /\ records'[i].batch = records[i].batch
          /\ records'[i].seq = records[i].seq
          /\ records'[i].attempts = records[i].attempts
          /\ records'[i].state = "pending"
      BY <3>1, <1>rec DEF RecordInv, TypeOK, BackToPending, Record
    <3>4. QED
      BY <3>1, <3>2, <3>3, ShapeKept
  <2>4. QED
    BY <2>2, <2>3
<1>4. ASSUME NEW h \in Handles, NEW jitter \in Jitters, fail(h, jitter)
      PROVE  BatchInv'
  <2>1. PICK i : i = uploader[h].id
    OBVIOUS
  <2>2. CASE records' = records
    BY <1>4, <2>2, <1>same DEF fail
  <2>3. CASE records' # records
    <3>1. /\ i \in Ids /\ records[i].state = "sending"
          /\ records' = [records EXCEPT ![i] =
                           Failed(@, uploader[h].minimum, jitter)]
          /\ checkpoint' = checkpoint
      BY <1>4, <2>1, <2>3 DEF fail, RecordInv, Engaged, Busy
    <3>2. \A j \in Ids \ {i} : records'[j] = records[j]
      BY <3>1 DEF RecordInv, TypeOK
    <3>3. records'[i] = Failed(records[i], uploader[h].minimum, jitter)
      BY <3>1 DEF RecordInv, TypeOK
    <3>4. /\ records'[i].owner = records[i].owner
          /\ records'[i].batch = records[i].batch
          /\ records'[i].seq = records[i].seq
          /\ records'[i].attempts = records[i].attempts
          /\ records'[i].state \in {"pending", "retry_wait"}
      BY <3>1, <3>3, <1>rec, FailedKeeps
    <3>5. QED
      BY <3>1, <3>2, <3>4, ShapeKept
  <2>4. QED
    BY <2>2, <2>3
<1>5. ASSUME NEW h \in Handles, openQueue(h)
      PROVE  BatchInv'
  <2>1. \A i \in Ids : /\ records[i].state # "sending" => records'[i] = records[i]
                       /\ records[i].state = "sending" =>
                            records'[i] = BackToPending(records[i])
    BY <1>5 DEF openQueue, recoverAllSending
  <2>2. \A i \in Ids : /\ records'[i].owner = records[i].owner
                       /\ records'[i].batch = records[i].batch
                       /\ records'[i].seq = records[i].seq
                       /\ records'[i].attempts = records[i].attempts
                       /\ \/ records'[i].state = records[i].state
                          \/ /\ records[i].state = "sending"
                             /\ records'[i].state = "pending"
    BY <2>1, <1>rec DEF BackToPending, Record
  <2>3. QED
    BY <1>5, <2>2, ShapeKept DEF openQueue
<1>6. ASSUME NEW h \in Handles, NEW i \in Ids, recover(h, i)
      PROVE  BatchInv'
  <2>1. /\ records[i].state = "sending" /\ checkpoint' = checkpoint
        /\ records' = [records EXCEPT ![i] = BackToPending(@)]
    BY <1>6 DEF recover
  <2>2. \A j \in Ids \ {i} : records'[j] = records[j]
    BY <2>1 DEF RecordInv, TypeOK
  <2>3. /\ records'[i].owner = records[i].owner
        /\ records'[i].batch = records[i].batch
        /\ records'[i].seq = records[i].seq
        /\ records'[i].attempts = records[i].attempts
        /\ records'[i].state = "pending"
    BY <2>1, <1>rec DEF RecordInv, TypeOK, BackToPending, Record
  <2>4. QED
    BY <2>1, <2>2, <2>3, ShapeKept
<1>7. ASSUME NEW h \in Handles, NEW i \in Ids, discard(h, i)
      PROVE  BatchInv'
  <2>1. /\ records[i].state = "pending" /\ checkpoint' = checkpoint
        /\ records' = [records EXCEPT ![i].state = "discarded"]
        /\ \A j \in Group(records[i].batch) : records[j].seq <= records[i].seq
    BY <1>7 DEF discard
  <2>2. \A j \in Ids \ {i} : records'[j] = records[j]
    BY <2>1 DEF RecordInv, TypeOK
  <2>3. /\ records'[i].owner = records[i].owner
        /\ records'[i].batch = records[i].batch
        /\ records'[i].seq = records[i].seq
        /\ records'[i].attempts = records[i].attempts
        /\ records'[i].state = "discarded"
    BY <2>1, <1>rec DEF RecordInv, TypeOK, Record
  <2>4. QED
    BY <2>1, <2>2, <2>3, ShapeKept
<1>8. ASSUME NEW h \in Handles,
             \/ \E at \in Times : SendReceipt(h, at)
             \/ \E minimum \in RetryAfters : SendTransient(h, minimum)
             \/ SendRefused(h) \/ ackAgain(h) \/ ackRefused(h)
             \/ Stop(h) \/ Cancel(h)
      PROVE  BatchInv'
  BY <1>8, <1>same
  DEF SendReceipt, SendTransient, SendRefused, ackAgain, ackRefused, Stop,
      Cancel
<1>9. ASSUME \/ \E i \in Ids : ServerAccept(i)
             \/ \E t \in Times : SetClock(t)
             \/ UNCHANGED vars
      PROVE  BatchInv'
  BY <1>9, <1>same DEF ServerAccept, SetClock, vars
<1>10. QED
  BY <1>1, <1>2, <1>3, <1>4, <1>5, <1>6, <1>7, <1>8, <1>9,
     EnqueueShape, AckShape
  DEF Next, Uploading, Managing

\* A receipt is only ever for accepted evidence, and evidence stays accepted.
LEMMA VouchedNext == RecordInv /\ Vouched /\ [Next]_vars => Vouched'
<1> SUFFICES ASSUME RecordInv, Vouched, [Next]_vars PROVE Vouched'
  OBVIOUS
<1> USE DEF Vouched, AcknowledgedIsDelivered
<1>rec. /\ \A i \in Ids : records[i] \in Record
        /\ records \in [Ids -> Record] /\ uploader \in [Handles -> Job]
  BY DEF RecordInv, TypeOK
<1>keep. ASSUME NEW h \in Handles, NEW job,
                uploader' = [uploader EXCEPT ![h] = job],
                job.pc # "acking" \/ job.id \in accepted,
                accepted' = accepted,
                \A i \in Ids : records'[i].state = "acknowledged" =>
                                 records[i].state = "acknowledged"
         PROVE  Vouched'
  BY <1>keep, <1>rec
<1>stay. ASSUME uploader' = uploader, accepted \subseteq accepted',
                \A i \in Ids : records'[i].state = "acknowledged" =>
                                 records[i].state = "acknowledged"
         PROVE  Vouched'
  BY <1>stay
<1>idle. Idle.pc # "acking" /\ Closed.pc # "acking"
  BY DEF Idle, Closed
<1>1. ASSUME NEW h \in Handles, NEW i \in Ids,
             records' = [records EXCEPT ![i] = SendingNow(@)],
             uploader' = [uploader EXCEPT ![h] = Attempting(i)],
             accepted' = accepted
      PROVE  Vouched'
  <2>1. Attempting(i).pc # "acking"
    BY DEF Attempting, Idle
  <2>2. SendingNow(records[i]).state = "sending"
    BY <1>rec DEF SendingNow, Record
  <2>3. \A j \in Ids : records'[j].state = "acknowledged" =>
                         records[j].state = "acknowledged"
    BY <1>1, <1>rec, <2>2
  <2>4. QED
    BY <1>1, <2>1, <2>3, <1>keep
<1>2. ASSUME NEW h \in Handles, NEW at \in Times, SendReceipt(h, at)
      PROVE  Vouched'
  <2> DEFINE job == [uploader[h] EXCEPT !.pc = "acking", !.at = at]
  <2>1. uploader' = [uploader EXCEPT ![h] = job] /\ job.id \in accepted
    BY <1>2, <1>rec DEF SendReceipt, Job
  <2>2. records' = records /\ accepted' = accepted
    BY <1>2 DEF SendReceipt
  <2> HIDE DEF job
  <2>3. QED
    BY <2>1, <2>2, <1>keep
<1>3. ASSUME NEW h \in Handles,
             \/ \E minimum \in RetryAfters : SendTransient(h, minimum)
             \/ SendRefused(h) \/ ackRefused(h)
      PROVE  Vouched'
  <2>1. PICK job \in {[uploader[h] EXCEPT !.pc = "failing", !.minimum = m] :
                        m \in RetryAfters}
                     \cup {[uploader[h] EXCEPT !.pc = "holding"]} :
          uploader' = [uploader EXCEPT ![h] = job]
    BY <1>3, <1>rec DEF SendTransient, SendRefused, ackRefused
  <2>2. job.pc # "acking"
    BY <1>rec DEF Job
  <2>3. records' = records /\ accepted' = accepted
    BY <1>3 DEF SendTransient, SendRefused, ackRefused
  <2>4. QED
    BY <2>1, <2>2, <2>3, <1>keep
<1>4. ASSUME NEW h \in Handles, ackAgain(h) \/ Cancel(h)
      PROVE  Vouched'
  BY <1>4, <1>idle, <1>keep DEF ackAgain, Cancel
<1>5. ASSUME NEW h \in Handles, Stop(h)
      PROVE  Vouched'
  BY <1>5, <1>idle, <1>keep DEF Stop
<1>6. ASSUME NEW h \in Handles, ack(h)
      PROVE  Vouched'
  <2>1. PICK i : i = uploader[h].id
    OBVIOUS
  <2>2. /\ i \in Ids /\ i \in accepted
        /\ uploader' = [uploader EXCEPT ![h] = Idle]
        /\ accepted' = accepted
    BY <1>6, <2>1 DEF ack, RecordInv, Engaged, Busy
  <2>3. \A j \in Ids \ {i} : records'[j] = records[j]
    BY <1>6, <1>rec, <2>1, <2>2 DEF ack
  <2>4. \A g \in Handles : uploader'[g] = IF g = h THEN Idle ELSE uploader[g]
    BY <1>rec, <2>2
  <2>5. QED
    BY <2>2, <2>3, <2>4, <1>idle
<1>7. ASSUME NEW h \in Handles, hold(h)
      PROVE  Vouched'
  <2>1. PICK i : i = uploader[h].id
    OBVIOUS
  <2>2. i \in Ids
    BY <1>7, <2>1 DEF hold, RecordInv, Engaged, Busy
  <2>3. [BackToPending(records[i]) EXCEPT !.hold = "held"].state = "pending"
    BY <1>rec, <2>2 DEF BackToPending, Record
  <2>4. \A j \in Ids : records'[j].state = "acknowledged" =>
                         records[j].state = "acknowledged"
    BY <1>7, <1>rec, <2>1, <2>2, <2>3 DEF hold
  <2>5. QED
    BY <1>7, <2>4, <1>idle, <1>keep DEF hold
<1>8. ASSUME NEW h \in Handles, NEW jitter \in Jitters, fail(h, jitter)
      PROVE  Vouched'
  <2>1. PICK i : i = uploader[h].id
    OBVIOUS
  <2>2. i \in Ids
    BY <1>8, <2>1 DEF fail, RecordInv, Engaged, Busy
  <2>3. Failed(records[i], uploader[h].minimum, jitter).state
          \in {"pending", "retry_wait"}
    BY <1>rec, <2>2, FailedKeeps
  <2>4. \A j \in Ids : records'[j].state = "acknowledged" =>
                         records[j].state = "acknowledged"
    BY <1>8, <1>rec, <2>1, <2>2, <2>3 DEF fail
  <2>5. QED
    BY <1>8, <2>4, <1>idle, <1>keep DEF fail
<1>9. \A i \in Ids : BackToPending(records[i]).state = "pending"
  BY <1>rec DEF BackToPending, Record
<1>10. ASSUME NEW h \in Handles, openQueue(h)
       PROVE  Vouched'
  <2>1. \A j \in Ids : records'[j].state = "acknowledged" =>
                         records[j].state = "acknowledged"
    BY <1>10, <1>9 DEF openQueue, recoverAllSending
  <2>2. QED
    BY <1>10, <2>1, <1>idle, <1>keep DEF openQueue
<1>11. ASSUME NEW h \in Handles, NEW o \in Bindings, NEW i \in Ids,
              NEW b \in Batches, NEW n \in 0..MaxRecords,
              enqueue(h, o, i, b, n)
       PROVE  Vouched'
  BY <1>11, <1>rec, <1>stay DEF enqueue, Blank
<1>12. ASSUME NEW h \in Handles, NEW i \in Ids, recover(h, i)
       PROVE  Vouched'
  BY <1>12, <1>rec, <1>9, <1>stay DEF recover
<1>13. ASSUME NEW h \in Handles, NEW i \in Ids, discard(h, i)
       PROVE  Vouched'
  BY <1>13, <1>rec, <1>stay DEF discard, Record
<1>14. ASSUME \/ \E i \in Ids : ServerAccept(i)
              \/ \E t \in Times : SetClock(t)
              \/ UNCHANGED vars
       PROVE  Vouched'
  BY <1>14, <1>stay DEF ServerAccept, SetClock, vars
<1>15. ASSUME NEW h \in Handles, NEW o \in Bindings, claim(h, o)
       PROVE  Vouched'
  BY <1>15, <1>1 DEF claim, Claimable
<1>16. ASSUME NEW h \in Handles, NEW i \in Ids, manualRetry(h, i)
       PROVE  Vouched'
  BY <1>16, <1>1 DEF manualRetry
<1>17. QED
  BY <1>2, <1>3, <1>4, <1>5, <1>6, <1>7, <1>8, <1>10, <1>11, <1>12, <1>13,
     <1>14, <1>15, <1>16
  DEF Next, Uploading, Managing

-----------------------------------------------------------------------------
(***************************************************************************)
(* The theorems.                                                           *)
(***************************************************************************)

\* RecordInv, BatchInv and Vouched hold together in every reachable state.
THEOREM OrderInvariant == Spec => [](RecordInv /\ BatchInv /\ Vouched)
<1>1. Init => BatchInv /\ Vouched
  <2> SUFFICES ASSUME Init PROVE BatchInv /\ Vouched
    OBVIOUS
  <2>1. \A i \in Ids : ~Present(i) /\ records[i].state = "absent"
    BY DEF Init, Present, Blank
  <2>2. \A b \in Batches : Expected(b) = 0
    BY DEF Init, Expected
  <2>3. BatchInv
    BY <2>1, <2>2
    DEF BatchInv, Mates, InBatches, DistinctSeqs, OneOwner, NoGaps,
        AckedPrefix, Tip, DiscardedLast, SentInOrder
  <2>4. Vouched
    BY <2>1 DEF Init, Vouched, AcknowledgedIsDelivered, Closed, Idle
  <2>5. QED
    BY <2>3, <2>4
<1>2. QED
  BY <1>1, RecordInvInit, RecordInvNext, BatchInvNext, VouchedNext, PTL
  DEF Spec

\* The queue never locks itself out: validateAllBatchGroups, which every
\* operation of every handle runs first, passes in every reachable state.
THEOREM NeverLockedOut == Spec => []QueueUsable
<1>1. RecordInv /\ BatchInv => QueueUsable
  BY BatchesFit
<1>2. QED
  BY <1>1, OrderInvariant, PTL

\* Whatever handles, crashes, retries and operators do, a record is sent only
\* when all earlier records of its batch are acknowledged and with the server.
THEOREM DeliveryInOrder == Spec => []InOrderDelivery
<1>1. RecordInv /\ BatchInv /\ Vouched => InOrderDelivery
  BY SentIsInOrder
<1>2. QED
  BY <1>1, OrderInvariant, PTL

\* No record is acknowledged unless the server has its evidence.
THEOREM NoFalseAcknowledgement == Spec => []AcknowledgedIsDelivered
<1>1. Vouched => AcknowledgedIsDelivered
  BY DEF Vouched
<1>2. QED
  BY <1>1, OrderInvariant, PTL
=============================================================================
