-------------------------- MODULE ReconcileJournal --------------------------
(***************************************************************************)
(* The files behind one operation of the evidence queue, and the crashes   *)
(* between them (guard/internal/reconcile/queue_unix.go).                  *)
(*                                                                         *)
(* Enqueue and acknowledge each change two files, a record and the batch's *)
(* checkpoint.  They first publish a journal (.txn) holding both new       *)
(* contents, then write the two files, then rename the journal to a        *)
(* tombstone (.done).  Any operation, of any handle or process, begins     *)
(* under the lock with recoverTransactions: it applies the journal a       *)
(* broken call left behind, or quarantines one that can no longer be       *)
(* applied.  The other operations rewrite one record file.                 *)
(*                                                                         *)
(* atomicWrite (write a temporary file, fsync, rename, fsync the           *)
(* directory) is one action.  A crash, a cancelled context or a failed     *)
(* system call may end the call before any of them.  The digests of the    *)
(* code, which compare file contents, are the contents here.               *)
(***************************************************************************)
EXTENDS Integers, Sequences, FiniteSets

CONSTANTS
  Ids, Batches,
  MaxAttempts,         \* bound on the attempts at one record
  CheckpointCapacity,  \* entries of a checkpoint that fit in MaxRecordBytes
  MaxQuarantined,      \* quarantined files beyond which the queue refuses (32)
  MaxInterrupts        \* bound on the number of interrupted calls

ASSUME JournalAssumption ==
  /\ MaxAttempts \in Nat
  /\ CheckpointCapacity \in Nat
  /\ MaxQuarantined \in Nat
  /\ MaxInterrupts \in Nat

VARIABLES
  records,      \* the record files: id -> record
  checkpoint,   \* the checkpoint files: batch -> [exists, prefix]
  journals,     \* the .txn files
  tombstones,   \* the .done files
  quarantined,  \* how many .txn files of each operation were quarantined
  pc,           \* where the call that holds the lock is
  applying,     \* the journal it is applying, as a set
  recovering,   \* whether it applies it in recovery or for its own commit
  interrupts    \* calls interrupted so far

files == <<records, checkpoint, journals, tombstones, quarantined>>
call == <<pc, applying, recovering>>
vars == <<files, call, interrupts>>

States == {"absent", "pending", "sending", "acknowledged", "discarded"}
Operations == {"enqueue", "ack"}

Record == [batch : Batches \cup {0}, seq : Nat, state : States, attempts : Nat]
Checkpoint == [exists : BOOLEAN, prefix : Seq(Ids)]
Journal == [op : Operations, id : Ids, oldRecord : Record, record : Record,
            oldCheckpoint : Checkpoint, prefix : Seq(Ids)]

Absent == [batch |-> 0, seq |-> 0, state |-> "absent", attempts |-> 0]

Present(i) == records[i].state # "absent"
Group(b) == {i \in Ids : Present(i) /\ records[i].batch = b}
Prefix(b) == checkpoint[b].prefix
Batch(j) == j.record.batch

-----------------------------------------------------------------------------
(***************************************************************************)
(* Applying a journal.  Each step reads the files again, so that a journal *)
(* half applied before a crash is completed from where it stands.          *)
(***************************************************************************)

\* validateTransactionShape: the new checkpoint must fit in a record file.
validateTransactionShape(j) == Len(j.prefix) <= CheckpointCapacity

\* Variant: recovery does not recognise a record it has already written.
AckRecordAppliesOnce(j) ==
  validateTransactionShape(j) /\ records[j.id] = j.oldRecord

\* applyTransaction, the checks before it writes the record: same attempt, and
\* the file holds either the contents the journal replaces or the new ones.
AckRecordApplies(j) ==
  LET r == records[j.id]
  IN  /\ validateTransactionShape(j)
      /\ r.attempts = j.record.attempts
      /\ r = j.record \/ (r.state = "sending" /\ r = j.oldRecord)

\* applyTransaction, the checks before it writes the checkpoint.
AckCheckpointApplies(j) ==
  LET c == checkpoint[Batch(j)]
  IN  \/ c.prefix = j.prefix
      \/ c = j.oldCheckpoint /\ j.prefix = Append(c.prefix, j.id)

NextSequence(b) ==
  LET seqs == {records[i].seq + 1 : i \in Group(b)} \cup {Len(Prefix(b))}
  IN  CHOOSE n \in seqs : \A m \in seqs : m <= n

\* validateEnqueueTransactionAuthority: the batch stands where it stood when
\* the journal was written, or the journal is already applied.
validateEnqueueTransactionAuthority(j) ==
  LET c == checkpoint[Batch(j)]
  IN  /\ c = j.oldCheckpoint \/ (~j.oldCheckpoint.exists /\ c.prefix = <<>>)
      /\ c.prefix = j.prefix
      /\ \A i \in Group(Batch(j)) :
           /\ records[i].state # "discarded"
           /\ IF i = j.id THEN records[i] = j.record
                          ELSE records[i].seq # j.record.seq
      /\ Present(j.id) \/ j.record.seq = NextSequence(Batch(j))

\* What each of the two steps requires of the files it reads.
Applies(j) ==
  CASE j.op = "ack" /\ pc = "first"      -> AckRecordApplies(j)
    [] j.op = "ack" /\ pc = "second"     -> AckCheckpointApplies(j)
    [] j.op = "enqueue" /\ pc = "first"  -> validateEnqueueTransactionAuthority(j)
    [] j.op = "enqueue" /\ pc = "second" -> Present(j.id) =>
                                              records[j.id] = j.record

PutRecord(j) ==
  /\ records' = [records EXCEPT ![j.id] = j.record]
  /\ UNCHANGED checkpoint

PutCheckpoint(j) ==
  /\ checkpoint' = [checkpoint EXCEPT ![Batch(j)] = [exists |-> TRUE,
                                                     prefix |-> j.prefix]]
  /\ UNCHANGED records

\* Variant: the journal is retired after its first write.
ApplyOnlyFirst(j) ==
  /\ pc = "first"
  /\ Applies(j)
  /\ IF j.op = "ack" THEN PutRecord(j) ELSE PutCheckpoint(j)
  /\ pc' = "finish"
  /\ UNCHANGED <<journals, tombstones, quarantined, applying, recovering,
                 interrupts>>

\* First write: the record for an acknowledgement (applyTransaction), the
\* checkpoint for an enqueue (applyEnqueueTransaction).
ApplyFirst(j) ==
  /\ pc = "first"
  /\ Applies(j)
  /\ IF j.op = "ack" THEN PutRecord(j) ELSE PutCheckpoint(j)
  /\ pc' = "second"
  /\ UNCHANGED <<journals, tombstones, quarantined, applying, recovering,
                 interrupts>>

\* Second write: the other file.
ApplySecond(j) ==
  /\ pc = "second"
  /\ Applies(j)
  /\ IF j.op = "ack" THEN PutCheckpoint(j) ELSE PutRecord(j)
  /\ pc' = "finish"
  /\ UNCHANGED <<journals, tombstones, quarantined, applying, recovering,
                 interrupts>>

\* Variant: recovery gives up on a journal without putting it aside.
RefuseInPlace(j) ==
  /\ pc \in {"first", "second"}
  /\ ~Applies(j)
  /\ pc' = "unlocked"
  /\ applying' = {}
  /\ UNCHANGED <<files, recovering, interrupts>>

\* A journal that cannot be applied is quarantined in recovery; the call that
\* wrote it returns an error and leaves it for the next one.
Refuse(j) ==
  /\ pc \in {"first", "second"}
  /\ ~Applies(j)
  /\ IF recovering
     THEN /\ journals' = journals \ {j}
          /\ quarantined' = [quarantined EXCEPT ![j.op] = @ + 1]
          /\ pc' = "recovering"
     ELSE /\ UNCHANGED <<journals, quarantined>>
          /\ pc' = "unlocked"
  /\ applying' = {}
  /\ UNCHANGED <<records, checkpoint, tombstones, recovering, interrupts>>

\* finishTransaction: .txn becomes .done.
finishTransaction(j) ==
  /\ pc = "finish"
  /\ journals' = journals \ {j}
  /\ tombstones' = tombstones \cup {j}
  /\ pc' = IF recovering THEN "recovering" ELSE "unlocked"
  /\ applying' = {}
  /\ UNCHANGED <<records, checkpoint, quarantined, recovering, interrupts>>

-----------------------------------------------------------------------------
(***************************************************************************)
(* withLock: recover, validate, run the operation.                         *)
(***************************************************************************)

Lock ==
  /\ pc = "unlocked"
  /\ pc' = "recovering"
  /\ recovering' = TRUE
  /\ UNCHANGED <<files, applying, interrupts>>

\* recoverTransactions takes up a journal, in whatever order the directory
\* lists them.
recoverTransactions(j) ==
  /\ pc = "recovering"
  /\ applying' = {j}
  /\ pc' = "first"
  /\ UNCHANGED <<files, recovering, interrupts>>

\* verifyAppliedTransaction, on a tombstone: what it recorded is still so.
verifyAppliedTransaction(j) ==
  LET r == records[j.id]
      p == Prefix(Batch(j))
  IN  /\ Present(j.id) /\ r.batch = Batch(j) /\ r.seq = j.record.seq
      /\ Len(p) >= Len(j.prefix) /\ SubSeq(p, 1, Len(j.prefix)) = j.prefix
      /\ j.op = "ack" => r = j.record

\* reconcileCheckpoints: the checkpoint of b with every acknowledged record it
\* misses (SelfConsistent shows there never is one once journals are applied).
reconcileCheckpoints(b) ==
  LET acked == {i \in Group(b) : records[i].state = "acknowledged"}
  IN  IF {records[i].seq : i \in acked} = 0..Cardinality(acked) - 1
      THEN [n \in 1..Cardinality(acked) |->
              CHOOSE i \in acked : records[i].seq = n - 1]
      ELSE Prefix(b)

\* validateBatchGroup, for a checkpoint with prefix p
validateBatchGroup(b, p) ==
  Group(b) # {} =>
    /\ checkpoint[b].exists
    /\ {records[i].seq : i \in Group(b)} = 0..Cardinality(Group(b)) - 1
    /\ \A i \in Group(b) :
         IF records[i].seq < Len(p)
         THEN /\ records[i].state = "acknowledged"
              /\ p[records[i].seq + 1] = i
         ELSE /\ records[i].state # "acknowledged"
              /\ records[i].state = "discarded" =>
                   records[i].seq = Cardinality(Group(b)) - 1
    /\ Len(p) <= Cardinality(Group(b))

\* validateAll counts the quarantined files; reconcileCheckpoints and
\* validateAllBatchGroups follow.
Fit ==
  /\ quarantined["ack"] + quarantined["enqueue"] <= MaxQuarantined
  /\ \A b \in Batches : validateBatchGroup(b, reconcileCheckpoints(b))

\* Variant: an operation starts without dealing with the journals first.
RecoveredUnfenced == pc = "recovering"

\* recoverTransactions has been through the directory.
Recovered == pc = "recovering" /\ journals = {}

Begin ==
  /\ Recovered /\ Fit
  /\ checkpoint' = [b \in Batches |->
       [checkpoint[b] EXCEPT !.prefix = reconcileCheckpoints(b)]]
  /\ pc' = "ready"
  /\ UNCHANGED <<records, journals, tombstones, quarantined, applying,
                 recovering, interrupts>>

BeginRefused ==
  /\ Recovered /\ ~Fit
  /\ pc' = "unlocked"
  /\ UNCHANGED <<files, applying, recovering, interrupts>>

\* The call ends early: a crash, a cancelled context, a failed system call.
Interrupt ==
  /\ pc # "unlocked"
  /\ interrupts < MaxInterrupts
  /\ interrupts' = interrupts + 1
  /\ pc' = "unlocked"
  /\ applying' = {}
  /\ UNCHANGED <<files, recovering>>

-----------------------------------------------------------------------------
(***************************************************************************)
(* The operations.                                                         *)
(***************************************************************************)

\* commitBatchTransaction, commitEnqueueTransaction: publish the journal, then
\* apply it.  A journal of the same name would be a conflict.
Commit(j) ==
  /\ \A k \in journals : <<k.op, k.id>> # <<j.op, j.id>>
  /\ journals' = journals \cup {j}
  /\ applying' = {j}
  /\ recovering' = FALSE
  /\ pc' = "first"
  /\ UNCHANGED <<records, checkpoint, tombstones, quarantined, interrupts>>

enqueue(i, b) ==
  /\ pc = "ready"
  /\ ~Present(i)
  /\ \A k \in Group(b) : records[k].state # "discarded"
  /\ Commit([op |-> "enqueue", id |-> i, oldRecord |-> Absent,
             record |-> [batch |-> b, seq |-> NextSequence(b),
                         state |-> "pending", attempts |-> 0],
             oldCheckpoint |-> checkpoint[b], prefix |-> Prefix(b)])

ack(i) ==
  LET r == records[i] IN
  /\ pc = "ready"
  /\ r.state = "sending"
  /\ r.seq = Len(Prefix(r.batch))
  /\ Commit([op |-> "ack", id |-> i, oldRecord |-> r,
             record |-> [r EXCEPT !.state = "acknowledged"],
             oldCheckpoint |-> checkpoint[r.batch],
             prefix |-> Append(Prefix(r.batch), i)])

\* writeRecord: one record file is replaced and the call returns.
writeRecord(i, r) ==
  /\ records' = [records EXCEPT ![i] = r]
  /\ pc' = "unlocked"
  /\ UNCHANGED <<checkpoint, journals, tombstones, quarantined, applying,
                 recovering, interrupts>>

\* claim: the first record its checkpoint does not list, if it is pending.
claim(i) ==
  /\ pc = "ready"
  /\ records[i].state = "pending"
  /\ records[i].seq = Len(Prefix(records[i].batch))
  /\ records[i].attempts < MaxAttempts
  /\ writeRecord(i, [records[i] EXCEPT !.state = "sending", !.attempts = @ + 1])

\* fail, hold and recover: the record leaves "sending" unacknowledged.
settle(i) ==
  /\ pc = "ready"
  /\ records[i].state = "sending"
  /\ writeRecord(i, [records[i] EXCEPT !.state = "pending"])

\* Variant: any pending record may be discarded, not only the last.
discardAnywhere(i) ==
  /\ pc = "ready"
  /\ records[i].state = "pending"
  /\ writeRecord(i, [records[i] EXCEPT !.state = "discarded"])

\* discard: the last record of its batch.
discard(i) ==
  /\ pc = "ready"
  /\ records[i].state = "pending"
  /\ \A k \in Group(records[i].batch) : records[k].seq <= records[i].seq
  /\ writeRecord(i, [records[i] EXCEPT !.state = "discarded"])

\* An operation that only reads, or is refused.
Return ==
  /\ pc = "ready"
  /\ pc' = "unlocked"
  /\ UNCHANGED <<files, applying, recovering, interrupts>>

\* openQueue: recoverAllSending rewrites the records in flight one by one.
openQueue ==
  /\ pc = "ready"
  /\ pc' = "opening"
  /\ UNCHANGED <<files, applying, recovering, interrupts>>

recoverAllSending(i) ==
  /\ pc = "opening"
  /\ records[i].state = "sending"
  /\ records' = [records EXCEPT ![i].state = "pending"]
  /\ UNCHANGED <<checkpoint, journals, tombstones, quarantined, call,
                 interrupts>>

Opened ==
  /\ pc = "opening"
  /\ \A i \in Ids : records[i].state # "sending"
  /\ pc' = "unlocked"
  /\ UNCHANGED <<files, applying, recovering, interrupts>>

-----------------------------------------------------------------------------
Init ==
  /\ records = [i \in Ids |-> Absent]
  /\ checkpoint = [b \in Batches |-> [exists |-> FALSE, prefix |-> <<>>]]
  /\ journals = {}
  /\ tombstones = {}
  /\ quarantined = [o \in Operations |-> 0]
  /\ pc = "unlocked"
  /\ applying = {}
  /\ recovering = TRUE
  /\ interrupts = 0

Recovery ==
  \/ Lock
  \/ \E j \in journals : recoverTransactions(j)
  \/ \E j \in applying : \/ ApplyFirst(j)
                         \/ ApplySecond(j)
                         \/ Refuse(j)
                         \/ finishTransaction(j)
  \/ Begin
  \/ BeginRefused

Operation ==
  \/ \E i \in Ids : \/ \E b \in Batches : enqueue(i, b)
                    \/ ack(i)
                    \/ claim(i)
                    \/ settle(i)
                    \/ discard(i)
                    \/ recoverAllSending(i)
  \/ Return
  \/ openQueue
  \/ Opened

Next == Recovery \/ Operation \/ Interrupt

\* Calls keep coming, and a call that holds the lock does not sleep.
Spec == Init /\ [][Next]_vars /\ WF_vars(Recovery)

-----------------------------------------------------------------------------
(***************************************************************************)
(* Properties.                                                             *)
(***************************************************************************)

\* There is never more than one journal: the recovery that opens every
\* operation is what keeps two half-applied journals from meeting, and what
\* makes the order in which the directory lists them irrelevant.
AtMostOneJournal == Cardinality(journals) <= 1

\* Once recovery has dealt with the journals, records and checkpoints agree,
\* wherever earlier calls were cut off: reconcileCheckpoints has nothing to
\* repair and validateAllBatchGroups never refuses.
SelfConsistent ==
  Recovered => \A b \in Batches : validateBatchGroup(b, Prefix(b))

\* Tombstones are verified before the journal left behind is applied, so they
\* must hold in every intermediate state too: verifyAppliedTransaction never
\* reports a corrupt queue (it would quarantine the tombstone and fail).
TombstonesVerify == \A j \in tombstones : verifyAppliedTransaction(j)

\* A journal that fits is applied to the end: an enqueue or an acknowledgement
\* that was published is never lost and never half visible.  A published
\* journal counts as committed, unless its checkpoint does not fit.
Committed == {j \in journals : j.op = "ack" => validateTransactionShape(j)}

Logical(i) ==
  IF \E j \in Committed : j.id = i
  THEN (CHOOSE j \in Committed : j.id = i).record ELSE records[i]

Contract == INSTANCE BatchLog WITH
  log <- {<<Logical(i).batch, Logical(i).seq, i>> :
            i \in {k \in Ids : Logical(k).state # "absent"}},
  acknowledged <- {i \in Ids : Logical(i).state = "acknowledged"},
  prefix <- [b \in Batches |->
               IF \E j \in Committed : Batch(j) = b
               THEN (CHOOSE j \in Committed : Batch(j) = b).prefix
               ELSE Prefix(b)],
  closed <- {b \in Batches :
               \E i \in Group(b) : records[i].state = "discarded"}

\* The files implement the contract of BatchLog: across crashes each batch
\* grows at its end, is acknowledged in order and for good, and record and
\* checkpoint change together.
ImplementsBatchLog == Contract!Spec

\* No journal wedges the queue: as long as operations are called, every
\* journal is eventually applied or put aside.
JournalsResolved == (journals # {}) ~> (journals = {})

\* reservedUsage "includes every immutable acknowledgement journal still owed
\* by an admitted record" (queue_unix.go:1162): the acknowledgement of an
\* admitted record is never put aside for want of room.
AcknowledgementsFit == quarantined["ack"] = 0
=============================================================================
