--------------------------- MODULE ReconcileQueue ---------------------------
(***************************************************************************)
(* The durable evidence queue of the guard (guard/internal/reconcile).     *)
(*                                                                         *)
(* A queue directory holds one file per reconciliation record and one      *)
(* checkpoint file per batch.  Any number of handles (queue objects, in    *)
(* one process or in several) operate on the directory; withLock makes     *)
(* every operation atomic with respect to the others, so an operation is   *)
(* one action here.  (ReconcileJournal opens that box: it shows the file   *)
(* writes inside an operation and the crashes between them.)               *)
(*                                                                         *)
(* An upload attempt is NOT one operation: Uploader.Attempt claims a       *)
(* record, sends it with no lock held, and settles it in a later           *)
(* operation.  Between the two, another handle may open the directory      *)
(* (which returns every record in flight to pending), claim the same       *)
(* record, settle it, or crash.                                            *)
(***************************************************************************)
EXTENDS Integers, Sequences, FiniteSets

CONSTANTS
  Ids,               \* reconciliation identifiers
  Batches,           \* batch identifiers; numbers, because claim sorts them
  Bindings,          \* (tenant, subject) partitions
  Handles,           \* open queue handles, each with one uploader
  MaxRecords,        \* Config.MaxRecords
  MaxAttempts,       \* DeliveryPolicy.MaxAttempts
  MaxTotalAttempts,  \* DeliveryPolicy.MaxTotalAttempts
  MaxDelay,          \* DeliveryPolicy.MaxDelaySeconds
  Delay,             \* retryDelay before jitter, by attempt (see RetryDelay)
  Jitters,           \* what Config.Jitter may return
  RetryAfters,       \* what a Retry-After header may ask for
  MaxTime,           \* bound on the wall clock
  MaxStops           \* bound on the number of crashes and closes

ASSUME QueueAssumption ==
  /\ Batches \subseteq Nat
  /\ MaxRecords \in Nat \ {0}
  /\ MaxAttempts \in Nat \ {0}
  /\ MaxTotalAttempts \in Nat
  /\ MaxAttempts <= MaxTotalAttempts
  /\ MaxDelay \in Nat \ {0}
  /\ Delay \in [1..MaxTotalAttempts -> 1..MaxDelay]
  /\ Jitters \subseteq Nat
  /\ RetryAfters \subseteq Nat
  /\ MaxTime \in Nat \ {0}
  /\ MaxStops \in Nat

VARIABLES
  records,     \* the record files: id -> record ("absent": no file)
  checkpoint,  \* the checkpoint files: batch -> CompletedPrefix, a sequence of
               \* ids whose length is ExpectedNextSequence.  (The first enqueue
               \* of a batch creates the file; until then it reads as empty.)
  uploader,    \* handle -> the state of its Uploader.Attempt call
  accepted,    \* the ids whose evidence the server has durably recorded
  clock,       \* the wall clock the operations read
  stops        \* crashes and closes so far

vars == <<records, checkpoint, uploader, accepted, clock, stops>>

-----------------------------------------------------------------------------
(***************************************************************************)
(* Data.  The evidence of a record (its id, batch, sequence, owner and     *)
(* body) is fixed at enqueue; the evidence hash is a function of it.       *)
(* "since" is the instant no later stamp may precede: ObservedAt while     *)
(* the record has never been attempted, LastAttemptAt from then on.        *)
(***************************************************************************)
States == {"absent", "pending", "sending", "retry_wait", "acknowledged",
           "discarded"}
Dispositions == {"automatic", "manual_intervention"}
Holds == {"none", "held"}   \* HoldClass, empty or one of the three classes
NoTime == 0          \* a timestamp field that is absent from the record
NoOwner == "nobody"

Times == 1..MaxTime

Blank == [owner |-> NoOwner, batch |-> 0, seq |-> 0, state |-> "absent",
          attempts |-> 0, since |-> NoTime, next |-> NoTime,
          disposition |-> "automatic", hold |-> "none", ack |-> NoTime]

Record ==
  [owner : Bindings \cup {NoOwner}, batch : Nat, seq : Nat, state : States,
   attempts : 0..MaxTotalAttempts, since : Nat, next : Nat,
   disposition : Dispositions, hold : Holds, ack : Nat]

\* Uploader.Attempt between two of its steps.  "closed": the handle is closed.
PCs == {"closed", "idle", "sending", "acking", "failing", "holding"}
NoId == "no-id"
Idle == [pc |-> "idle", id |-> NoId, attempt |-> 0, since |-> NoTime,
         at |-> NoTime, minimum |-> 0]
Closed == [Idle EXCEPT !.pc = "closed"]

Job ==
  [pc : PCs, id : Ids \cup {NoId}, attempt : 0..MaxTotalAttempts,
   since : Nat, at : Nat, minimum : RetryAfters \cup {0}]

Present(i) == records[i].state # "absent"
Group(b) == {i \in Ids : Present(i) /\ records[i].batch = b}
Expected(b) == Len(checkpoint[b])
IsOpen(h) == uploader[h].pc # "closed"

-----------------------------------------------------------------------------
(***************************************************************************)
(* What withLock and read require of the files before any operation runs.  *)
(***************************************************************************)

\* validateRecord (with the schema's rules on which fields a state carries).
\* writeRecord refuses a record that fails it and read quarantines one, so no
\* action below repeats it as a guard: RecordsValid shows it never bites.
validateRecord(r) ==
  /\ r.attempts <= MaxTotalAttempts
  /\ r.disposition = "automatic" => r.attempts <= MaxAttempts
  /\ r.disposition = "manual_intervention" => r.attempts >= MaxAttempts
  /\ r.state = "pending" /\ r.disposition = "automatic" =>
       r.attempts < MaxAttempts
  /\ r.state = "retry_wait" => /\ r.attempts < MaxAttempts
                               /\ r.disposition = "automatic"
  /\ r.state \in {"sending", "retry_wait", "acknowledged"} => r.attempts >= 1
  /\ IF r.state = "retry_wait" THEN r.next > r.since ELSE r.next = NoTime
  /\ IF r.state = "acknowledged" THEN r.ack >= r.since ELSE r.ack = NoTime

\* validateBatchGroup.  A batch is one owner's, its sequences run without gap
\* or duplicate, the acknowledged records are exactly those the checkpoint
\* lists, and a discarded record is the last one.
validateBatchGroup(b) ==
  Group(b) # {} =>
    \E f \in Group(b) :
      /\ records[f].seq \in {0, Expected(b)}
      /\ \A i \in Group(b) :
           /\ records[i].owner = records[f].owner
           /\ records[i].seq >= records[f].seq
           /\ i # f => \E j \in Group(b) : records[i].seq = records[j].seq + 1
           /\ \A j \in Group(b) : records[j].seq = records[i].seq => j = i
           /\ IF records[i].seq < Expected(b)
              THEN /\ records[i].state = "acknowledged"
                   /\ checkpoint[b][records[i].seq + 1] = i
              ELSE /\ records[i].state # "acknowledged"
                   /\ records[i].state = "discarded" =>
                        \A j \in Group(b) : records[j].seq <= records[i].seq
      /\ records[f].seq < Expected(b) =>
           \E i \in Group(b) : records[i].seq = Expected(b) - 1

\* validateAllBatchGroups, run at the start of every operation of every
\* handle: when it fails, the whole queue refuses to work.
validateAllBatchGroups == \A b \in Batches : validateBatchGroup(b)

\* withLock: the handle is open and the files are fit for use.
withLock(h) == IsOpen(h) /\ validateAllBatchGroups

-----------------------------------------------------------------------------
(***************************************************************************)
(* Opening, closing and crashing.                                          *)
(***************************************************************************)

\* Variant: an exhausted record stays automatic.
BackToPendingAutomatic(r) == [r EXCEPT !.state = "pending"]

\* A record leaves "sending" without an acknowledgement: it is automatic
\* again unless its automatic attempts are used up.
BackToPending(r) ==
  [r EXCEPT !.state = "pending",
            !.disposition = IF r.attempts >= MaxAttempts
                            THEN "manual_intervention" ELSE @]

\* recoverAllSending: every record in flight is returned to pending, whichever
\* handle has it in flight.
recoverAllSending ==
  [i \in Ids |-> IF records[i].state = "sending"
                 THEN BackToPending(records[i]) ELSE records[i]]

openQueue(h) ==
  /\ ~IsOpen(h)
  /\ validateAllBatchGroups
  /\ records' = recoverAllSending
  /\ uploader' = [uploader EXCEPT ![h] = Idle]
  /\ UNCHANGED <<checkpoint, accepted, clock, stops>>

\* close, or the death of the process: the attempt in progress is forgotten,
\* its record stays "sending" on disk.
Stop(h) ==
  /\ IsOpen(h)
  /\ stops < MaxStops
  /\ stops' = stops + 1
  /\ uploader' = [uploader EXCEPT ![h] = Closed]
  /\ UNCHANGED <<records, checkpoint, accepted, clock>>

-----------------------------------------------------------------------------
(***************************************************************************)
(* Enqueue.                                                                *)
(***************************************************************************)

\* validateEnqueueSequence: the batch is the owner's, takes more records, and n
\* is the sequence after its last record and its checkpoint.
validateEnqueueSequence(o, b, n) ==
  /\ n = Expected(b) \/ \E i \in Group(b) : n = records[i].seq + 1
  /\ n >= Expected(b)
  /\ \A i \in Group(b) : /\ records[i].owner = o
                         /\ records[i].state # "discarded"
                         /\ records[i].seq < n

\* An identifier already in the queue changes nothing: the call is idempotent,
\* or refused when the owner or the evidence differ.  Records are never
\* deleted, so MaxRecords bounds the life of the directory.
enqueue(h, o, i, b, n) ==
  /\ ~Present(i)
  /\ withLock(h)
  /\ validateEnqueueSequence(o, b, n)
  /\ Cardinality({j \in Ids : Present(j)}) < MaxRecords
  /\ records' = [records EXCEPT ![i] =
       [Blank EXCEPT !.owner = o, !.batch = b, !.seq = n,
                     !.state = "pending", !.since = clock]]
  /\ UNCHANGED <<checkpoint, uploader, accepted, clock, stops>>

-----------------------------------------------------------------------------
(***************************************************************************)
(* The uploader: claim, send, and one of ack, fail and hold.               *)
(***************************************************************************)

\* Variant: a record in flight does not hold up its successors.
BlocksUnlessSending(i) ==
  \/ records[i].hold = "held"
  \/ records[i].state = "retry_wait" /\ clock < records[i].next
  \/ records[i].state = "pending" /\ records[i].disposition # "automatic"

\* A record that stops claim from going further into its batch.
Blocks(i) ==
  \/ records[i].hold = "held"
  \/ records[i].state = "sending"
  \/ records[i].state = "retry_wait" /\ clock < records[i].next
  \/ records[i].state = "pending" /\ records[i].disposition # "automatic"

\* Variant: any ready record of the owner may be sent.
ClaimableAnywhere(o) ==
  {i \in Ids : /\ records[i].owner = o
               /\ records[i].state \in {"pending", "retry_wait"}
               /\ ~Blocks(i)
               /\ records[i].attempts < MaxAttempts}

\* The records claim may pick: ready, with nothing blocking ahead of them.
Claimable(o) ==
  {i \in Ids :
     /\ records[i].owner = o
     /\ records[i].state \in {"pending", "retry_wait"}
     /\ ~Blocks(i)
     /\ records[i].attempts < MaxAttempts
     /\ \A j \in Group(records[i].batch) :
          records[j].owner = o /\ records[j].seq < records[i].seq => ~Blocks(j)}

\* The order in which claim visits the records.
Before(i, j) ==
  \/ records[i].batch < records[j].batch
  \/ records[i].batch = records[j].batch /\ records[i].seq < records[j].seq

\* Variant: the attempt is not counted.
SendingUncounted(r) == [r EXCEPT !.state = "sending", !.since = clock,
                                 !.next = NoTime, !.hold = "none"]

\* A record enters "sending": one more attempt, stamped with the clock.
SendingNow(r) == [r EXCEPT !.state = "sending", !.attempts = @ + 1,
                           !.since = clock, !.next = NoTime, !.hold = "none"]

\* What the uploader remembers of the record it was given.
Attempting(i) == [Idle EXCEPT !.pc = "sending", !.id = i,
                              !.attempt = records[i].attempts + 1,
                              !.since = clock]

\* Claim takes the first claimable record; when the clock stands before that
\* record's last stamp the call fails, even if a later record could be sent.
claim(h, o) ==
  /\ uploader[h].pc = "idle"
  /\ withLock(h)
  /\ \E i \in Claimable(o) :
       /\ \A j \in Claimable(o) \ {i} : Before(i, j)
       /\ clock >= records[i].since
       /\ records' = [records EXCEPT ![i] = SendingNow(@)]
       /\ uploader' = [uploader EXCEPT ![h] = Attempting(i)]
  /\ UNCHANGED <<checkpoint, accepted, clock, stops>>

\* The server (external) records the evidence of a request that was sent, at
\* any later time, and whether or not its sender still waits for the answer.
ServerAccept(i) ==
  /\ records[i].attempts >= 1
  /\ i \notin accepted
  /\ accepted' = accepted \cup {i}
  /\ UNCHANGED <<records, checkpoint, uploader, clock, stops>>

\* Variant: any successful answer counts as a receipt.
SendUnverified(h, at) ==
  /\ uploader[h].pc = "sending"
  /\ uploader[h].since <= at /\ at <= clock
  /\ uploader' = [uploader EXCEPT ![h].pc = "acking", ![h].at = at]
  /\ UNCHANGED <<records, checkpoint, accepted, clock, stops>>

\* Send returns a receipt.  The server must have recorded the evidence, and
\* mintVerifiedReceipt checked the time the receipt carries.
SendReceipt(h, at) ==
  /\ uploader[h].pc = "sending"
  /\ uploader[h].id \in accepted
  /\ uploader[h].since <= at /\ at <= clock
  /\ uploader' = [uploader EXCEPT ![h].pc = "acking", ![h].at = at]
  /\ UNCHANGED <<records, checkpoint, accepted, clock, stops>>

\* Send fails with a class that is retried: the network, a 5xx, a rate limit,
\* or a 2xx answer that was cut short.  The server may have accepted.
SendTransient(h, minimum) ==
  /\ uploader[h].pc = "sending"
  /\ uploader' = [uploader EXCEPT ![h].pc = "failing", ![h].minimum = minimum]
  /\ UNCHANGED <<records, checkpoint, accepted, clock, stops>>

\* Send fails with a class that is not retried: a refusal, a conflict, an
\* authentication failure, or a receipt that does not verify.
SendRefused(h) ==
  /\ uploader[h].pc = "sending"
  /\ uploader' = [uploader EXCEPT ![h].pc = "holding"]
  /\ UNCHANGED <<records, checkpoint, accepted, clock, stops>>

\* The caller's context is cancelled: the attempt ends, and the settling
\* operation is refused before it takes the lock.  The record stays "sending".
Cancel(h) ==
  /\ uploader[h].pc \notin {"closed", "idle"}
  /\ uploader' = [uploader EXCEPT ![h] = Idle]
  /\ UNCHANGED <<records, checkpoint, accepted, clock, stops>>

\* Variant: the receipt's time is not compared with the current attempt.
AckAcceptedAnyTime(h) ==
  LET r == records[uploader[h].id]
  IN  r.state = "sending" /\ r.seq = Expected(r.batch)

\* Acknowledge, first operation (ack): the receipt is checked against the
\* record as it is NOW, and record and checkpoint are committed together.
AckAccepted(h) ==
  LET i == uploader[h].id
      r == records[i]
  IN  /\ r.state = "sending"
      /\ uploader[h].at >= r.since
      /\ r.seq = Expected(r.batch)

\* The record was acknowledged before, with this very receipt.
AckRepeated(h) ==
  LET r == records[uploader[h].id]
  IN  r.state = "acknowledged" /\ r.ack = uploader[h].at

ack(h) ==
  LET i == uploader[h].id IN
  /\ uploader[h].pc = "acking"
  /\ withLock(h)
  /\ AckAccepted(h)
  /\ records' = [records EXCEPT ![i].state = "acknowledged",
                                ![i].ack = uploader[h].at]
  /\ checkpoint' = [checkpoint EXCEPT ![records[i].batch] = Append(@, i)]
  /\ uploader' = [uploader EXCEPT ![h] = Idle]
  /\ UNCHANGED <<accepted, clock, stops>>

ackAgain(h) ==
  /\ uploader[h].pc = "acking"
  /\ withLock(h)
  /\ AckRepeated(h)
  /\ uploader' = [uploader EXCEPT ![h] = Idle]
  /\ UNCHANGED <<records, checkpoint, accepted, clock, stops>>

\* ack refuses (ErrRejected or ErrConflict); Queue.Acknowledge then holds the
\* record in a second operation.
ackRefused(h) ==
  /\ uploader[h].pc = "acking"
  /\ withLock(h)
  /\ ~AckAccepted(h) /\ ~AckRepeated(h)
  /\ uploader' = [uploader EXCEPT ![h].pc = "holding"]
  /\ UNCHANGED <<records, checkpoint, accepted, clock, stops>>

\* hold parks the record until a manual retry.  It looks only at the state: a
\* record another handle has since claimed is parked as well.
hold(h) ==
  LET i == uploader[h].id IN
  /\ uploader[h].pc = "holding"
  /\ withLock(h)
  /\ records' = IF records[i].state = "sending"
                THEN [records EXCEPT ![i] = [BackToPending(@) EXCEPT
                                               !.hold = "held"]]
                ELSE records
  /\ uploader' = [uploader EXCEPT ![h] = Idle]
  /\ UNCHANGED <<checkpoint, accepted, clock, stops>>

AtLeast(a, b) == IF a >= b THEN a ELSE b
AtMost(a, b) == IF a <= b THEN a ELSE b

\* Variant: the server's Retry-After is not cut down to the policy's maximum.
FailedUncapped(r, minimum, jitter) ==
  IF r.attempts >= MaxAttempts
  THEN BackToPending(r)
  ELSE [r EXCEPT !.state = "retry_wait",
                 !.next = clock + AtLeast(Delay[r.attempts] + jitter, minimum)]

\* fail schedules a retry, or asks for manual intervention when the automatic
\* attempts are used up.  Like hold, it looks only at the state.  A clock that
\* stands before the attempt, or a jitter out of range, is an error that leaves
\* the record "sending".
Failed(r, minimum, jitter) ==
  IF r.attempts >= MaxAttempts
  THEN BackToPending(r)
  ELSE [r EXCEPT !.state = "retry_wait",
                 !.next = clock + AtLeast(Delay[r.attempts] + jitter,
                                          AtMost(minimum, MaxDelay))]

fail(h, jitter) ==
  LET i == uploader[h].id
      r == records[i]
  IN
  /\ uploader[h].pc = "failing"
  /\ withLock(h)
  /\ records' = IF /\ r.state = "sending"
                   /\ clock >= r.since
                   /\ \/ r.attempts >= MaxAttempts
                      \/ jitter <= MaxDelay - Delay[r.attempts]
                THEN [records EXCEPT ![i] =
                        Failed(@, uploader[h].minimum, jitter)]
                ELSE records
  /\ uploader' = [uploader EXCEPT ![h] = Idle]
  /\ UNCHANGED <<checkpoint, accepted, clock, stops>>

-----------------------------------------------------------------------------
(***************************************************************************)
(* Operations a caller makes outside an attempt.                           *)
(***************************************************************************)

\* Variant: the clock is not compared with the record's last attempt.
recoverAtAnyTime(h, i) ==
  /\ records[i].state = "sending"
  /\ withLock(h)
  /\ records' = [records EXCEPT ![i] = BackToPending(@)]
  /\ UNCHANGED <<checkpoint, uploader, accepted, clock, stops>>

\* recover returns one record in flight to pending, the first the directory
\* lists; the listing has no order.
recover(h, i) ==
  /\ records[i].state = "sending"
  /\ withLock(h)
  /\ clock >= records[i].since
  /\ records' = [records EXCEPT ![i] = BackToPending(@)]
  /\ UNCHANGED <<checkpoint, uploader, accepted, clock, stops>>

\* Variant: any pending record may be discarded, not only the last.
discardAnywhere(h, i) ==
  /\ records[i].state = "pending"
  /\ withLock(h)
  /\ clock >= records[i].since
  /\ records' = [records EXCEPT ![i].state = "discarded"]
  /\ UNCHANGED <<checkpoint, uploader, accepted, clock, stops>>

\* discard, with authority: the last record of its batch, never one in flight.
discard(h, i) ==
  /\ records[i].state = "pending"
  /\ withLock(h)
  /\ \A j \in Group(records[i].batch) : records[j].seq <= records[i].seq
  /\ clock >= records[i].since
  /\ records' = [records EXCEPT ![i].state = "discarded"]
  /\ UNCHANGED <<checkpoint, uploader, accepted, clock, stops>>

\* Variant: manual retries are not bounded.
manualRetryUnbounded(h, i) ==
  /\ uploader[h].pc = "idle"
  /\ records[i].state = "pending"
  /\ withLock(h)
  /\ \/ records[i].disposition = "manual_intervention"
     \/ records[i].hold = "held"
  /\ clock >= records[i].since
  /\ records' = [records EXCEPT ![i] = SendingNow(@)]
  /\ uploader' = [uploader EXCEPT ![h] = Attempting(i)]
  /\ UNCHANGED <<checkpoint, accepted, clock, stops>>

\* manualRetry, with authority: the caller gets the record as claim gives it,
\* and sends and settles it the same way.
manualRetry(h, i) ==
  /\ uploader[h].pc = "idle"
  /\ records[i].state = "pending"
  /\ withLock(h)
  /\ \/ records[i].disposition = "manual_intervention"
     \/ records[i].hold = "held"
  /\ records[i].attempts < MaxTotalAttempts
  /\ clock >= records[i].since
  /\ records' = [records EXCEPT ![i] = SendingNow(@)]
  /\ uploader' = [uploader EXCEPT ![h] = Attempting(i)]
  /\ UNCHANGED <<checkpoint, accepted, clock, stops>>

\* The wall clock advances, or is stepped back.
SetClock(t) ==
  /\ t # clock
  /\ clock' = t
  /\ UNCHANGED <<records, checkpoint, uploader, accepted, stops>>

-----------------------------------------------------------------------------
Init ==
  /\ records = [i \in Ids |-> Blank]
  /\ checkpoint = [b \in Batches |-> <<>>]
  /\ uploader = [h \in Handles |-> Closed]
  /\ accepted = {}
  /\ clock = 1
  /\ stops = 0

Uploading(h) ==
  \/ \E o \in Bindings : claim(h, o)
  \/ \E at \in Times : SendReceipt(h, at)
  \/ \E minimum \in RetryAfters : SendTransient(h, minimum)
  \/ SendRefused(h)
  \/ ack(h)
  \/ ackAgain(h)
  \/ ackRefused(h)
  \/ hold(h)
  \/ \E jitter \in Jitters : fail(h, jitter)

Managing(h) ==
  \/ openQueue(h)
  \/ Stop(h)
  \/ Cancel(h)
  \/ \E o \in Bindings, i \in Ids, b \in Batches, n \in 0..MaxRecords :
       enqueue(h, o, i, b, n)
  \/ \E i \in Ids : recover(h, i)
  \/ \E i \in Ids : discard(h, i)
  \/ \E i \in Ids : manualRetry(h, i)

Next ==
  \/ \E h \in Handles : Uploading(h) \/ Managing(h)
  \/ \E i \in Ids : ServerAccept(i)
  \/ \E t \in Times : SetClock(t)

Spec == Init /\ [][Next]_vars

-----------------------------------------------------------------------------
(***************************************************************************)
(* Properties.                                                             *)
(***************************************************************************)

\* The types of the files and jobs; a record is attempted at most
\* MaxTotalAttempts times (claim, manualRetry).
TypeOK ==
  /\ records \in [Ids -> Record]
  /\ checkpoint \in [Batches -> Seq(Ids)]
  /\ uploader \in [Handles -> Job]
  /\ accepted \subseteq Ids
  /\ clock \in Nat \ {0}
  /\ stops \in Nat

\* Every record on disk passes validateRecord, whatever handles, clocks and
\* crashes did: no operation stores a record that the next read would treat as
\* corrupt and quarantine (queue_unix.go read, validateAll).
RecordsValid == \A i \in Ids : validateRecord(records[i])

\* The queue never locks itself out: validateAllBatchGroups, which guards every
\* operation of every handle, holds in every state the operations reach.
QueueUsable == validateAllBatchGroups

\* Batch order survives everything: a record is sent, automatically or by a
\* manual retry (which checks no order), only once every earlier record of its
\* batch has been recorded by the server and acknowledged.
InOrderDelivery ==
  \A i, j \in Ids :
    /\ Present(i) /\ Present(j)
    /\ records[i].batch = records[j].batch
    /\ records[j].seq < records[i].seq
    /\ records[i].attempts > 0
    => records[j].state = "acknowledged" /\ j \in accepted

\* At-least-once delivery: a record counts as acknowledged only when the server
\* has its evidence, although receipts may answer an earlier attempt, come late,
\* or come to a handle whose record another handle took over.
AcknowledgedIsDelivered ==
  \A i \in Ids : records[i].state = "acknowledged" => i \in accepted

\* No two uploaders ever own the same attempt of the same record, and none owns
\* an attempt that was not counted.
AttemptsAreOwnedOnce ==
  \A g, h \in Handles :
    uploader[h].id # NoId =>
      /\ uploader[h].attempt <= records[uploader[h].id].attempts
      /\ g # h /\ uploader[g].id = uploader[h].id =>
           uploader[g].attempt # uploader[h].attempt

\* A parked record (held after a refusal) is never in flight and never
\* acknowledged: only a manual retry, which clears the hold, sends it again.
HeldIsParked ==
  \A i \in Ids : records[i].hold = "held" =>
                   records[i].state \in {"pending", "discarded"}

\* "Every transition uses an atomic compare-and-swap digest"
\* (protocol/reconciliation-v1.md:44): the outcome of an attempt, a failure or
\* a refusal, changes the record only while that attempt is the current one.
\* The code compares digests inside one operation, and Fail and hold take no
\* digest from the caller: the outcome of an attempt that another handle has
\* taken over is written over the attempt in flight.
SettlesOwnAttempt ==
  [][\A h \in Handles :
       /\ uploader[h].pc \in {"failing", "holding"}
       /\ uploader'[h] = Idle
       /\ records'[uploader[h].id] # records[uploader[h].id]
       => uploader[h].attempt = records[uploader[h].id].attempts]_vars

-----------------------------------------------------------------------------
(***************************************************************************)
(* The queue implements the protocol's reference state machine.  A         *)
(* document is a record without the guard's own hold mark; the receipts    *)
(* held are those of the uploaders about to acknowledge.  The guard adds   *)
(* jitter and Retry-After to the reference's exact retry schedule, never   *)
(* beyond the policy's maximum delay.                                      *)
(***************************************************************************)
Document(r) ==
  [owner |-> r.owner, batch |-> r.batch, seq |-> r.seq, state |-> r.state,
   attempts |-> r.attempts, since |-> r.since, next |-> r.next,
   disposition |-> r.disposition, ack |-> r.ack]

ReceiptsHeld ==
  {[id |-> uploader[h].id, at |-> uploader[h].at] :
     h \in {g \in Handles : uploader[g].pc = "acking"}}

Protocol == INSTANCE ReconciliationProtocol WITH
  documents <- [i \in Ids |-> Document(records[i])],
  receipts <- ReceiptsHeld,
  recorded <- accepted,
  now <- clock,
  LongestDelay <- [n \in 1..MaxTotalAttempts |-> MaxDelay]

\* The operations that do not ask the clock: openQueue and hold return a record
\* to pending also while the clock stands before its last attempt, and ack relies
\* on the comparison made when the receipt was verified.
UntimedStep ==
  /\ \E h \in Handles : openQueue(h) \/ hold(h) \/ ack(h)
  /\ Protocol!ReceiptsVerified
  /\ Protocol!DocumentsMove(
       [i \in Ids |-> AtLeast(clock, AtLeast(records[i].since, records'[i].ack))])

\* Every step of every handle, seen on the records, is a transition the
\* reference accepts at the time the clock shows: attempts grow only by sending
\* and never before the last one, a retry is due between the schedule's delay
\* and the policy's maximum after the failure, history and evidence are kept,
\* terminal records never change, and only a receipt of the server acknowledges
\* (protocol/reference/reconciliation.py).  The three operations of UntimedStep
\* keep all of this but the comparison with the clock (RecoveredInOrder).
ImplementsProtocol ==
  Protocol!Init /\ [][Protocol!Next \/ UntimedStep]_vars

\* A record in flight is returned to pending only by a clock that has reached
\* its last attempt: the reference refuses an earlier one, for a restart too
\* (recover_after_restart; test_reconciliation.py:503,
\* test_retry_and_restart_recovery_cannot_precede_last_attempt).  recover and
\* fail compare the two, recoverAllSending and hold do not.
RecoveredInOrder ==
  [][\A i \in Ids :
       records[i].state = "sending" /\ records'[i].state = "pending"
       => clock >= records[i].since]_vars

\* Whenever a record starts to be sent automatically, the reference's
\* ordered_batch_resume accepts the batch and would send that record first.
\* (It refuses every batch with a discarded record; the guard goes on with the
\* records ahead of it.)
SendsWhatReferenceSelects ==
  [][\A i \in Ids :
       /\ records[i].state # "sending" /\ records'[i].state = "sending"
       /\ records'[i].disposition = "automatic"
       => LET S == Group(records[i].batch)
              selected == Protocol!resume_selects(S, clock)
          IN  \/ \E j \in S : records[j].state = "discarded"
              \/ /\ ~Protocol!resume_rejects(S, checkpoint[records[i].batch],
                                             clock)
                 /\ i \in selected
                 /\ \A j \in selected : records[i].seq <= records[j].seq]_vars

=============================================================================
