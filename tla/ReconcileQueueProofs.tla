------------------------ MODULE ReconcileQueueProofs ------------------------
(***************************************************************************)
(* Proofs about ReconcileQueue, for any number of records, batches and     *)
(* handles and any delivery policy.                                        *)
(***************************************************************************)
EXTENDS ReconcileQueue, TLAPS

Busy == {"sending", "acking", "failing", "holding"}

\* An attempt in progress is about a record that has been sent.
Engaged ==
  \A h \in Handles : uploader[h].pc \in Busy =>
    /\ uploader[h].id \in Ids
    /\ records[uploader[h].id].attempts >= 1

-----------------------------------------------------------------------------
(***************************************************************************)
(* What each operation makes of one record.                                *)
(***************************************************************************)

\* A record that may be stored.
Sound(r) ==
  /\ r \in Record
  /\ validateRecord(r)
  /\ r.hold = "held" => r.state \in {"pending", "discarded"}
                        /\ r.attempts >= 1
  /\ r.state = "absent" => r.attempts = 0

Stored == \A i \in Ids : Sound(records[i])

\* What holds of every record by itself, inductively.
RecordInv == TypeOK /\ Stored /\ Engaged

\* What the delivery policy gives the arithmetic below.
LEMMA Policy ==
  /\ MaxAttempts \in Nat /\ MaxAttempts >= 1
  /\ MaxTotalAttempts \in Nat
  /\ MaxAttempts <= MaxTotalAttempts
BY QueueAssumption DEF QueueAssumption

\* A record returned to pending, by recovery or after a failure, is sound and
\* keeps its attempts.
LEMMA BackToPendingSound ==
  ASSUME NEW r, Sound(r), r.state = "sending"
  PROVE  Sound(BackToPending(r)) /\ BackToPending(r).attempts = r.attempts
<1> DEFINE q == BackToPending(r)
<1>1. q \in Record
  BY DEF BackToPending, Sound, Record, States, Dispositions
<1>2. /\ q.state = "pending" /\ q.attempts = r.attempts /\ q.since = r.since
      /\ q.next = r.next /\ q.ack = r.ack /\ q.hold = r.hold
      /\ q.disposition = IF r.attempts >= MaxAttempts
                         THEN "manual_intervention" ELSE r.disposition
  BY DEF BackToPending, Sound, Record
<1> HIDE DEF q
<1>3. r.attempts \in Nat /\ r.disposition \in Dispositions
  BY Policy DEF Sound, Record
<1>4. validateRecord(q)
  BY <1>2, <1>3, Policy DEF Sound, validateRecord, Dispositions
<1>5. QED
  BY <1>1, <1>2, <1>4 DEF Sound, q

\* A record parked after a refusal is sound.
LEMMA HeldSound ==
  ASSUME NEW r, Sound(r), r.state = "sending"
  PROVE  LET q == [BackToPending(r) EXCEPT !.hold = "held"]
         IN  Sound(q) /\ q.attempts = r.attempts
<1> DEFINE p == BackToPending(r)
           q == [p EXCEPT !.hold = "held"]
<1>1. Sound(p) /\ p.attempts = r.attempts
  BY BackToPendingSound
<1>2. p.state = "pending"
  BY DEF BackToPending, Sound, Record
<1> HIDE DEF p
<1>3. q \in Record /\ q.hold = "held" /\ q.state = "pending"
  BY <1>1, <1>2 DEF Sound, Record, Holds
<1>4. validateRecord(q) /\ q.attempts = r.attempts
  BY <1>1, <1>2 DEF Sound, Record, validateRecord
<1>5. r.attempts >= 1
  BY DEF Sound, validateRecord
<1>6. QED
  BY <1>3, <1>4, <1>5 DEF Sound, p

\* A record claimed, or retried by hand, is sound and counts one more attempt.
LEMMA SendingSound ==
  ASSUME NEW r, Sound(r), clock \in Nat,
         r.state \in {"pending", "retry_wait"},
         r.attempts < MaxTotalAttempts,
         r.disposition = "automatic" => r.attempts < MaxAttempts
  PROVE  Sound(SendingNow(r)) /\ SendingNow(r).attempts = r.attempts + 1
<1> DEFINE q == SendingNow(r)
<1>1. r.attempts \in Nat /\ r.disposition \in Dispositions
  BY Policy DEF Sound, Record
<1>2. /\ q.state = "sending" /\ q.attempts = r.attempts + 1
      /\ q.since = clock /\ q.next = NoTime /\ q.hold = "none"
      /\ q.ack = r.ack /\ q.disposition = r.disposition
  BY DEF SendingNow, Sound, Record
<1>0. r.attempts + 1 \in 0..MaxTotalAttempts
  BY <1>1, Policy
<1>3. q \in Record
  BY <1>0 DEF SendingNow, Sound, Record, States, Holds, NoTime
<1> HIDE DEF q
<1>4. validateRecord(q)
  BY <1>1, <1>2, Policy DEF Sound, validateRecord, Dispositions
<1>5. QED
  BY <1>2, <1>3, <1>4 DEF Sound, q

\* A failed record is sound, whatever the jitter and the Retry-After header.
LEMMA FailedSound ==
  ASSUME NEW r, Sound(r), clock \in Nat, r.state = "sending",
         clock >= r.since,
         NEW minimum \in Nat, NEW jitter \in Nat
  PROVE  /\ Sound(Failed(r, minimum, jitter))
         /\ Failed(r, minimum, jitter).attempts = r.attempts
<1>1. CASE r.attempts >= MaxAttempts
  BY <1>1, BackToPendingSound DEF Failed
<1>2. CASE ~(r.attempts >= MaxAttempts)
  <2> DEFINE d == AtLeast(Delay[r.attempts] + jitter,
                          AtMost(minimum, MaxDelay))
             q == [r EXCEPT !.state = "retry_wait", !.next = clock + d]
  <2>1. r.attempts \in 1..MaxTotalAttempts
    BY Policy DEF Sound, Record, validateRecord
  <2>2. Delay[r.attempts] \in 1..MaxDelay
    BY <2>1, QueueAssumption DEF QueueAssumption
  <2>3. d \in Nat /\ d >= 1
    BY <2>2, QueueAssumption DEF QueueAssumption, AtLeast, AtMost
  <2>4. clock + d \in Nat /\ clock + d > r.since
    BY <2>3 DEF Sound, Record
  <2> HIDE DEF d
  <2>5. /\ q \in Record /\ q.hold = r.hold
        /\ q.state = "retry_wait" /\ q.attempts = r.attempts
        /\ q.since = r.since /\ q.next = clock + d /\ q.ack = r.ack
        /\ q.disposition = r.disposition
    BY <2>4 DEF Sound, Record, States
  <2>7. validateRecord(q)
    BY <1>2, <2>1, <2>4, <2>5, Policy
    DEF Sound, Record, validateRecord, Dispositions
  <2>6. QED
    BY <1>2, <2>5, <2>7 DEF Failed, Sound, d
<1>3. QED
  BY <1>1, <1>2

\* An acknowledged record is sound if the receipt is not older than the attempt.
LEMMA AcknowledgedSound ==
  ASSUME NEW r, Sound(r), r.state = "sending", NEW at \in Nat, at >= r.since
  PROVE  LET q == [r EXCEPT !.state = "acknowledged", !.ack = at]
         IN  Sound(q) /\ q.attempts = r.attempts
BY DEF Sound, Record, validateRecord, States, Dispositions, Holds, NoTime

\* A discarded record is sound.
LEMMA DiscardedSound ==
  ASSUME NEW r, Sound(r), r.state = "pending"
  PROVE  LET q == [r EXCEPT !.state = "discarded"]
         IN  Sound(q) /\ q.attempts = r.attempts
BY DEF Sound, Record, validateRecord, States, Dispositions, Holds, NoTime

-----------------------------------------------------------------------------
(***************************************************************************)
(* RecordInv is inductive.                                                 *)
(***************************************************************************)

\* A record that holds a sound record keeps it when another is replaced by a
\* sound one.
LEMMA StoreOne ==
  ASSUME TypeOK, Stored,
         NEW i \in Ids, NEW q, Sound(q),
         records' = [records EXCEPT ![i] = q]
  PROVE  /\ records' \in [Ids -> Record]
         /\ Stored'
         /\ records'[i] = q
         /\ \A j \in Ids \ {i} : records'[j] = records[j]
<1>1. /\ records' \in [Ids -> Record]
      /\ records'[i] = q
      /\ \A j \in Ids \ {i} : records'[j] = records[j]
  BY DEF TypeOK, Sound
<1>2. Stored'
  BY <1>1 DEF Stored, Sound, validateRecord
<1>3. QED
  BY <1>1, <1>2

\* An attempt that ends leaves the invariants on uploaders alone, provided no
\* record loses attempts.
LEMMA Settled ==
  ASSUME TypeOK, Engaged, NEW h \in Handles,
         uploader' = [uploader EXCEPT ![h] = Idle],
         \A i \in Ids : records'[i].attempts \in Nat
                        /\ records'[i].attempts >= records[i].attempts
  PROVE  uploader' \in [Handles -> Job] /\ Engaged'
<1>1. Idle \in Job /\ Idle.pc = "idle"
  BY Policy DEF Idle, Job, PCs, NoTime
<1>2. uploader' \in [Handles -> Job]
  BY <1>1 DEF TypeOK
<1>3. \A g \in Handles : uploader'[g] = IF g = h THEN Idle ELSE uploader[g]
  BY DEF TypeOK
<1>4. \A i \in Ids : records[i].attempts \in Nat
  BY Policy DEF TypeOK, Record
<1>5. Engaged'
  BY <1>1, <1>3, <1>4 DEF Engaged, Busy
<1>6. QED
  BY <1>2, <1>5

\* An attempt that begins: the record just counted it.
LEMMA Started ==
  ASSUME TypeOK, Stored, Engaged,
         NEW h \in Handles, NEW i \in Ids,
         records[i].state \in {"pending", "retry_wait"},
         records[i].attempts < MaxTotalAttempts,
         records[i].disposition = "automatic" =>
           records[i].attempts < MaxAttempts,
         records' = [records EXCEPT ![i] = SendingNow(@)],
         uploader' = [uploader EXCEPT ![h] = Attempting(i)]
  PROVE  /\ records' \in [Ids -> Record] /\ Stored'
         /\ uploader' \in [Handles -> Job] /\ Engaged'
<1>1. Sound(records[i]) /\ clock \in Nat
  BY DEF TypeOK, Stored
<1>2. /\ Sound(SendingNow(records[i]))
      /\ SendingNow(records[i]).attempts = records[i].attempts + 1
  BY <1>1, SendingSound
<1>3. records' = [records EXCEPT ![i] = SendingNow(records[i])]
  BY DEF TypeOK
<1>4. /\ records' \in [Ids -> Record] /\ Stored'
      /\ records'[i] = SendingNow(records[i])
      /\ \A j \in Ids \ {i} : records'[j] = records[j]
  BY <1>2, <1>3, StoreOne
<1>5. \A j \in Ids : records[j].attempts \in Nat
  BY Policy DEF TypeOK, Record
<1>6. records[i].attempts + 1 \in 0..MaxTotalAttempts
  BY <1>5, Policy
<1>7. Attempting(i) \in Job /\ Attempting(i).id = i
  BY <1>1, <1>6 DEF Attempting, Idle, Job, PCs, NoTime
<1>8. /\ uploader' \in [Handles -> Job]
      /\ \A g \in Handles :
           uploader'[g] = IF g = h THEN Attempting(i) ELSE uploader[g]
  BY <1>7 DEF TypeOK
<1>9. Engaged'
  <2> SUFFICES ASSUME NEW g \in Handles, (uploader[g].pc \in Busy)'
               PROVE  (/\ uploader[g].id \in Ids
                       /\ records[uploader[g].id].attempts >= 1)'
    BY DEF Engaged
  <2>1. CASE g = h
    BY <2>1, <1>2, <1>4, <1>5, <1>7, <1>8
  <2>2. CASE g # h
    BY <2>2, <1>2, <1>4, <1>5, <1>8 DEF Engaged
  <2>3. QED
    BY <2>1, <2>2
<1>10. QED
  BY <1>4, <1>8, <1>9

\* The attempt of handle h is settled with record i replaced by q.
LEMMA SettledWith ==
  ASSUME RecordInv, NEW h \in Handles, NEW i \in Ids,
         NEW q, Sound(q), q.attempts = records[i].attempts,
         records' = [records EXCEPT ![i] = q],
         uploader' = [uploader EXCEPT ![h] = Idle]
  PROVE  /\ records' \in [Ids -> Record] /\ Stored'
         /\ uploader' \in [Handles -> Job] /\ Engaged'
<1>1. /\ records' \in [Ids -> Record] /\ Stored'
      /\ records'[i] = q
      /\ \A j \in Ids \ {i} : records'[j] = records[j]
  BY StoreOne DEF RecordInv
<1>2. \A j \in Ids : records[j].attempts \in Nat
  BY Policy DEF RecordInv, TypeOK, Record
<1>3. \A j \in Ids : records'[j].attempts \in Nat
                     /\ records'[j].attempts >= records[j].attempts
  BY <1>1, <1>2
<1>4. QED
  BY <1>1, <1>3, Settled DEF RecordInv

\* Record i is replaced by q outside any attempt.
LEMMA ManagedWith ==
  ASSUME RecordInv, NEW i \in Ids,
         NEW q, Sound(q), q.attempts = records[i].attempts,
         records' = [records EXCEPT ![i] = q],
         UNCHANGED <<checkpoint, uploader, accepted, clock, stops>>
  PROVE  RecordInv'
<1>1. /\ records' \in [Ids -> Record] /\ Stored'
      /\ records'[i] = q
      /\ \A j \in Ids \ {i} : records'[j] = records[j]
  BY StoreOne DEF RecordInv
<1>2. Engaged'
  BY <1>1 DEF RecordInv, Engaged
<1>3. QED
  BY <1>1, <1>2 DEF RecordInv, TypeOK

\* Only the job of handle h changes, and it stays with its record or is given up.
LEMMA JobChange ==
  ASSUME RecordInv, NEW h \in Handles, NEW job \in Job,
         job.pc \in Busy => uploader[h].pc \in Busy /\ job.id = uploader[h].id,
         uploader' = [uploader EXCEPT ![h] = job],
         UNCHANGED <<records, checkpoint, accepted, clock>>,
         stops' \in Nat
  PROVE  RecordInv'
<1>1. /\ uploader' \in [Handles -> Job]
      /\ \A g \in Handles : uploader'[g] = IF g = h THEN job ELSE uploader[g]
  BY DEF RecordInv, TypeOK
<1>2. Engaged'
  BY <1>1 DEF RecordInv, Engaged
<1>3. Stored'
  BY DEF RecordInv, Stored, Sound, validateRecord
<1>4. QED
  BY <1>1, <1>2, <1>3 DEF RecordInv, TypeOK

\* An empty queue with every handle closed satisfies RecordInv.
LEMMA RecordInvInit == Init => RecordInv
<1> SUFFICES ASSUME Init PROVE RecordInv
  OBVIOUS
<1>1. Blank \in Record /\ validateRecord(Blank) /\ Blank.hold = "none"
      /\ Blank.attempts = 0
  BY Policy DEF Blank, Record, validateRecord, States, Dispositions, Holds,
                NoTime, NoOwner
<1>2. Closed \in Job /\ Closed.pc = "closed"
  BY Policy DEF Closed, Idle, Job, PCs, NoTime
<1>3. TypeOK
  BY <1>1, <1>2 DEF Init, TypeOK
<1>4. Stored
  BY <1>1 DEF Init, Stored, Sound
<1>5. Engaged
  BY <1>2 DEF Init, Engaged, Busy
<1>6. QED
  BY <1>3, <1>4, <1>5 DEF RecordInv

\* Every operation of the queue preserves RecordInv.
LEMMA RecordInvNext == RecordInv /\ [Next]_vars => RecordInv'
<1> SUFFICES ASSUME RecordInv, [Next]_vars PROVE RecordInv'
  OBVIOUS
<1> USE DEF RecordInv
<1>idle. Idle \in Job /\ Idle.pc = "idle"
  BY Policy DEF Idle, Job, PCs, NoTime
<1>closed. Closed \in Job /\ Closed.pc = "closed"
  BY Policy DEF Closed, Idle, Job, PCs, NoTime
<1>job. \A h \in Handles : uploader[h] \in Job
  BY DEF TypeOK
<1>rec. \A i \in Ids : Sound(records[i])
  BY DEF Stored
<1>1. ASSUME NEW h \in Handles, NEW o \in Bindings, claim(h, o)
      PROVE  RecordInv'
  <2>1. PICK i \in Claimable(o) :
          /\ records' = [records EXCEPT ![i] = SendingNow(@)]
          /\ uploader' = [uploader EXCEPT ![h] = Attempting(i)]
    BY <1>1 DEF claim
  <2>2. /\ i \in Ids
        /\ records[i].state \in {"pending", "retry_wait"}
        /\ records[i].attempts < MaxAttempts
    BY DEF Claimable
  <2>3. records[i].attempts < MaxTotalAttempts
    BY <2>2, Policy DEF TypeOK, Record
  <2>4. /\ records' \in [Ids -> Record] /\ Stored'
        /\ uploader' \in [Handles -> Job] /\ Engaged'
    BY <2>1, <2>2, <2>3, Started
  <2>5. QED
    BY <1>1, <2>4 DEF claim, TypeOK
<1>2. ASSUME NEW h \in Handles, NEW at \in Times, SendReceipt(h, at)
      PROVE  RecordInv'
  <2> DEFINE job == [uploader[h] EXCEPT !.pc = "acking", !.at = at]
  <2>0. at \in Nat
    BY QueueAssumption DEF Times, QueueAssumption
  <2>1. job \in Job /\ job.id = uploader[h].id
    BY <2>0, <1>job DEF Job, PCs
  <2>2. uploader' = [uploader EXCEPT ![h] = job] /\ uploader[h].pc \in Busy
    BY <1>2 DEF SendReceipt, TypeOK, Busy
  <2>3. UNCHANGED <<records, checkpoint, accepted, clock>> /\ stops' \in Nat
    BY <1>2 DEF SendReceipt, TypeOK
  <2> HIDE DEF job
  <2>4. QED
    BY <2>1, <2>2, <2>3, JobChange
<1>3. ASSUME NEW h \in Handles, NEW minimum \in RetryAfters,
             SendTransient(h, minimum)
      PROVE  RecordInv'
  <2> DEFINE job == [uploader[h] EXCEPT !.pc = "failing", !.minimum = minimum]
  <2>1. job \in Job /\ job.id = uploader[h].id
    BY <1>3, <1>job DEF Job, PCs
  <2>2. uploader' = [uploader EXCEPT ![h] = job] /\ uploader[h].pc \in Busy
    BY <1>3 DEF SendTransient, TypeOK, Busy
  <2>3. UNCHANGED <<records, checkpoint, accepted, clock>> /\ stops' \in Nat
    BY <1>3 DEF SendTransient, TypeOK
  <2> HIDE DEF job
  <2>4. QED
    BY <2>1, <2>2, <2>3, JobChange
<1>4. ASSUME NEW h \in Handles, SendRefused(h) \/ ackRefused(h)
      PROVE  RecordInv'
  <2> DEFINE job == [uploader[h] EXCEPT !.pc = "holding"]
  <2>1. job \in Job /\ job.id = uploader[h].id
    BY <1>4, <1>job DEF Job, PCs
  <2>2. uploader' = [uploader EXCEPT ![h] = job] /\ uploader[h].pc \in Busy
    BY <1>4 DEF SendRefused, ackRefused, TypeOK, Busy
  <2>3. UNCHANGED <<records, checkpoint, accepted, clock>> /\ stops' \in Nat
    BY <1>4 DEF SendRefused, ackRefused, TypeOK
  <2> HIDE DEF job
  <2>4. QED
    BY <2>1, <2>2, <2>3, JobChange
<1>5. ASSUME NEW h \in Handles, ack(h)
      PROVE  RecordInv'
  <2> DEFINE i == uploader[h].id
             q == [records[i] EXCEPT !.state = "acknowledged",
                                     !.ack = uploader[h].at]
  <2>1. i \in Ids
    BY <1>5 DEF ack, Engaged, Busy
  <2>2. records[i].state = "sending" /\ uploader[h].at >= records[i].since
    BY <1>5 DEF ack, AckAccepted
  <2>3. uploader[h].at \in Nat
    BY <1>job DEF Job
  <2>4. Sound(q) /\ q.attempts = records[i].attempts
    BY <1>rec, <2>1, <2>2, <2>3, AcknowledgedSound
  <2>5. /\ records' = [records EXCEPT ![i] = q]
        /\ uploader' = [uploader EXCEPT ![h] = Idle]
    BY <1>5, <2>1 DEF ack, TypeOK
  <2> HIDE DEF q
  <2>6. /\ records' \in [Ids -> Record] /\ Stored'
        /\ uploader' \in [Handles -> Job] /\ Engaged'
    BY <2>1, <2>4, <2>5, SettledWith
  <2>7. checkpoint' \in [Batches -> Seq(Ids)]
    <3>1. \A b \in Batches : Append(checkpoint[b], i) \in Seq(Ids)
      BY <2>1 DEF TypeOK
    <3>2. checkpoint' = [checkpoint EXCEPT ![records[i].batch] =
                           Append(checkpoint[records[i].batch], i)]
      BY <1>5 DEF ack
    <3>3. QED
      BY <3>1, <3>2 DEF TypeOK
  <2>8. QED
    BY <1>5, <2>6, <2>7 DEF ack, TypeOK
<1>6. ASSUME NEW h \in Handles, ackAgain(h) \/ Cancel(h)
      PROVE  RecordInv'
  <2>1. /\ uploader' = [uploader EXCEPT ![h] = Idle]
        /\ UNCHANGED <<records, checkpoint, accepted, clock>>
        /\ stops' \in Nat
    BY <1>6 DEF ackAgain, Cancel, TypeOK
  <2>2. QED
    BY <2>1, <1>idle, JobChange DEF Busy
<1>7. ASSUME NEW h \in Handles, hold(h)
      PROVE  RecordInv'
  <2> DEFINE i == uploader[h].id
             q == [BackToPending(records[i]) EXCEPT !.hold = "held"]
  <2>1. i \in Ids
    BY <1>7 DEF hold, Engaged, Busy
  <2>2. CASE records[i].state = "sending"
    <3>1. Sound(q) /\ q.attempts = records[i].attempts
      BY <1>rec, <2>1, <2>2, HeldSound
    <3>2. /\ records' = [records EXCEPT ![i] = q]
          /\ uploader' = [uploader EXCEPT ![h] = Idle]
      BY <1>7, <2>1, <2>2 DEF hold, TypeOK
    <3> HIDE DEF q
    <3>3. /\ records' \in [Ids -> Record] /\ Stored'
          /\ uploader' \in [Handles -> Job] /\ Engaged'
      BY <2>1, <3>1, <3>2, SettledWith
    <3>4. QED
      BY <1>7, <3>3 DEF hold, TypeOK
  <2>3. CASE records[i].state # "sending"
    <3>1. /\ uploader' = [uploader EXCEPT ![h] = Idle]
          /\ UNCHANGED <<records, checkpoint, accepted, clock>>
          /\ stops' \in Nat
      BY <1>7, <2>3 DEF hold, TypeOK
    <3>2. QED
      BY <3>1, <1>idle, JobChange DEF Busy
  <2>4. QED
    BY <2>2, <2>3
<1>8. ASSUME NEW h \in Handles, NEW jitter \in Jitters, fail(h, jitter)
      PROVE  RecordInv'
  <2> DEFINE i == uploader[h].id
             q == Failed(records[i], uploader[h].minimum, jitter)
  <2>1. i \in Ids
    BY <1>8 DEF fail, Engaged, Busy
  <2>2. uploader[h].minimum \in Nat /\ jitter \in Nat
    <3>1. uploader[h].minimum \in RetryAfters \cup {0}
      BY <1>job DEF Job
    <3>2. RetryAfters \subseteq Nat /\ Jitters \subseteq Nat
      BY QueueAssumption DEF QueueAssumption
    <3>3. jitter \in Nat
      BY <3>2
    <3>4. \A x \in RetryAfters \cup {0} : x \in Nat
      BY <3>2
    <3>5. QED
      BY <3>1, <3>3, <3>4
  <2>3. CASE records' = records
    <3>1. /\ uploader' = [uploader EXCEPT ![h] = Idle]
          /\ UNCHANGED <<records, checkpoint, accepted, clock>>
          /\ stops' \in Nat
      BY <1>8, <2>3 DEF fail, TypeOK
    <3>2. QED
      BY <3>1, <1>idle, JobChange DEF Busy
  <2>4. CASE records' # records
    <3>1. /\ records[i].state = "sending" /\ clock >= records[i].since
          /\ records' = [records EXCEPT ![i] = q]
          /\ uploader' = [uploader EXCEPT ![h] = Idle]
      BY <1>8, <2>1, <2>4 DEF fail, TypeOK
    <3>2. clock \in Nat
      BY DEF TypeOK
    <3>3. Sound(q) /\ q.attempts = records[i].attempts
      BY <1>rec, <2>1, <2>2, <3>1, <3>2, FailedSound
    <3> HIDE DEF q
    <3>4. /\ records' \in [Ids -> Record] /\ Stored'
          /\ uploader' \in [Handles -> Job] /\ Engaged'
      BY <2>1, <3>1, <3>3, SettledWith
    <3>5. QED
      BY <1>8, <3>4 DEF fail, TypeOK
  <2>5. QED
    BY <2>3, <2>4
<1>9. ASSUME NEW h \in Handles, openQueue(h)
      PROVE  RecordInv'
  <2>1. \A i \in Ids : /\ Sound(recoverAllSending[i])
                       /\ recoverAllSending[i].attempts = records[i].attempts
    BY <1>rec, BackToPendingSound DEF recoverAllSending
  <2>2. records' = recoverAllSending /\ DOMAIN recoverAllSending = Ids
    BY <1>9 DEF openQueue, recoverAllSending
  <2>3. Stored' /\ records' \in [Ids -> Record]
    <3>1. \A i \in Ids : Sound(records[i])'
      BY <2>1, <2>2 DEF Sound, validateRecord
    <3>2. records' = [i \in Ids |-> recoverAllSending[i]]
      BY <2>2 DEF recoverAllSending
    <3>3. QED
      BY <2>1, <3>1, <3>2 DEF Stored, Sound
  <2>4. \A i \in Ids : records[i].attempts \in Nat
    BY Policy DEF TypeOK, Record
  <2>5. uploader' \in [Handles -> Job] /\ Engaged'
    <3>1. \A i \in Ids : records'[i].attempts \in Nat
                         /\ records'[i].attempts >= records[i].attempts
      BY <2>1, <2>2, <2>4
    <3>2. uploader' = [uploader EXCEPT ![h] = Idle]
      BY <1>9 DEF openQueue
    <3>3. QED
      BY <3>1, <3>2, Settled
  <2>6. QED
    BY <1>9, <2>3, <2>5 DEF openQueue, TypeOK
<1>10. ASSUME NEW h \in Handles, Stop(h)
       PROVE  RecordInv'
  <2>1. /\ uploader' = [uploader EXCEPT ![h] = Closed]
        /\ UNCHANGED <<records, checkpoint, accepted, clock>>
        /\ stops' \in Nat
    BY <1>10 DEF Stop, TypeOK
  <2>2. QED
    BY <2>1, <1>closed, JobChange DEF Busy
<1>11. ASSUME NEW h \in Handles, NEW o \in Bindings, NEW i \in Ids,
              NEW b \in Batches, NEW n \in 0..MaxRecords,
              enqueue(h, o, i, b, n)
       PROVE  RecordInv'
  <2> DEFINE q == [Blank EXCEPT !.owner = o, !.batch = b, !.seq = n,
                                !.state = "pending", !.since = clock]
  <2>1. b \in Nat /\ n \in Nat /\ clock \in Nat
    BY QueueAssumption DEF QueueAssumption, TypeOK
  <2>2. /\ q.owner = o /\ q.batch = b /\ q.seq = n /\ q.since = clock
        /\ q.hold = "none" /\ q.state = "pending" /\ q.attempts = 0
        /\ q.next = NoTime /\ q.ack = NoTime /\ q.disposition = "automatic"
    BY DEF Blank
  <2>7. 0 \in 0..MaxTotalAttempts
    BY Policy
  <2>8. q \in Record
    BY <2>1, <2>7 DEF Blank, Record, States, Dispositions, Holds, NoTime
  <2>3. records' = [records EXCEPT ![i] = q] /\ records[i].state = "absent"
    BY <1>11 DEF enqueue, Present
  <2> HIDE DEF q
  <2>4. Sound(q)
    BY <2>2, <2>8, Policy DEF Sound, validateRecord
  <2>5. q.attempts = records[i].attempts
    BY <1>rec, <2>2, <2>3 DEF Sound
  <2>6. QED
    BY <1>11, <2>3, <2>4, <2>5, ManagedWith DEF enqueue
<1>12. ASSUME NEW h \in Handles, NEW i \in Ids, recover(h, i)
       PROVE  RecordInv'
  <2>1. /\ records' = [records EXCEPT ![i] = BackToPending(records[i])]
        /\ records[i].state = "sending"
    BY <1>12 DEF recover, TypeOK
  <2>2. /\ Sound(BackToPending(records[i]))
        /\ BackToPending(records[i]).attempts = records[i].attempts
    BY <1>rec, <2>1, BackToPendingSound
  <2>3. QED
    BY <1>12, <2>1, <2>2, ManagedWith DEF recover
<1>13. ASSUME NEW h \in Handles, NEW i \in Ids, discard(h, i)
       PROVE  RecordInv'
  <2> DEFINE q == [records[i] EXCEPT !.state = "discarded"]
  <2>1. Sound(q) /\ q.attempts = records[i].attempts
    BY <1>13, <1>rec, DiscardedSound DEF discard
  <2>2. records' = [records EXCEPT ![i] = q]
    BY <1>13 DEF discard, TypeOK
  <2> HIDE DEF q
  <2>3. QED
    BY <1>13, <2>1, <2>2, ManagedWith DEF discard
<1>14. ASSUME NEW h \in Handles, NEW i \in Ids, manualRetry(h, i)
       PROVE  RecordInv'
  <2>1. /\ records[i].state = "pending"
        /\ records[i].attempts < MaxTotalAttempts
        /\ records' = [records EXCEPT ![i] = SendingNow(@)]
        /\ uploader' = [uploader EXCEPT ![h] = Attempting(i)]
    BY <1>14 DEF manualRetry
  <2>2. records[i].disposition = "automatic" =>
          records[i].attempts < MaxAttempts
    BY <1>rec, <2>1 DEF Sound, validateRecord
  <2>3. /\ records' \in [Ids -> Record] /\ Stored'
        /\ uploader' \in [Handles -> Job] /\ Engaged'
    BY <2>1, <2>2, Started
  <2>4. QED
    BY <1>14, <2>3 DEF manualRetry, TypeOK
<1>15. ASSUME NEW i \in Ids, ServerAccept(i)
       PROVE  RecordInv'
  BY <1>15 DEF ServerAccept, TypeOK, Stored, Sound, validateRecord, Engaged
<1>16. ASSUME NEW t \in Times, SetClock(t)
       PROVE  RecordInv'
  <2>1. t \in Nat \ {0}
    BY QueueAssumption DEF QueueAssumption, Times
  <2>2. QED
    BY <1>16, <2>1
    DEF SetClock, TypeOK, Stored, Sound, validateRecord, Engaged
<1>17. ASSUME UNCHANGED vars
       PROVE  RecordInv'
  BY <1>17 DEF vars, TypeOK, Stored, Sound, validateRecord, Engaged
<1>18. QED
  BY <1>1, <1>2, <1>3, <1>4, <1>5, <1>6, <1>7, <1>8, <1>9, <1>10, <1>11,
     <1>12, <1>13, <1>14, <1>15, <1>16, <1>17
  DEF Next, Uploading, Managing

\* RecordInv holds throughout every behaviour of the queue.
THEOREM RecordInvariant == Spec => []RecordInv
BY RecordInvInit, RecordInvNext, PTL DEF Spec

\* Every file, job and stamp of the queue keeps its type: in particular no
\* record is ever attempted more than MaxTotalAttempts times.
THEOREM TypeCorrect == Spec => []TypeOK
<1>1. RecordInv => TypeOK
  BY DEF RecordInv
<1>2. QED
  BY <1>1, RecordInvariant, PTL

\* No operation of any handle stores a record that validateRecord would reject
\* and the next read would quarantine.
THEOREM RecordsStayValid == Spec => []RecordsValid
<1>1. RecordInv => RecordsValid
  BY DEF RecordInv, Stored, Sound, RecordsValid
<1>2. QED
  BY <1>1, RecordInvariant, PTL

\* A record held after a refusal is never in flight and never acknowledged.
THEOREM HeldStaysParked == Spec => []HeldIsParked
<1>1. RecordInv => HeldIsParked
  BY DEF RecordInv, Stored, Sound, HeldIsParked
<1>2. QED
  BY <1>1, RecordInvariant, PTL
=============================================================================
