----------------------- MODULE ReconciliationProtocol -----------------------
(***************************************************************************)
(* The reference state machine of protocol-v1 reconciliation               *)
(* (protocol/reference/reconciliation.py), the specification the guard's   *)
(* queue is held to.  A document is a reconciliation record as the         *)
(* protocol defines it, with no notion of handles, files or holds.  A step *)
(* lets every document stay as it is or take one transition that           *)
(* validate_reconciliation_transition, validate_manual_retry_transition or *)
(* recover_after_restart accepts at the instant of the step.               *)
(***************************************************************************)
EXTENDS Integers, Sequences

CONSTANTS
  Ids, Bindings, Batches,
  MaxAttempts, MaxTotalAttempts,
  Delay,        \* retry_delay_seconds, by attempt count
  LongestDelay  \* the longest a retry may be put off, by attempt count; the
                \* reference itself accepts Delay only

VARIABLES
  documents,    \* id -> document; state "absent" until it is created
  receipts,     \* authenticated receipts held: an id, and the time it names
  recorded,     \* the ids whose evidence the server has
  now           \* the clock that stamps the transitions

NoTime == 0

\* _evidence_body and the partition: what no transition may change.
Evidence(d) == <<d.owner, d.batch, d.seq>>

\* _same_attempt_history
same_attempt_history(d, e) ==
  /\ e.attempts = d.attempts
  /\ e.since = d.since
  /\ e.disposition = d.disposition

\* validate_reconciliation_document, the rules that relate fields
validate_document(d) ==
  /\ d.attempts <= MaxTotalAttempts
  /\ d.disposition = "automatic" => d.attempts <= MaxAttempts
  /\ d.disposition = "manual_intervention" => d.attempts >= MaxAttempts
  /\ d.state = "pending" /\ d.disposition = "automatic" =>
       d.attempts < MaxAttempts
  /\ d.state = "retry_wait" => d.attempts < MaxAttempts /\ d.next > d.since
  /\ d.state # "retry_wait" => d.next = NoTime
  /\ d.state = "acknowledged" => d.ack >= d.since
  /\ d.state # "acknowledged" => d.ack = NoTime

\* _validate_send_transition
send_transition(d, e, t) ==
  /\ d.state \in {"pending", "retry_wait"} /\ e.state = "sending"
  /\ d.disposition = "automatic" /\ e.disposition = "automatic"
  /\ d.attempts < MaxAttempts
  /\ t >= d.since
  /\ d.state = "retry_wait" => t >= d.next
  /\ e.attempts = d.attempts + 1
  /\ e.since = t

\* _validate_retry_transition
retry_transition(d, e, t) ==
  /\ d.state = "sending" /\ e.state = "retry_wait"
  /\ d.attempts < MaxAttempts
  /\ t >= d.since
  /\ same_attempt_history(d, e)
  /\ e.next - t \in Delay[d.attempts]..LongestDelay[d.attempts]

\* _validate_exhaustion_transition, and recover_after_restart at the limit
exhaustion_transition(d, e, t) ==
  /\ d.state = "sending" /\ e.state = "pending"
  /\ d.attempts >= MaxAttempts
  /\ e.attempts = d.attempts /\ e.since = d.since
  /\ e.disposition = "manual_intervention"
  /\ t >= d.since

\* sending -> pending with automatic attempts left, and recover_after_restart
restart_transition(d, e, t) ==
  /\ d.state = "sending" /\ e.state = "pending"
  /\ e.disposition = "automatic"
  /\ same_attempt_history(d, e)
  /\ t >= d.since

\* _validate_acknowledgement_transition, with a receipt for the document i.
acknowledgement_transition(i, d, e, t) ==
  /\ d.state = "sending" /\ e.state = "acknowledged"
  /\ [id |-> i, at |-> e.ack] \in receipts
  /\ same_attempt_history(d, e)
  /\ e.ack <= t

\* _validate_discard_transition
discard_transition(d, e, t) ==
  /\ d.state = "pending" /\ e.state = "discarded"
  /\ same_attempt_history(d, e)
  /\ t >= d.since

\* validate_manual_retry_transition
manual_retry_transition(d, e, t) ==
  /\ d.state = "pending" /\ e.state = "sending"
  /\ d.disposition = "manual_intervention"
  /\ e.disposition = "manual_intervention"
  /\ d.attempts < MaxTotalAttempts
  /\ e.attempts = d.attempts + 1
  /\ e.since = t
  /\ t >= d.since

\* A document enters the store pending and never attempted.
creation(d, e) ==
  d.state = "absent" /\ e.state = "pending" /\ e.attempts = 0

\* validate_reconciliation_transition and validate_manual_retry_transition:
\* terminal documents take no transition, and evidence never changes.
transition(i, d, e, t) ==
  /\ validate_document(e)
  /\ \/ creation(d, e)
     \/ /\ Evidence(e) = Evidence(d)
        /\ \/ send_transition(d, e, t)
           \/ retry_transition(d, e, t)
           \/ exhaustion_transition(d, e, t)
           \/ restart_transition(d, e, t)
           \/ acknowledgement_transition(i, d, e, t)
           \/ discard_transition(d, e, t)
           \/ manual_retry_transition(d, e, t)

-----------------------------------------------------------------------------
(***************************************************************************)
(* ordered_batch_resume over the batch S at instant t, given the trusted   *)
(* checkpoint's completed prefix: which batches it rejects, and which      *)
(* records it selects from the others.  It walks the batch in order and    *)
(* stops at the first active record that may not be sent.                  *)
(***************************************************************************)
Terminal(i) == documents[i].state \in {"acknowledged", "discarded"}

Contiguous(S) ==
  \A i, j \in S :
    /\ documents[i].seq = documents[j].seq => i = j
    /\ documents[i].seq < documents[j].seq =>
         \E k \in S : documents[k].seq = documents[i].seq + 1

Due(i, t) ==
  /\ documents[i].disposition = "automatic"
  /\ documents[i].state # "sending"
  /\ documents[i].state = "retry_wait" => t >= documents[i].next

Ahead(S, i) == {j \in S : ~Terminal(j) /\ documents[j].seq < documents[i].seq}

Reached(S, i, t) == \A j \in Ahead(S, i) : Due(j, t)

resume_rejects(S, prefix, t) ==
  \/ ~Contiguous(S)
  \/ \E i \in S :
       /\ Reached(S, i, t)
       /\ IF Terminal(i)
          THEN \/ Ahead(S, i) # {}
               \/ documents[i].state # "acknowledged"
               \/ documents[i].seq >= Len(prefix)
               \/ prefix[documents[i].seq + 1] # i
          ELSE Ahead(S, i) = {} /\ documents[i].seq # Len(prefix)

resume_selects(S, t) ==
  {i \in S : ~Terminal(i) /\ Due(i, t) /\ Reached(S, i, t)}

-----------------------------------------------------------------------------
Init ==
  /\ \A i \in Ids : documents[i].state = "absent"
  /\ receipts = {} /\ recorded = {}

\* Every document stays, or takes a transition at its instant.
DocumentsMove(instant) ==
  \A i \in Ids :
    LET before == documents[i]
        after == documents'[i]
    IN  after = before \/ transition(i, before, after, instant[i])

\* A receipt is for evidence the server has, and names no time to come.
ReceiptsVerified ==
  /\ recorded \subseteq recorded'
  /\ \A r \in receipts' \ receipts : r.id \in recorded /\ r.at <= now

Next == ReceiptsVerified /\ DocumentsMove([i \in Ids |-> now])

Spec == Init /\ [][Next]_<<documents, receipts, recorded>>
=============================================================================
