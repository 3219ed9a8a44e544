--------------------------- MODULE ApprovalRecords ---------------------------
(***************************************************************************)
(* The checks approvals.py and client.py make of decisions and approval    *)
(* records before they act on them.  Identifiers and hashes are compared   *)
(* for equality only, so a record keeps one field for each group that is   *)
(* compared together:                                                      *)
(*   request   [event, scope, attempt, resume]                             *)
(*   decision  [attempt, scope, auth, outcome, approval, expires]          *)
(*   approval  [event, auth, requested, expires, decided, status]          *)
(* event is the action id, attempt the request id with its idempotency     *)
(* key, scope the client scope hash and auth the authoritative one.        *)
(***************************************************************************)
EXTENDS Integers

CONSTANT None

Statuses == {"pending", "approved", "denied", "expired", "cancelled"}

\* AuthorizationDecision._from_protocol: an approval comes with
\* approval_required and with nothing else, and nothing is born expired.
WellFormedDecision(d, serverTime) ==
    /\ (d.approval # None) = (d.outcome = "approval_required")
    /\ d.expires > serverTime
    /\ d.approval # None => d.approval.expires > serverTime

\* _validate_record_timestamps: the record's own times are in order.
OrderedTimes(r) ==
    /\ r.requested < r.expires
    /\ (r.decided = None) = (r.status = "pending")
    /\ r.status = "expired" => r.decided >= r.expires
    /\ r.status \in {"approved", "denied", "cancelled"} =>
        r.requested <= r.decided /\ r.decided < r.expires

\* ApprovalRecord._from_protocol: what the caller of the client gets to see.
PublicApproval(r) == r.status \in Statuses /\ OrderedTimes(r)

\* _public_decision: the answer is to this attempt and to this scope.
AnswersAttempt(d, request) == d.attempt = request.attempt /\ d.scope = request.scope

\* _bind_approval: the record is the one the decision announced.
Binds(r, d, request) ==
    /\ r.event = request.event
    /\ r.auth = d.auth
    /\ r.expires = d.approval.expires

\* _validate_transition: what fixed a record never changes, a pending record
\* seen pending again is the same, and a resolved one never changes at all.
ValidTransition(expected, current) ==
    /\ expected.event = current.event /\ expected.auth = current.auth
    /\ expected.requested = current.requested /\ expected.expires = current.expires
    /\ (expected.status = "pending" /\ current.status # "pending") \/ current = expected

ResumableWhenResolved(request, prior, r, trustedNow) ==
    /\ AnswersAttempt(prior, request)
    /\ Binds(r, prior, request)
    /\ r.status # "pending"
    /\ trustedNow < r.expires

\* _require_resumable: the approval is the prior decision's, for the original
\* request, and is granted, not from the future and not yet expired.
Resumable(request, prior, r, trustedNow) ==
    /\ prior.outcome = "approval_required"
    /\ AnswersAttempt(prior, request)
    /\ Binds(r, prior, request)
    /\ r.status = "approved"
    /\ r.decided <= trustedNow
    /\ trustedNow < r.expires
=============================================================================
