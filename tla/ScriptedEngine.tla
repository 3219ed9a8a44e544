---------------------------- MODULE ScriptedEngine ----------------------------
(***************************************************************************)
(* testing/fake_transport.py: the scripted decision engine, its sync and   *)
(* async transports, and the commit gate that decides whether an async     *)
(* cancellation or the call's commit comes first.                          *)
(*                                                                         *)
(* A call takes the engine lock, plans its effect, runs the before_commit  *)
(* hook (which may re-enter the engine, the lock being re-entrant) and     *)
(* commits only if nothing has moved since it planned.                     *)
(***************************************************************************)
EXTENDS Integers, Sequences, FiniteSets

CONSTANTS
    Threads, Tasks,  \* users of a FakeTransport and of an AsyncFakeTransport
    Requests,        \* records [key, body]: an idempotency key and the rest
    Scripts,         \* the outcome queues test code may start with
    Enqueued,        \* outcomes test code may add later
    ResolutionKeys,
    Verdicts,        \* pairs of a terminal status and a reviewer or None
    Capacity, Ttl, ApprovalLife,
    MaxTime, MaxCalls, MaxMeddling, MaxSequence,   \* bounds of the model
    Free, None

VARIABLES outcomes, idempotency, bindings, approvals, resolutions, recorded,
          sequence,
          moved,     \* has _version changed since the lock's holder planned?
          closed, now,
          lock,      \* the RLock's holder, or Free
          call,      \* caller -> its call in progress
          returned,  \* caller -> results of its finished calls
          meddled    \* how often test code enqueued or closed

engineVars == <<outcomes, idempotency, bindings, approvals, resolutions,
                recorded, sequence>>
vars == <<engineVars, moved, closed, now, lock, call, returned, meddled>>

Callers == Threads \cup Tasks

Idle == [pc |-> "idle"]

\* A mapping with one more entry, as a dict assignment.
Put(f, k, v) == [x \in DOMAIN f \cup {k} |-> IF x = k THEN v ELSE f[x]]

Init ==
    /\ outcomes \in Scripts
    /\ idempotency = <<>> /\ bindings = <<>> /\ approvals = <<>>
    /\ resolutions = <<>> /\ recorded = <<>>
    /\ sequence = 0 /\ moved = FALSE /\ closed = FALSE /\ now = 0
    /\ lock = Free
    /\ call = [c \in Callers |-> Idle]
    /\ returned = [c \in Callers |-> <<>>]
    /\ meddled = 0

\* FrozenClock.advance, called by test code at any moment.
Tick ==
    /\ now < MaxTime
    /\ now' = now + 1
    /\ UNCHANGED <<engineVars, moved, closed, lock, call, returned, meddled>>

-----------------------------------------------------------------------------
(* Starting, cancelling and finishing a call. *)

CallNumber(c) == Len(returned[c]) + 1

NewCall(op, subject) ==
    [pc |-> "waiting", op |-> op, subject |-> subject,
     control |-> "none", gate |-> "OPEN", plan |-> None, result |-> None]

Start(c, op, subjects) ==
    /\ call[c] = Idle
    /\ CallNumber(c) <= MaxCalls[c]
    /\ \E s \in subjects : call' = [call EXCEPT ![c] = NewCall(op, s)]
    /\ UNCHANGED <<engineVars, moved, closed, now, lock, returned, meddled>>

\* An approval is asked for with the decision that announced it, and with that
\* decision's own request or another one.
ApprovalSubjects == [request : Requests, decision : DOMAIN bindings]
AnnouncedApprovals == {bindings[d].approval : d \in DOMAIN bindings}

\* FakeTransport: the caller's own thread enters the engine.
FakeTransportCall(c) ==
    \/ Start(c, "decide", Requests)
    \/ Start(c, "request_approval", ApprovalSubjects)
    \/ Start(c, "get_approval", AnnouncedApprovals)

\* A task that spins in _run_linearized never gives the event loop back.
LoopRuns == \A t \in Tasks : call[t].pc # "spinning"

\* AsyncFakeTransport: a fresh gate and stop event, and a worker thread that
\* runs the same engine call.
AsyncDecide(c) == LoopRuns /\ Start(c, "decide", Requests)
AsyncRequestApproval(c) == LoopRuns /\ Start(c, "request_approval", ApprovalSubjects)
AsyncGetApproval(c) == LoopRuns /\ Start(c, "get_approval", AnnouncedApprovals)

\* _CommitGate.cancel: effective only while the gate is OPEN.
GateCancel(gate) == IF gate = "OPEN" THEN "CANCELLED" ELSE gate

\* The task is cancelled (async), or the caller's cancelled() turns true (sync).
\* An async caller keeps waiting for its worker.
Cancel(c) ==
    /\ call[c].pc \in {"waiting", "delay", "hook", "settled"}
    /\ call[c].control # "cancel"
    /\ c \in Tasks => LoopRuns
    /\ call' = [call EXCEPT ![c].control = "cancel",
                            ![c].gate = IF c \in Tasks THEN GateCancel(@) ELSE @]
    /\ UNCHANGED <<engineVars, moved, closed, now, lock, returned, meddled>>

\* The call's deadline passes.
DeadlinePasses(c) ==
    /\ call[c].pc \in {"waiting", "delay"}
    /\ call[c].control = "none"
    /\ call' = [call EXCEPT ![c].control = "late"]
    /\ UNCHANGED <<engineVars, moved, closed, now, lock, returned, meddled>>

\* _check_control: the error it raises, or None.
CheckControl(c) ==
    CASE call[c].control = "cancel" -> "cancelled"
      [] call[c].control = "late"   -> "unavailable"
      [] OTHER                      -> None

\* _run_linearized.worker_call: what the worker makes of an error of the call.
\* A cancelled gate turns every failure into NOT_COMMITTED_CANCELLED, as does a
\* concurrent.futures.CancelledError; an asyncio.CancelledError is raised again.
WorkerFailure(c, error) ==
    IF error = "cancelled" \/ call[c].gate = "CANCELLED"
    THEN [state |-> "cancelled"]
    ELSE [state |-> "failed", error |-> error]

\* An asyncio.CancelledError out of the worker cancels the worker's own task:
\* awaiting it raises at once, however often the loop of _run_linearized tries.
Spins(result) == result.state = "failed" /\ result.error = "task cancelled"

\* A thread has its result at once; a task learns it when its loop runs again.
Settle(c, result, gate) ==
    IF c \in Tasks
    THEN /\ call' = [call EXCEPT ![c].pc = IF Spins(result) THEN "spinning" ELSE "settled",
                                 ![c].result = result,
                                 ![c].gate = gate, ![c].plan = None]
         /\ UNCHANGED returned
    ELSE /\ call' = [call EXCEPT ![c] = Idle]
         /\ returned' = [returned EXCEPT ![c] = Append(@, result)]

FailHoldingLock(c, error) ==
    /\ Settle(c, WorkerFailure(c, error), call[c].gate)
    /\ moved' = FALSE
    /\ UNCHANGED lock

Fail(c, error) ==
    /\ Settle(c, WorkerFailure(c, error), call[c].gate)
    /\ lock' = Free
    /\ moved' = FALSE

CancellationWins(c) ==
    IF call[c].control = "cancel" THEN [state |-> "cancelled"] ELSE call[c].result

\* _run_linearized gives what the worker settled on, cancelled meanwhile or not.
Delivered(c) == call[c].result

Return(c) ==
    /\ call[c].pc = "settled" /\ LoopRuns
    /\ returned' = [returned EXCEPT ![c] = Append(@, Delivered(c))]
    /\ call' = [call EXCEPT ![c] = Idle]
    /\ UNCHANGED <<engineVars, moved, closed, now, lock, meddled>>

-----------------------------------------------------------------------------
(* Inside the lock: plan the effect. *)

EarlyPurge == {k \in DOMAIN idempotency : idempotency[k].expires > now + 1}

\* _purge_expired
Live == {k \in DOMAIN idempotency : idempotency[k].expires > now}
Purged == [k \in Live |-> idempotency[k]]

\* The plan is what the commit re-checks: the version, and the object it read
\* (None when it read that there is none).
Plan(c, pc, kind, read) ==
    /\ call' = [call EXCEPT ![c].pc = pc, ![c].plan = [kind |-> kind, read |-> read, now |-> now]]
    /\ lock' = c
    /\ moved' = FALSE
    /\ UNCHANGED returned

\* _decide up to its commit.  A delayed outcome sleeps with the lock held.
EnterDecide(c) ==
    LET r == call[c].subject
        known == r.key \in Live IN
    /\ idempotency' = Purged
    /\ \/ /\ known /\ Purged[r.key].request = r
          /\ Plan(c, "hook", "replay", Purged[r.key])
       \/ /\ known /\ Purged[r.key].request # r
          /\ Fail(c, "conflict")
       \/ /\ ~known /\ (Cardinality(Live) >= Capacity \/ outcomes = <<>>)
          /\ Fail(c, "unavailable")
       \/ /\ ~known /\ Cardinality(Live) < Capacity /\ outcomes # <<>>
          /\ Plan(c, IF Head(outcomes).delayed THEN "delay" ELSE "hook",
                  "new", Head(outcomes))

\* _request_approval up to its commit: the decision's binding fixes request,
\* scope and approval id.
EnterRequestApproval(c) ==
    LET s == call[c].subject
        b == bindings[s.decision] IN
    /\ \/ /\ b.request # s.request
          /\ Fail(c, "conflict")
       \/ /\ b.request = s.request /\ b.approval \in DOMAIN approvals
          /\ Plan(c, "hook", "replay", approvals[b.approval])
       \/ /\ b.request = s.request /\ b.approval \notin DOMAIN approvals
          /\ IF b.expires <= now THEN Fail(c, "expired")
             ELSE IF Cardinality(DOMAIN approvals) >= Capacity THEN Fail(c, "unavailable")
             ELSE Plan(c, "hook", "new", None)
    /\ UNCHANGED idempotency

\* _get_approval up to its commit; it serves a closed engine too.
EnterGetApproval(c) ==
    /\ IF call[c].subject \in DOMAIN approvals
       THEN Plan(c, "hook", "get", approvals[call[c].subject])
       ELSE Fail(c, "unavailable")
    /\ UNCHANGED idempotency

Enter(c) ==
    /\ call[c].pc = "waiting"
    /\ lock = Free
    /\ \/ /\ CheckControl(c) # None
          /\ Fail(c, CheckControl(c))
          /\ UNCHANGED idempotency
       \/ /\ CheckControl(c) = None
          /\ closed /\ call[c].op # "get_approval"
          /\ Fail(c, "unavailable")
          /\ UNCHANGED idempotency
       \/ /\ CheckControl(c) = None
          /\ ~closed \/ call[c].op = "get_approval"
          /\ \/ call[c].op = "decide" /\ EnterDecide(c)
             \/ call[c].op = "request_approval" /\ EnterRequestApproval(c)
             \/ call[c].op = "get_approval" /\ EnterGetApproval(c)
    /\ UNCHANGED <<outcomes, bindings, approvals, resolutions, recorded, sequence,
                   closed, now, meddled>>

\* _sleep: polls the control while it holds the lock, and may end before it
\* polls again; completion_now is read when it is over.
Sleep(c) ==
    /\ call[c].pc = "delay"
    /\ \/ /\ CheckControl(c) # None
          /\ Fail(c, CheckControl(c))
       \/ /\ call' = [call EXCEPT ![c].pc = "hook", ![c].plan.now = now]
          /\ UNCHANGED <<lock, moved, returned>>
    /\ UNCHANGED <<engineVars, closed, now, meddled>>

-----------------------------------------------------------------------------
(* _commit: the gate's arbitration, then the mutation, then publication. *)

\* _prepared_call: what the engine keeps of a committed call.
RecordedCall(c, value) ==
    [by |-> <<c, CallNumber(c)>>, op |-> call[c].op, subject |-> call[c].subject,
     value |-> value, at |-> call[c].plan.now]

Publish(c, value) ==
    /\ Settle(c, [state |-> "committed", value |-> value],
              IF c \in Tasks THEN "COMMITTED" ELSE "OPEN")
    /\ recorded' = Append(recorded, RecordedCall(c, value))
    /\ lock' = Free
    /\ moved' = FALSE

\* A mutation that raises leaves the gate COMMITTING: a later cancellation no
\* longer replaces its error.
AbortCommit(c, error) ==
    /\ Settle(c, WorkerFailure(c, error), IF c \in Tasks THEN "COMMITTING" ELSE "OPEN")
    /\ lock' = Free
    /\ moved' = FALSE
    /\ UNCHANGED recorded

\* _new_id: the n-th id drawn from here on.
NewId(n) == sequence + n

\* _decision: draws the decision's, the audit's and the approval's id; the engine
\* echoes the client's scope.
Decision(r, kind) ==
    [id |-> NewId(1), request |-> r, outcome |-> kind,
     approval |-> IF kind = "approval_required" THEN NewId(3) ELSE None]

\* The checks replay and commit_decision make once the gate is theirs.
DecidePlanStands(c) ==
    LET key == call[c].subject.key  plan == call[c].plan IN
    /\ ~moved
    /\ IF plan.kind = "replay"
       THEN key \in DOMAIN idempotency /\ idempotency[key] = plan.read
       ELSE outcomes # <<>> /\ Head(outcomes) = plan.read /\ key \notin DOMAIN idempotency

RoomForBinding == Cardinality(DOMAIN bindings) < Capacity

CommitReplay(c) ==
    /\ call[c].plan.kind = "replay" /\ DecidePlanStands(c)
    /\ Publish(c, call[c].plan.read.result)
    /\ UNCHANGED <<outcomes, idempotency, bindings, sequence>>

\* The outcomes that raise: ScriptedEngine.error and ScriptedEngine.outage.
ScriptedErrors ==
    {"error", "outage", "concurrent.CancelledError", "asyncio.CancelledError"}

\* A scripted error is raised inside the commit and stays at the queue's head;
\* ids drawn by a decision that finds no room for its binding are spent.
CommitScriptedError(c) ==
    LET kind == call[c].plan.read.kind IN
    /\ call[c].plan.kind = "new" /\ DecidePlanStands(c)
    /\ \/ /\ kind \in ScriptedErrors
          /\ AbortCommit(c, CASE kind = "concurrent.CancelledError" -> "cancelled"
                              [] kind = "asyncio.CancelledError" -> "task cancelled"
                              [] kind = "outage" -> "unavailable"
                              [] OTHER -> "scripted")
          /\ UNCHANGED sequence
       \/ /\ kind = "approval_required" /\ ~RoomForBinding
          /\ AbortCommit(c, "unavailable")
          /\ sequence' = sequence + 3
    /\ UNCHANGED <<outcomes, idempotency, bindings>>

CommitDecision(c) ==
    LET plan == call[c].plan
        r == call[c].subject
        d == Decision(r, plan.read.kind) IN
    /\ plan.kind = "new" /\ DecidePlanStands(c)
    /\ plan.read.kind \in {"allow", "deny", "approval_required"}
    /\ d.approval # None => RoomForBinding
    /\ outcomes' = Tail(outcomes)
    /\ idempotency' = Put(idempotency, r.key,
                          [request |-> r, result |-> d, expires |-> plan.now + Ttl])
    /\ bindings' = IF d.approval = None THEN bindings
                   ELSE Put(bindings, d.id, [request |-> r, approval |-> d.approval,
                                             expires |-> plan.now + ApprovalLife])
    /\ sequence' = IF d.approval = None THEN sequence + 2 ELSE sequence + 3
    /\ Publish(c, d)

CommitDecide(c) ==
    /\ call[c].op = "decide"
    /\ \/ CommitReplay(c)
       \/ CommitScriptedError(c)
       \/ CommitDecision(c)
       \/ /\ ~DecidePlanStands(c)
          /\ AbortCommit(c, "unavailable")
          /\ UNCHANGED <<outcomes, idempotency, bindings, sequence>>
    /\ UNCHANGED <<approvals, resolutions>>

\* What a call on an approval re-checks: the version, and the record it read.
ApprovalPlanStands(c, a) ==
    LET plan == call[c].plan IN
    /\ ~moved
    /\ IF plan.read = None THEN a \notin DOMAIN approvals
       ELSE a \in DOMAIN approvals /\ approvals[a] = plan.read

\* commit_approval and replay_approval
CommitRequestApproval(c) ==
    LET plan == call[c].plan
        b == bindings[call[c].subject.decision]
        record == [status |-> "pending", requested |-> plan.now, expires |-> b.expires,
                   decided |-> None, reviewer |-> None] IN
    /\ call[c].op = "request_approval"
    /\ \/ /\ ~ApprovalPlanStands(c, b.approval)
          /\ AbortCommit(c, "unavailable")
          /\ UNCHANGED <<approvals, sequence>>
       \/ /\ ApprovalPlanStands(c, b.approval) /\ plan.kind = "replay"
          /\ Publish(c, plan.read)
          /\ UNCHANGED <<approvals, sequence>>
       \/ /\ ApprovalPlanStands(c, b.approval) /\ plan.kind = "new"
          /\ approvals' = Put(approvals, b.approval, record)
          /\ sequence' = sequence + 1
          /\ Publish(c, record)
    /\ UNCHANGED <<outcomes, idempotency, bindings, resolutions>>

UndatedExpiry(record, status, reviewer, t) ==
    [record EXCEPT !.status = status, !.reviewer = reviewer, !.decided = t]

\* _resolve: the terminal record.  An expiry is dated at the expiry or later.
Resolved(record, status, reviewer, t) ==
    [record EXCEPT !.status = status, !.reviewer = reviewer,
                   !.decided = IF status = "expired" /\ t < record.expires
                               THEN record.expires ELSE t]

\* _transition_locked: record the resolution under its key.
TransitionLocked(a, status, reviewer, key, t) ==
    LET r == Resolved(approvals[a], status, reviewer, t) IN
    /\ approvals' = [approvals EXCEPT ![a] = r]
    /\ resolutions' = Put(resolutions, key,
                          [approval |-> a, status |-> status, reviewer |-> reviewer, result |-> r])

\* The key the engine draws for an expiry of its own (_expire_locked).
ExpiryKey == <<"engine", NewId(1)>>

\* commit_get: a pending approval whose expiry has come is expired on the way.
CommitGetApproval(c) ==
    LET a == call[c].subject  plan == call[c].plan IN
    /\ call[c].op = "get_approval"
    /\ \/ /\ ~ApprovalPlanStands(c, a)
          /\ AbortCommit(c, "unavailable")
          /\ UNCHANGED <<approvals, resolutions, sequence>>
       \/ /\ ApprovalPlanStands(c, a)
          /\ plan.read.status = "pending" /\ plan.now >= plan.read.expires
          /\ TransitionLocked(a, "expired", None, ExpiryKey, plan.now)
          /\ sequence' = sequence + 3
          /\ Publish(c, approvals'[a])
       \/ /\ ApprovalPlanStands(c, a)
          /\ ~(plan.read.status = "pending" /\ plan.now >= plan.read.expires)
          /\ Publish(c, plan.read)
          /\ UNCHANGED <<approvals, resolutions, sequence>>
    /\ UNCHANGED <<outcomes, idempotency, bindings>>

\* _CommitGate.begin_commit: the call commits only if no cancellation came first.
BeginCommit(c) == call[c].gate # "CANCELLED"

Commit(c) ==
    /\ call[c].pc = "hook"
    /\ \/ /\ ~BeginCommit(c)
          /\ Fail(c, "cancelled")
          /\ UNCHANGED engineVars
       \/ /\ BeginCommit(c)
          /\ CommitDecide(c) \/ CommitRequestApproval(c) \/ CommitGetApproval(c)
    /\ UNCHANGED <<closed, now, meddled>>

-----------------------------------------------------------------------------
(* Test code driving the engine, from any thread or from a before_commit hook *)
(* of the thread that holds the lock.                                         *)

MayEnter == lock # Free => call[lock].pc = "hook"

Enqueue ==
    /\ MayEnter
    /\ meddled < MaxMeddling
    /\ meddled' = meddled + 1
    /\ \E o \in Enqueued : outcomes' = Append(outcomes, o)
    /\ moved' = (lock # Free)
    /\ UNCHANGED <<idempotency, bindings, approvals, resolutions, recorded, sequence,
                   closed, now, lock, call, returned>>

Close ==
    /\ MayEnter
    /\ meddled < MaxMeddling
    /\ meddled' = meddled + 1
    /\ closed' = TRUE
    /\ moved' = (lock # Free)
    /\ UNCHANGED <<outcomes, idempotency, bindings, approvals, resolutions, recorded,
                   sequence, now, lock, call, returned>>

\* _resolve_approval.  A key already used, an approval already resolved and a
\* verdict without a reviewer raise and change nothing; a verdict that comes at
\* the expiry or later expires the approval and raises.
ResolveApproval(a, status, reviewer, key) ==
    /\ MayEnter
    /\ <<"test", key>> \notin DOMAIN resolutions
    /\ approvals[a].status = "pending"
    /\ status \in {"approved", "denied"} => reviewer # None
    /\ IF now >= approvals[a].expires
       THEN /\ TransitionLocked(a, "expired", None, ExpiryKey, now)
            /\ sequence' = sequence + 3
       ELSE /\ TransitionLocked(a, status, reviewer, <<"test", key>>, now)
            /\ sequence' = sequence + 2
    /\ moved' = (lock # Free)
    /\ UNCHANGED <<outcomes, idempotency, bindings, recorded,
                   closed, now, lock, call, returned, meddled>>

Resolution ==
    \E a \in DOMAIN approvals, v \in Verdicts, k \in ResolutionKeys :
        ResolveApproval(a, v[1], v[2], k)

-----------------------------------------------------------------------------
CallStep(c) ==
    \/ c \in Threads /\ FakeTransportCall(c)
    \/ c \in Tasks /\ (AsyncDecide(c) \/ AsyncRequestApproval(c) \/ AsyncGetApproval(c))
    \/ Cancel(c) \/ DeadlinePasses(c)
    \/ Enter(c) \/ Sleep(c) \/ Commit(c) \/ Return(c)

Next == (\E c \in Callers : CallStep(c)) \/ Enqueue \/ Close \/ Resolution \/ Tick

\* A thread that waits for the lock, sleeps or commits runs eventually.  The
\* lock is not fair; that a waiter still gets it rests on MaxCalls.
Fairness == \A c \in Callers : WF_vars(Enter(c) \/ Sleep(c) \/ Commit(c) \/ Return(c))

Spec == Init /\ [][Next]_vars /\ Fairness

-----------------------------------------------------------------------------
(* Properties. *)

\* A call that returned a value took effect exactly once and with that value; a
\* call that raised - cancelled before or after its worker planned its commit,
\* late, refused or overtaken by a re-entrant hook - left nothing recorded
\* (_run_linearized and _CommitGate: "cancellation-safe worker cleanup").
RecordedExactlyWhenReturned ==
    \A c \in Callers : \A n \in 1..Len(returned[c]) :
        LET mine == {i \in 1..Len(recorded) : recorded[i].by = <<c, n>>}
            result == returned[c][n] IN
        IF result.state = "committed"
        THEN Cardinality(mine) = 1 /\ \A i \in mine : recorded[i].value = result.value
        ELSE mine = {}

\* Decide recordings of the idempotency key of recording i.
SameKey(i) == {j \in 1..Len(recorded) : recorded[j].op = "decide"
                                        /\ recorded[j].subject.key = recorded[i].subject.key}

\* Within the TTL of the decision first given for a key, every other committed
\* decide with that key is for the same request and gets that same decision,
\* whatever the callers' interleaving (_decide: "concurrent reuse of one
\* idempotency key cannot consume two outcomes").
ReplayWithinTtl ==
    \A i \in 1..Len(recorded) : recorded[i].op = "decide" =>
        LET first == \A j \in SameKey(i) : recorded[j].value = recorded[i].value => j >= i IN
        first => \A j \in SameKey(i) :
                    j > i /\ recorded[j].at < recorded[i].at + Ttl
                        => /\ recorded[j].value = recorded[i].value
                           /\ recorded[j].subject = recorded[i].subject

\* The approvals the engine keeps, seen as the service's book.
BookRecord(r) == [status |-> r.status, requested |-> r.requested,
                  expires |-> r.expires, decided |-> r.decided]
Book == [a \in 1..MaxSequence |-> IF a \in DOMAIN approvals THEN BookRecord(approvals[a])
                                  ELSE None]

Service == INSTANCE ApprovalService WITH ApprovalIds <- 1..MaxSequence, clock <- now, book <- Book

\* The engine implements the approval service: through get's lazy expiry,
\* resolutions from any thread and re-entrant hooks, an approval is resolved
\* once, granted only before its expiry and never reopened.
ImplementsApprovalService == Service!ServiceSpec

\* Every call returns, also when it is cancelled, when it waits behind a delayed
\* outcome that holds the lock, when its script raises, or when the engine is
\* closed meanwhile (a script with an asyncio.CancelledError is left to
\* ScriptedErrorsSurface).
CallsReturn == \A c \in Callers : call[c].pc = "waiting" ~> call[c].pc = "idle"

\* A call that drew a scripted error comes back with it, or with an error that
\* came in between, whichever exception the test scripted: "Interpreter
\* control-flow exceptions retain identity after their graph is cleared"
\* (ScriptedEngine.error).
ScriptedErrorsSurface ==
    \A c \in Callers :
        /\ call[c].pc = "hook" /\ call[c].plan.kind = "new"
        /\ call[c].op = "decide" /\ call[c].plan.read.kind \in ScriptedErrors
        ~> call[c].pc = "idle"
=============================================================================
