---------------------------- MODULE HttpTransport ----------------------------
(***************************************************************************)
(* transports/http.py with retry.py and credentials.py: one authorization  *)
(* attempt sent over HTTP until it is answered, given up or called off,    *)
(* while the transport may be closed under it.                             *)
(*                                                                         *)
(* The synchronous transport runs every request on an event loop in a      *)
(* thread of its own (_AsyncNetworkRuntime), so caller, closer and loop    *)
(* interleave freely.  The asynchronous one shares its caller's loop; there *)
(* the caller's task, the provider's task and the request's task           *)
(* interleave at awaits.  The network loses requests and answers.          *)
(***************************************************************************)
EXTENDS Integers

CONSTANTS
    Callers,        \* each makes one decide call
    Responses,      \* what the service, or whatever is between, may answer
    MaxAttempts, MaxElapsed, InitialDelay, MaxDelay, MaxRetryAfter,  \* RetryPolicy
    Deadlines,      \* possible deadlines of a call, one beyond MaxTime for none
    MaxTime, MaxStart,  \* model bounds: the clock, and when a call may begin
    None

VARIABLES
    sync,           \* is it the synchronous transport?
    now,
    closed,         \* the transport's _closed
    lock,           \* is the transport's _lock held across a close?
    runtime,        \* the event loop thread: open, closed (refuses work), stopped
    closer,         \* the closing thread or task: what it is doing, and whom it drains
    caller,         \* caller -> the decide call
    operation,      \* caller -> its request in the event loop
    provider,       \* caller -> its credential provider's task
    secret          \* caller -> the credential buffer: none, held or wiped

transport == <<sync, closed, lock, runtime, closer>>
vars == <<transport, now, caller, operation, provider, secret>>

NoOperation == [state |-> "none"]

Init ==
    /\ sync \in BOOLEAN
    /\ now = 0
    /\ closed = FALSE /\ lock = FALSE /\ runtime = "open"
    /\ closer = [pc |-> "idle", drains |-> {}]
    /\ \E d \in [Callers -> Deadlines] :
          caller = [c \in Callers |-> [pc |-> "idle", deadline |-> d[c], start |-> 0,
                                       attempt |-> 0, left |-> 0, until |-> 0, slept |-> 0,
                                       cancel |-> FALSE, outcome |-> "none", ended |-> 0]]
    /\ operation = [c \in Callers |-> NoOperation]
    /\ provider = [c \in Callers |-> "none"]
    /\ secret = [c \in Callers |-> "none"]

-----------------------------------------------------------------------------
(* What an answer means. *)

\* _parse_decision: well formed, unexpired by its own times, and for this attempt.
ParseDecision(body) == IF body = "own" THEN "decision" ELSE "invalid"

\* _parse_protocol_error: a well-formed error document of this attempt.
ParseProtocolError(body) == IF body \in {"refused", "unavailable"} THEN body ELSE None

\* _read_response_async and _validate_response_headers: a malformed frame still
\* counts as transient under a transient status.
ReadResponse(r) ==
    IF r.framed THEN "response" ELSE IF r.status = "transient" THEN "retry" ELSE "invalid"

\* _response_result
ResponseResult(r) ==
    IF r.status = "ok" THEN ParseDecision(r.body)
    ELSE IF r.status = "redirect" THEN "invalid"
    ELSE IF ParseProtocolError(r.body) = "unavailable" THEN "retry"
    ELSE IF ParseProtocolError(r.body) = "refused" THEN "refused"
    ELSE IF r.status = "transient" THEN "retry" ELSE "invalid"

\* What decide makes of a finished request; _exception_failure and
\* _status_failure make every failed exchange retryable.
Result(o) ==
    IF o.answer = None THEN "retry"
    ELSE IF ReadResponse(o.answer) = "response" THEN ResponseResult(o.answer)
    ELSE ReadResponse(o.answer)

-----------------------------------------------------------------------------
(* RetryPolicy. *)

Least(a, b) == IF a < b THEN a ELSE b

\* _backoff, with the jitter that may shorten or lengthen it.
Backoff(attempt) ==
    LET base == Least(MaxDelay, InitialDelay * 2^(attempt - 1))
    IN  {d \in 0..MaxDelay : base - 1 <= d /\ d <= base + 1}

\* _retry_after: a usable header, capped; a framing error loses it.
RetryAfter(o) ==
    IF o.answer = None \/ o.answer.retryAfter = None \/ ReadResponse(o.answer) # "response"
    THEN None ELSE Least(o.answer.retryAfter, MaxRetryAfter)

RetryAsAsked(call, o) ==
    {d \in IF RetryAfter(o) = None THEN Backoff(call.attempt) ELSE {RetryAfter(o)} :
        /\ ~call.cancel
        /\ call.attempt < MaxAttempts
        /\ now - call.start < MaxElapsed
        /\ now < call.deadline}
\* authorization_retry: the delays after which this attempt may be repeated.
AuthorizationRetry(call, o) ==
    {d \in IF RetryAfter(o) = None THEN Backoff(call.attempt) ELSE {RetryAfter(o)} :
        /\ ~call.cancel
        /\ call.attempt < MaxAttempts
        /\ d < MaxElapsed - (now - call.start)
        /\ d < call.deadline - now}

-----------------------------------------------------------------------------
(* A decide call. *)

At(c, pc) == caller[c].pc = pc
Goto(c, pc) == caller' = [caller EXCEPT ![c].pc = pc]
Finish(c, outcome) ==
    caller' = [caller EXCEPT ![c].pc = "done", ![c].outcome = outcome, ![c].ended = now]

CancelledOnly(c) == caller[c].cancel
\* _cancel_requested, and the deadline.
CalledOff(c) == caller[c].cancel \/ now >= caller[c].deadline

\* _ensure_open waits for the transport's lock, which a synchronous close keeps.
EnsureOpen(c) == ~lock

\* decide up to the credential.
BeginDecide(c) ==
    /\ At(c, "idle") /\ now <= MaxStart /\ EnsureOpen(c)
    /\ IF closed THEN Finish(c, "unavailable")
       ELSE IF CalledOff(c) THEN Finish(c, "cancelled")
       ELSE caller' = [caller EXCEPT ![c].pc = "credential", ![c].start = now]
    /\ UNCHANGED <<transport, now, operation, provider, secret>>

\* What the provider boundary makes of whatever the provider does: a credential,
\* which may have expired, nothing usable (any failure), or a cancellation.
Outcomes == {"current", "expired", "nothing", "cancellation"}

\* take and close: only a credential has a buffer to hand over or to wipe.
IsCredential(outcome) == outcome \in {"current", "expired"}

\* current and authorization_header: where an acquisition that was not called
\* off leads.
Acquired(c, got) ==
    IF CalledOff(c) \/ got = "cancellation" THEN Finish(c, "cancelled")
    ELSE IF got # "current" THEN Finish(c, "unauthenticated")
    ELSE Goto(c, "loop")

\* acquire_credential and _sync_authorization_header: the buffer is wiped on
\* every way out.
SyncAuthorizationHeader(c) ==
    /\ sync /\ At(c, "credential")
    /\ \E got \in Outcomes :
          /\ secret' = [secret EXCEPT ![c] = IF IsCredential(got) THEN "wiped" ELSE @]
          /\ Acquired(c, got)
    /\ UNCHANGED <<transport, now, operation, provider>>

\* acquire_credential_async starts the provider in a shielded task.
AcquireCredentialAsync(c) ==
    /\ ~sync /\ At(c, "credential") /\ provider[c] = "none"
    /\ IF CalledOff(c) THEN Finish(c, "cancelled") /\ UNCHANGED provider
       ELSE provider' = [provider EXCEPT ![c] = "running"] /\ UNCHANGED caller
    /\ UNCHANGED <<transport, now, operation, secret>>

\* The provider's task ends, awaited or detached, with or without a credential.
AsyncInvoke(c) ==
    /\ provider[c] \in {"running", "detached"}
    /\ \E got \in Outcomes :
          /\ provider' = [provider EXCEPT ![c] =
                             IF @ = "detached" THEN "drain" ELSE got]
          /\ secret' = [secret EXCEPT ![c] = IF IsCredential(got) THEN "held" ELSE @]
    /\ UNCHANGED <<transport, now, caller, operation>>

Wipe(c) == secret' = [secret EXCEPT ![c] = IF @ = "held" THEN "wiped" ELSE @]

\* _drain_provider_task: the done callback of a provider nobody awaits.
DrainProviderTask(c) ==
    /\ provider[c] = "drain"
    /\ provider' = [provider EXCEPT ![c] = "over"]
    /\ Wipe(c)
    /\ UNCHANGED <<transport, now, caller, operation>>

\* The rest of acquire_credential_async, and _async_authorization_header.
AsyncAuthorizationHeader(c) ==
    /\ ~sync /\ At(c, "credential") /\ provider[c] \in Outcomes
    /\ provider' = [provider EXCEPT ![c] = "over"]
    /\ Wipe(c)
    /\ Acquired(c, provider[c])
    /\ UNCHANGED <<transport, now, operation>>

\* The request carries the time left when the loop looked at the clock; the
\* runtime and _await_with_controls count it from when they start.
NewOperation(c, left) == [state |-> "running", limit |-> now + left, answer |-> None]

Send(c, left) ==
    /\ operation' = [operation EXCEPT ![c] = NewOperation(c, left)]
    /\ caller' = [caller EXCEPT ![c].pc = "sending", ![c].attempt = @ + 1]

\* The head of the retry loop.
LoopHead(c) ==
    /\ At(c, "loop") /\ EnsureOpen(c)
    /\ closed \/ CalledOff(c)
    /\ Finish(c, IF closed THEN "unavailable" ELSE "cancelled")
    /\ UNCHANGED <<transport, now, operation, provider, secret>>

Loop(c) ==
    /\ sync /\ At(c, "loop") /\ EnsureOpen(c) /\ ~closed /\ ~CalledOff(c)
    /\ caller' = [caller EXCEPT ![c].pc = "submit", ![c].left = caller[c].deadline - now]
    /\ UNCHANGED <<transport, now, operation, provider, secret>>

\* run registers the request under the runtime's lock, unless it is closed.
RunSubmit(c) ==
    /\ At(c, "submit")
    /\ IF runtime = "open" THEN Send(c, caller[c].left)
       ELSE Finish(c, "unavailable") /\ UNCHANGED operation
    /\ UNCHANGED <<transport, now, provider, secret>>

\* _await_with_controls makes the request a task before anything awaits.
ALoop(c) ==
    /\ ~sync /\ At(c, "loop") /\ ~closed /\ ~CalledOff(c)
    /\ Send(c, caller[c].deadline - now)
    /\ UNCHANGED <<transport, now, provider, secret>>

-----------------------------------------------------------------------------
(* The request in its event loop. *)

Live(c) == operation[c].state \in {"running", "cancelling"}

\* _send_async_client and _bounded: the exchange ends with an answer or an
\* httpx error, times out, or finds its client closed; completed is set.
Bounded(c) ==
    /\ operation[c].state = "running"
    /\ \/ \E r \in Responses :
             operation' = [operation EXCEPT ![c].state = "done", ![c].answer = r]
       \/ operation' = [operation EXCEPT ![c].state = "done"]
       \/ /\ sync /\ now >= operation[c].limit
          /\ operation' = [operation EXCEPT ![c].state = "late"]
       \/ /\ closer.pc = "done" /\ ~sync
          /\ operation' = [operation EXCEPT ![c].state = "broken"]
    /\ UNCHANGED <<transport, now, caller, provider, secret>>

\* Cancellation reaches the request; the finally clause sets completed.
NeverCompleted(c) ==
    /\ operation[c].state = "cancelling"
    /\ UNCHANGED vars
BoundedCancelled(c) ==
    /\ operation[c].state = "cancelling"
    /\ operation' = [operation EXCEPT ![c].state = "cancelled"]
    /\ UNCHANGED <<transport, now, caller, provider, secret>>

\* future.cancel() and task.cancel()
CancelOperation(c) ==
    operation' = [operation EXCEPT ![c].state = IF @ = "running" THEN "cancelling" ELSE @]

\* _cancel_and_drain by the caller itself, or gather after task.cancel().
AbandonAtOnce(c) == Finish(c, "cancelled") /\ UNCHANGED operation
CancelAndDrain(c) == Goto(c, "draining") /\ CancelOperation(c)

Drained(c) ==
    /\ At(c, "draining") /\ ~Live(c)
    /\ Finish(c, "cancelled")
    /\ UNCHANGED <<transport, now, operation, provider, secret>>

\* _cancel_requested, and wall_deadline.
GivenUp(c) == caller[c].cancel \/ now >= operation[c].limit

\* The polling loop of run: called off, or the future is done.  A closer cancels
\* the future before the request itself has ended; the caller then sees either
\* the runtime's closure or, through a poll that timed out, the cancellation.
RunPoll(c) ==
    /\ sync /\ At(c, "sending")
    /\ \/ GivenUp(c) /\ CancelAndDrain(c)
       \/ operation[c].state = "late" /\ Finish(c, "cancelled") /\ UNCHANGED operation
       \/ operation[c].state = "done" /\ Goto(c, "result") /\ UNCHANGED operation
       \/ /\ operation[c].state \in {"cancelling", "cancelled"}
          /\ Finish(c, "unavailable") \/ Finish(c, "cancelled")
          /\ UNCHANGED operation
    /\ UNCHANGED <<transport, now, provider, secret>>

\* The polling loop of _await_with_controls.
AwaitPoll(c) ==
    /\ ~sync /\ At(c, "sending")
    /\ \/ GivenUp(c) /\ Live(c) /\ CancelAndDrain(c)
       \/ operation[c].state = "broken" /\ Finish(c, "broken") /\ UNCHANGED operation
       \/ operation[c].state = "done" /\ Goto(c, "result") /\ UNCHANGED operation
    /\ UNCHANGED <<transport, now, provider, secret>>

\* decide after the exchange: a failed exchange is not checked against the
\* deadline here but by the retry policy.
DecideResult(c) ==
    /\ At(c, "result")
    /\ LET result == Result(operation[c])
       IN  IF CalledOff(c) /\ operation[c].answer # None /\ ReadResponse(operation[c].answer) = "response"
           THEN Finish(c, "cancelled")
           ELSE IF result # "retry" THEN Finish(c, result)
           ELSE IF AuthorizationRetry(caller[c], operation[c]) = {} THEN Finish(c, "unavailable")
           ELSE \E d \in AuthorizationRetry(caller[c], operation[c]) :
                   caller' = [caller EXCEPT ![c].pc = "sleeping", ![c].until = now + d,
                                            ![c].slept = @ + d]
    /\ operation' = [operation EXCEPT ![c] = NoOperation]
    /\ UNCHANGED <<transport, now, provider, secret>>

\* _sync_sleep looks at the cancellation between quanta.
SyncSleep(c) ==
    /\ sync /\ At(c, "sleeping")
    /\ \/ caller[c].cancel /\ now < caller[c].until /\ Finish(c, "cancelled")
       \/ now >= caller[c].until /\ Goto(c, "loop")
    /\ UNCHANGED <<transport, now, operation, provider, secret>>

\* _async_sleep looks only when it is over.
AsyncSleep(c) ==
    /\ ~sync /\ At(c, "sleeping") /\ now >= caller[c].until
    /\ IF caller[c].cancel THEN Finish(c, "cancelled") ELSE Goto(c, "loop")
    /\ UNCHANGED <<transport, now, operation, provider, secret>>

\* The caller's cancellation callback starts to answer TRUE.
RequestCancel(c) ==
    /\ caller[c].pc \notin {"idle", "done"} /\ ~caller[c].cancel
    /\ caller' = [caller EXCEPT ![c].cancel = TRUE]
    /\ UNCHANGED <<transport, now, operation, provider, secret>>

\* The caller's task is cancelled at an await; a second time while it drains.
TaskCancelled(c) ==
    /\ ~sync
    /\ \/ /\ At(c, "credential") /\ provider[c] # "none"
          /\ provider' = [provider EXCEPT ![c] = IF @ = "running" THEN "detached" ELSE "drain"]
          /\ Finish(c, "cancelled") /\ UNCHANGED operation
       \/ At(c, "sending") /\ CancelAndDrain(c) /\ UNCHANGED provider
       \/ (At(c, "draining") \/ At(c, "sleeping")) /\ Finish(c, "cancelled")
          /\ UNCHANGED <<operation, provider>>
    /\ UNCHANGED <<transport, now, secret>>

-----------------------------------------------------------------------------
(* Closing the transport. *)

\* close of the synchronous transport keeps its lock until the runtime stopped.
Close ==
    /\ sync /\ closer.pc = "idle"
    /\ closed' = TRUE /\ lock' = TRUE
    /\ closer' = [closer EXCEPT !.pc = "runtime"]
    /\ UNCHANGED <<sync, runtime, now, caller, operation, provider, secret>>

\* _AsyncNetworkRuntime.close refuses new work and notes the work in progress.
RuntimeClose ==
    /\ closer.pc = "runtime"
    /\ runtime' = "closed"
    /\ closer' = [pc |-> "drain", drains |-> {c \in Callers : At(c, "sending") \/ At(c, "draining")}]
    /\ UNCHANGED <<sync, closed, lock, now, caller, operation, provider, secret>>

\* ... cancels it and waits for it, one by one ...
RuntimeDrain ==
    /\ closer.pc = "drain" /\ closer.drains # {}
    /\ LET c == CHOOSE x \in closer.drains : TRUE
       IN  IF operation[c].state = "running"
           THEN CancelOperation(c) /\ UNCHANGED closer
           ELSE /\ operation[c].state # "cancelling"
                /\ closer' = [closer EXCEPT !.drains = @ \ {c}]
                /\ UNCHANGED operation
    /\ UNCHANGED <<sync, closed, lock, runtime, now, caller, provider, secret>>

\* ... closes the HTTP client and stops the loop.
RuntimeStop ==
    /\ closer.pc = "drain" /\ closer.drains = {}
    /\ runtime' = "stopped" /\ lock' = FALSE
    /\ closer' = [closer EXCEPT !.pc = "done"]
    /\ UNCHANGED <<sync, closed, now, caller, operation, provider, secret>>

\* aclose
AClose ==
    /\ ~sync /\ closer.pc = "idle"
    /\ closed' = TRUE
    /\ closer' = [closer EXCEPT !.pc = "done"]
    /\ UNCHANGED <<sync, lock, runtime, now, caller, operation, provider, secret>>

-----------------------------------------------------------------------------
Tick ==
    /\ now < MaxTime
    /\ now' = now + 1
    /\ UNCHANGED <<transport, caller, operation, provider, secret>>

\* What a begun call goes on with by itself.
CallerStep(c) ==
    \/ SyncAuthorizationHeader(c) \/ AcquireCredentialAsync(c) \/ AsyncAuthorizationHeader(c)
    \/ LoopHead(c) \/ Loop(c) \/ RunSubmit(c) \/ ALoop(c) \/ RunPoll(c) \/ AwaitPoll(c)
    \/ Drained(c) \/ DecideResult(c) \/ SyncSleep(c) \/ AsyncSleep(c)

LoopStep(c) == Bounded(c) \/ BoundedCancelled(c) \/ AsyncInvoke(c) \/ DrainProviderTask(c)

CloserStep == RuntimeClose \/ RuntimeDrain \/ RuntimeStop

Next ==
    \/ \E c \in Callers :
          \/ BeginDecide(c) \/ CallerStep(c) \/ LoopStep(c)
          \/ RequestCancel(c) \/ TaskCancelled(c)
    \/ Close \/ AClose \/ CloserStep \/ Tick

\* Threads and tasks run; an exchange ends, for httpx has timeouts of its own;
\* a provider ends; time passes.  Nothing makes a call or a close begin.
Fairness ==
    /\ \A c \in Callers : WF_vars(CallerStep(c)) /\ WF_vars(LoopStep(c))
    /\ WF_vars(CloserStep) /\ WF_vars(Tick)

Spec == Init /\ [][Next]_vars /\ Fairness

-----------------------------------------------------------------------------
(* Properties. *)

\* A call keeps to its time, whatever Retry-After asks for, however often it is
\* repeated and however late a thread wakes: all it ever sleeps is less than
\* max_elapsed and than its deadline left it (authorization_retry), and no
\* decision or refusal is handed over at or after the deadline, although the
\* request's own limit, counted from a clock read before it was submitted, may
\* lie beyond it (decide looks again).
KeepsToItsTime ==
    \A c \in Callers :
        /\ caller[c].slept > 0 => /\ caller[c].slept < MaxElapsed
                                  /\ caller[c].slept < caller[c].deadline - caller[c].start
        /\ caller[c].outcome \in {"decision", "refused"} => caller[c].ended < caller[c].deadline

\* A call that is over leaves nothing behind: its request is not running on (at
\* most it is being cancelled by a closer or a second cancellation), and once no
\* task holds its credential any more the buffer is wiped.  After close has
\* returned nothing runs in the event loop at all (http.py, "Do not return with
\* a response or handler still running in the owned loop").
NothingLeftBehind ==
    /\ \A c \in Callers :
          At(c, "done") => /\ operation[c].state # "running"
                           /\ secret[c] = "held" => provider[c] = "drain"
    /\ runtime = "stopped" => \A c \in Callers : ~Live(c)

\* A decide call that began returns, whatever is lost, cancelled or closed
\* under it, and so does close: nobody waits for a completion nobody signals.
CallsReturn ==
    /\ \A c \in Callers : ~At(c, "idle") ~> At(c, "done")
    /\ closer.pc # "idle" ~> closer.pc = "done"
=============================================================================
