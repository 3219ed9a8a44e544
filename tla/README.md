# A TLA+ verification project for the PaloNexus SDK and guard

The repository holds a local *guard* (Go: a daemon that normalises an agent's
action, asks a decision service, and keeps evidence of what happened) and a
Python *SDK* (a client that authorizes actions, waits for approvals, resumes
work, and plugs into agent frameworks), held together by a protocol with a
Python reference implementation. This directory models its stateful parts in
TLA+, checks them with TLC, and proves the central invariants of the evidence
queue and of the identifier generator with TLAPS.

- `PROJECT.json` lists components, runs, mutants, theorems, hazards, findings,
  and the source lines every definition stands for.
- Paths below are relative to the source tree unless they name a module.

## 1. Inventory

| Part | State it keeps | Operations | Interacts with | What makes it hard |
| --- | --- | --- | --- | --- |
| Evidence queue (`guard/internal/reconcile`) | record, checkpoint, journal and tombstone files | open, close, enqueue, claim, fail, hold, ack, recover, discard, manualRetry | uploader, server, other processes on the same directory | two-file commits, crashes, handles that take over each other's attempts, clock steps |
| Uploader (`uploader.go`) | one attempt in progress | claim, send, settle | queue, server | no lock between claim and settle; lost answers |
| Reference state machine (`protocol/reference/reconciliation.py`) | a document | transitions, restart recovery, ordered resume | what the queue is held to | – |
| Session store and manager (`guard/internal/state`, `auth`) | session metadata, credentials, reservation journal | login, refresh, logout, read | identity provider, key store | crash between store and activation, indeterminate durability, concurrent logout |
| Socket server (`guard/internal/socket`) | lifecycle journal, socket file, client slots | new, recover, serve, close | daemon, clients | crash between bind, rename and journal; accept against close |
| Daemon manager (`guard/internal/daemon`) | state file, child process | run, start, stop, status, check | socket server | concurrent autostart, timeout against a late start, signals to a stale process |
| Guard check and decision client (`guard/internal/guard`, `decision`, `routing`) | none across calls | check, decide | daemon, decision service | every failure must end closed |
| Plugin installer (`guard/internal/plugin`) | destination, backup, stage, journal | install, uninstall, recover | agent tools | recovery infers progress from which files exist |
| Python client (`client.py`, `async_client.py`) | open/closing/closed, active count | decide, approvals, resume, close | transports | close against running operations, cancellation |
| Approvals and execution envelopes (`approvals.py`, `protocol.py`) | approval record, sealed material | request, poll, build, resume, consume, close | client, server | approval checked before, used after, a fresh decision; two locks per resume |
| HTTP runtime (`transports/http.py`) | loop thread, futures | run, cancel, close | client | cancellation before a coroutine starts |
| Retry policy (`retry.py`) | – | authorization_retry | transport | ambiguity, deadline, Retry-After |
| Credentials (`credentials.py`) | a provider task | acquire | client | cancellation of a shielded task |
| Execution ledger (`integrations/langgraph.py`) | claims | query, claim, complete, fail | graph runtime | restart between claim and completion |
| Identifier generator (`context.py`) | last timestamp and randomness | new | all | fork, clock steps, overflow |
| LangChain and Deep Agents middleware (`integrations/langchain.py`, `deepagents.py`) | the current call's frame | tool and model hooks, spawn | client, spawn runtime | frames copied into threads and tasks that outlive the call |
| Test double (`testing/fake_transport.py`) | script, idempotency entries, approvals | decide, approvals, resolve, close | tests of applications | cancellation against commit, re-entrant hooks |
| Key store (`keystore.py`) and credentials (`identity/vc.py`, `did.py`) | keys, leases, replay entries | sign, rotate, close; create and verify | clients, verifiers | erasure while a lease is read, stale caller clocks |
| Command line and developer client (`cli`, `developer`) | keyring or file store, workspace, service records | login, register, attach, authority, run, wait, resume, revoke | developer service, other processes | whole-record saves of concurrent processes, lost answers, crashes |
| Key cache (`identity/oidc.py`) | keys, negative cache, cooldowns | verify, refresh | issuer | rotation against three kinds of caching |
| Governed subagents (`developer/subagents.py`) | intent state in the key store | request, activate | developer service | crash between remote create and local save |

Parsing, canonicalisation, redaction, configuration, cryptography, generated
bindings and scripts have no state of their own. They are listed in
`PROJECT.json` as not modelled; section 6 says what else is left out.

## 2. What is modelled now

### The queue's operations: `ReconcileQueue`

Handles (queue objects of one or several processes) share one directory.
`withLock` serialises operations, so an operation is one action; what happens
inside an operation is the subject of `ReconcileJournal`.

| Variable | In the code |
| --- | --- |
| `records` | record files: owner, batch, sequence, state, attempts, stamps, disposition, hold class |
| `checkpoint` | checkpoint files: the completed prefix; its length is `ExpectedNextSequence` |
| `uploader` | per handle, where its `Uploader.Attempt` stands and what it remembers |
| `accepted` | evidence the server has recorded (external) |
| `clock` | the wall clock; it may be stepped back |
| `stops` | crashes and closes so far (a bound) |

Actions carry the source's names: `openQueue` (which returns every record in
flight to pending), `enqueue`, `claim`, `ack`, `hold`, `fail`, `recover`,
`discard`, `manualRetry`. `Stop` is a close or the death of the process, `Cancel`
a cancelled context. `SendReceipt`, `SendTransient` and `SendRefused` are the
outcomes of `HTTPTransport.Send`. `validateAllBatchGroups` guards every
operation, as `withLock` does in the code.

Abstractions:

- the evidence body and its hash are functions of the fixed fields of a record;
- the three hold classes are one;
- `since` is `ObservedAt` before the first attempt and `LastAttemptAt` from then
  on, which is all `validateRecord` compares. `ObservedAt` is taken to be the
  clock at enqueue (the clock may be stepped back right after);
- the record count is modelled, the byte quota is not;
- all records share one delivery policy.

### The reference: `ReconciliationProtocol`

The transitions and document rules of `reconciliation.py`, as a state machine
over documents. `ReconcileQueue` implements it (`ImplementsProtocol`); the
refinement mapping drops the hold mark and takes the reference's `now` to be the
clock. Two remarks:

- The reference computes the next attempt exactly; the guard adds jitter and
  Retry-After. A retry may therefore fall anywhere between the schedule's delay
  and the policy's maximum (`LongestDelay`).
- `openQueue`, `hold` and `ack` do not compare the clock with the record's stamps.
  Their steps (`UntimedStep`) are transitions of the reference at some time that
  is not before those stamps, not necessarily at the clock's; finding 2 is about
  the difference. Every other step is a transition at the clock's time.

`SendsWhatReferenceSelects` compares `claim` with `ordered_batch_resume`.

### The files: `ReconcileJournal` and `BatchLog`

One call at a time holds the lock; `Interrupt` ends it before any of its file
writes. An `atomicWrite` is one action: a rename that was not made durable
before a crash is a crash before or after it. Journals (`.txn`), tombstones
(`.done`) and quarantined files are explicit. Digests are file contents.
`sending`, `retry_wait` and manual waiting differ only in who may claim, so
`retry_wait` and manual waiting are `pending` here. Owners, stamps, the byte quota
and files damaged from outside are left out.

`BatchLog` is the contract: a batch grows at its end, is acknowledged in order
and for good, record and checkpoint change together, and a batch whose last
entry was discarded takes no more. A published journal counts as committed.

### The schedule: `RetryDelay`

`retryDelay` (floating point, then a 64-bit duration) against
`retry_delay_seconds` (exact). A conversion out of range yields either extreme,
as Go leaves it to the implementation.

### The test double: `ScriptedEngine` and `ApprovalService`

A call waits for the engine's lock, plans (`EnterDecide`,
`EnterRequestApproval`, `EnterGetApproval`), may sleep for a delayed outcome, may
raise a scripted exception, and commits unless something has moved since (`moved` stands for `_version`). An
asynchronous call runs on a worker thread; `GateCancel`, `BeginCommit` and
`Settle` are its `_CommitGate`. `Resolution`, `Enqueue` and `Close` come from test
code, also from inside a hook. `ApprovalService` is the contract of an approval:
created pending, resolved once, granted only before it expires. The engine
implements it (`ImplementsApprovalService`), although it expires records lazily.

### The client and its envelopes: `AuthorizationClient`, `ApprovalRecords`

`state`, `active` and `closes` are the client's fields. A public operation is
`BeginOperation`, a step inside the transport, and `EndOperation`. Threads can be
interrupted between lock operations, tasks only at awaits; the construction
(`setup`) says which kind of client it is, who uses it and who owns the
transports. `asleep` holds who waits on `_condition`: a closer is woken by the
step that notifies it and not by the state it waits for.
`Build`, `Consume`, `CloseEnvelope`, `PrepareResume`, `LockNext` and `CommitResume`
are `protocol.py`. `ApprovalRecords` holds the checks that bind decisions and
approvals to an action; `GovernedGraph` uses them.

### Graphs and agents: `GovernedGraph`, `GovernedAgents`

`GovernedGraph` is the LangGraph integration: workers authorize, checkpoint,
sleep until woken, revalidate, claim in the ledger and run the handler, and may
die between any two steps. Saved checkpoints (`history`) stay, so any of them
can be resumed again. `ServerMoves` changes what the server resolves a target
to; `EditState` is an application that changes its state between two steps.

`GovernedAgents` is the LangChain and Deep Agents middleware. `Frames` are the
values of the context variable a new call can find: those of every call whose
handler was started with one, finished or not, because copies of the context
live on in threads and tasks. `PrepareCall` is `_prepare`, `AuthorizeCall` and
`ClientReturns` the two halves of `_authorize`. The built-in `write_todos` and a
spawned subagent's handler run without a frame, as in the code. Names,
identifiers and error classes are abstracted.

### The transport: `HttpTransport`

One `decide` call per caller, as its caller, its coroutine in the event loop and
its credential provider's task; a closer that drains them; a network that loses
requests and answers, behind which a service may answer anything. Every attempt
of a call has one idempotency key; what a service makes of it is not modelled. A
request's own limit is computed from a clock read before the request is
submitted, so it may lie past the call's deadline, as in the code. The synchronous transport has a loop thread of its own, the
asynchronous one shares its caller's loop. `authorization_retry` (`retry.py`) and
the shielded acquisition (`credentials.py`) are part of it. Connections, TLS and
parsing are the class of an answer.

### The developer's commands: `CredentialStore`, `DeveloperState`, `AgentCommands`, `GuardedRuns`, `DeveloperWorkflow`

Processes run `pnxs` commands on one user's store and project. A step ends at a
request to the service or at an operation of the store. Requests and answers
can be lost, the keyring can become unreadable or read-only, processes die, and
the descriptor is edited. `srv` is the developer service as far as the client
relies on it: sessions, registrations with generations, authority requests, runs,
actions, spawns, each keyed by its idempotency key. What a subagent's runtime
keeps (`developer/subagents.py`) is part of `GuardedRuns`: its intent's record, and
the key with which it challenges, provisions and activates. A run that detaches
saves its continuation (`Detach`) and prints it (`Announce`) in two steps. An agent
may end with a receipt of the guard or with one of its own (`RunnerResult`). A
workspace is read, checked, written and read again in steps another process can
come between (`PrepareWorkspace`, `WriteWorkspace`, `RereadWorkspace`).

### Identity: `TrustedClock`, `OidcVerifier`, `KeyStore`, `VerifiableCredentials`, `IdentifierGenerator`

- `OidcVerifier`: threads verify tokens; `_key` reads the clock, waits for the lock
  and may fetch two documents, each on a worker it waits for until a deadline. A
  worker has its slot until it ends, which is after it answered or long after
  its caller gave up, so the second fetch may find the slot of the first taken.
- `KeyStore`: the in-memory store. A key is a number; a half-erased lease is the
  key of another DID, since any 32 bytes are some key. A call of `sign_ed25519`
  names the DID it expects, as tokens and `DidKey.sign` do, or none.
- `VerifiableCredentials`: claims with the key that signed them; a failed call
  leaves nothing behind and is a step not taken.
- `IdentifierGenerator`: an identifier carries the random draw it stems from, so
  that chance collisions and repetitions can be told apart.

## 3. Runs

| Run | Instance | Shows |
| --- | --- | --- |
| `queue` | 2 records, 2 automatic and 3 total attempts, jitter 0 or 1 (accepted after the first attempt, refused after the second), clock 1..2, and either 2 handles on 1 batch with 1 stop, or 1 handle, 2 batches, Retry-After 0 or 4 and no manual retry beyond the automatic attempts (`SecondHandleOrBatch`); symmetric in records, handles and owners. Schedule: base up to 5, maximum up to 12, 12 attempts, 8-bit durations | all safety invariants of the queue, both refinement properties, and that the schedule is the reference's |
| `journal` | 3 records, 2 batches, 2 attempts, 2 interrupted calls, checkpoints of one entry | recovery, the contract, and that journals are resolved |
| `scripted_engine` | 1 task with 2 calls, 1 thread with 1, two requests under one key, three scripts, room for 1 entry, TTL 1, clock 0..2, one intervention of the test | effects match results, one outcome per key, calls return; implements `ApprovalService` |
| `governed_graph` | 1 synchronous and 1 asynchronous worker, 2 scopes, 2 resolutions, 1 action, 2 edits, clock 0..3; or 3 LangChain or 2 Deep Agents calls, clock 0..1, 1 cancellation callback | handlers run at most once, as authorized, inside their callers |
| `authorization_client` | 2 actors with a sealed task, or 3 actors without; a thread-safe and an async client of each | close, resume and envelopes |
| `http_transport` | 1 caller and the closer, 3 attempts, 6 classes of answer, `max_elapsed` 4, deadline 3 or none, clock 0..5, both transports | calls keep to their time, leave nothing behind, and return |
| `developer_workflow` | 2 processes (symmetric), 8 scenes of up to 5 commands, each with its own menu and budget of lost messages (0 to 2), keyring outages and edits (0 or 1); a process dies in the action, the subagent and one of the authority scenes | stores, service and runs stay in step |
| `identity` | 2 threads, clock 0..2, two key documents, 5 worlds of the issuer, 1 worker slot; 4 things to sign with keys under 1 reference; chains of up to 3 delegations; 2 processes, fields of one bit | the five identity modules, one scene each |
| `stale_outcome` (violation) | 2 handles, 2 records, 1 batch, no jitter, without symmetry | finding 1 |
| `restart_clock` (violation) | as `stale_outcome` | finding 2 |
| `checkpoint_capacity` (violation) | as `journal` | finding 3 |
| `scripted_cancellation` (violation) | as `scripted_engine`, with one scripted exception of each kind | finding 4 |

Why the bounds are enough for what the runs are about:

- Queue: two handles suffice for one to take over the attempt of another; two
  records for one to overtake the other; attempts 2 and 3 reach the automatic
  limit, a manual retry beyond it and the total limit; clock 1..2 has a time before
  and a time after a stamp, and a retry that becomes due. Two handles with two
  batches are not explored; the theorems of section 4 cover them for most of the
  invariants. Two interruptions allow one inside the recovery from the other; three records over
  two batches allow two entries in one batch while the other is busy. A
  checkpoint of one entry is reached and exceeded.
- `scripted_engine`: the task's second call can replay, conflict with or outlive
  the first; capacity 1 is reached and exceeded; TTL 1 expires within the clock.
- `governed_graph`: two workers meet at every pair of steps, on one action,
  because the ledger keeps actions apart. Three nested calls give a caller's
  caller, and a deadline that passes while the innermost call brings a longer one.
- `authorization_client`: two resumes can name the same two envelopes in both
  orders; with three actors, one closes, one joins it and one is still inside a
  call. Three actors do not share a task.
- `http_transport`: three attempts are two sleeps, whose sum can meet the budget
  where neither does; the deadlines lie before and beyond `max_elapsed`. The one caller meets its own
  coroutine, its provider and the closer; two calls at once are not explored.
- `developer_workflow`: two processes overwrite each other's record; all scenes but
  one lose a message or two between the steps of either process. A death is only
  tried where something is kept across it: a request for authority, an action's
  continuation, a subagent's custody. Commands of different scenes do not meet.
- `identity`: three verifications with one rotation meet a fresh, an expired and
  a refreshed cache; with one slot a worker that is not done yet and a slot that
  is free again both occur; two keys and two threads let a key be replaced,
  deleted or erased between any two steps of a signature; fields of one bit
  overflow.

The theorems of section 4 remove the bounds for the invariants they cover.

Of the passing runs, `journal` alone checks deadlock. The other runs are bounded by budgets
(stops, calls, commands, clock), and the systems may rest: a client nobody calls,
a closed transport, an approval nobody resolves. What must not stop is stated as
liveness instead.

### Fairness

- `ReconcileJournal`: weak fairness of `Recovery`: operations keep being called and
  a call that holds the lock does not sleep. Every operation of every handle
  starts with recovery. Interruptions are finitely many (`MaxInterrupts`).
- `ScriptedEngine`: threads that wait, sleep or commit run. Python's lock is not
  fair; that a waiter still gets it rests on `MaxCalls`.
- `AuthorizationClient`: a started call goes on, polling has a deadline, the
  spawned close runs. Nothing makes an actor start or the service resolve.
- `HttpTransport`: threads and tasks run, exchanges end (the HTTP client has
  timeouts), providers end, time passes. Nothing makes a call or a close begin.
- `OidcVerifier`: threads run, and a wait for a worker ends at its deadline.
  Workers answer for certain only in worlds without an outage.

### The properties

Queue and journal:

- `RecordsValid`: no operation stores what the next read would quarantine.
- `QueueUsable`: the validation that opens every operation never fails.
- `InOrderDelivery`: also for `manualRetry`, which checks no order.
- `AcknowledgedIsDelivered`: also with receipts of earlier attempts.
- `AttemptsAreOwnedOnce`: no two uploaders own one attempt.
- `AtMostOneJournal`, `SelfConsistent`, `TombstonesVerify`: the three facts that
  recovery in directory order rests on.
- `ImplementsProtocol`, `SendsWhatReferenceSelects`, `ImplementsBatchLog`,
  `MatchesReference`: the code does what the reference or the contract does.
- `JournalsResolved`: every journal is applied or put aside.

SDK:

- `RecordedExactlyWhenReturned`: a test never sees an effect of a call that raised,
  nor misses one of a call that returned.
- `ReplayWithinTtl`: one key never consumes two outcomes while its entry lives.
- `HandlerRunsAtMostOnce`, `RanAsAuthorized`, `LedgerTellsTheTruth`: across crashes
  and replayed checkpoints. The fresh decision a handler runs on resolves its
  target as the first one did. A crash after the claim leaves an approved action
  that never runs; the code prefers this to running it twice.
- `AuthorizedWithinCaller`: nested calls keep within the deadline, cancellation,
  task and actor of every enclosing call when they ask for authorization. The
  deadline does not bound the handler itself, in the code as in the model.
- `ClosedTransportsAreQuiet`, `ExecutedAtMostOnce`, `EveryCallComesBack`: close drains
  first, sealed material is taken out once, and every call returns: a closer
  asleep on the client's condition is woken, and two resumes that lock the same
  two envelopes do not wait for each other. Locks inside the transports and
  wake-ups inside Python's own primitives are not modelled.
- `KeepsToItsTime`: all the sleeping of a call stays within `max_elapsed` and its
  deadline, and no answer is handed over at or after the deadline, although the
  request under it may run on for longer.
- `NothingLeftBehind`, `CallsReturn`: no running request or unwiped credential after a
  call; calls and `close` return.
- `StoreIsBacked`: what the store says the service did, it did.
- `OneBodyPerKey`: a key stands for one body, for requests for authority and for
  spawns and their provisioning. It has one exception, stated in it: a user who
  consented to the file store, and whose keyring comes or goes meanwhile, can
  have a second key minted for one spawn.
- `CompletedAsDelivered`: a run or an action that ends on a receipt of the guard ends
  on that of the very request its agent made. A receipt the agent's own code
  returns is reported unchecked, and the property says nothing of it.
- `AnnouncedCanResume`: what was printed as pending can be resumed, whoever died.
- `VerdictWithinHorizon`: no verdict rests on keys older than the configured delay.
- `VerificationsReturn`: `verify` and `close` return also when a fetch hangs.
- `SignedByWholeKey`: replacing and deleting keys never changes the bytes a signer
  is reading. A close may: it erases leases without the lock. A call that expects
  a DID then fails; one that expects none can sign with half-erased bytes, and the
  property allows it that and nothing else.
- `ErasedOnClose`: when a close is through, no lease has key bytes in it.
- `AcceptedAgainOnlyByStaleClock`: a presentation is accepted again only by a caller
  whose instant is older than one the replay store was already given.
- `DelegationOnlyNarrows`: against every link of the chain, not only the previous.
- `IdentifiersIncrease`: through clock steps, overflow and forks.

Each property has a mutant in `PROJECT.json`: a plausible slip in the mapped
code under which TLC finds the property violated.

## 4. Proofs

The theorems of the first two modules are about `ReconcileQueue!Spec` for every
value of the constants that satisfies `QueueAssumption` (attempt limits ordered
and positive, delays within the policy, batches numbered), any number of handles, records, batches and
owners, and any number of crashes.

`ReconcileQueueProofs`:

- `RecordInvariant`: `RecordInv == TypeOK /\ Stored /\ Engaged` is inductive.
  `validateRecord` alone is not: that a held or in-flight record has been
  attempted, that an absent one has not, and that a busy uploader has a record
  with at least one attempt (`Engaged`) must be carried along. One lemma per
  record update (`BackToPendingSound`, `SendingSound`, `FailedSound`, ...)
  says it keeps a record `Sound`; the step theorem has one case per action.
- `TypeCorrect`, `RecordsStayValid`, `HeldStaysParked` follow.

`ReconcileOrderProofs`:

- `OrderInvariant`: adds `BatchInv` (each batch has one owner, distinct
  sequences without gaps, the acknowledged records are exactly the
  checkpoint's prefix, only the tip, i.e. the record at `ExpectedNextSequence`,
  has been attempted beyond it, and a discarded record is last) and `Vouched`
  (acknowledged records, and uploaders about to acknowledge, refer to evidence
  the server has).
- The heart is `ClaimsTip`: whatever `claim` picks is the tip. The record at the
  tip exists because the batch has no gaps, it is not discarded because only
  the last record is, it does not block because the pick lies behind it, so it
  would itself be claimable and comes first. `manualRetry` needs a held or exhausted
  record, which has been attempted and so is the tip.
- `NeverLockedOut`, `DeliveryInOrder`, `NoFalseAcknowledgement` follow.

Gaplessness is stated as full downward closure, which avoids induction over
sequences.

`IdentifierProofs` is about `IdentifierGenerator!IdentifierSpec`, for every set of
processes, clock and field width allowed by `FieldsAssumption`:

- `IdentifierInv` adds to `IdentifiersIncrease` that no process has given out an
  identifier beyond the one its generator holds (`IssuedIsBehind`) and that no two
  generators hold the same draw (`DrawsAreOwned`). The property alone is not inductive: it says
  nothing of the generator, from which the next identifier comes.
- `IssueKeeps` proves the step of `new` once for a fresh draw and for a successor;
  the fork keeps the invariant because the child starts without a draw.
- `IdentifiersAlwaysIncrease` follows.

`HeldStaysParked` (only a manual retry moves a held record) is proved and has no
run of its own.

Only model-checked: `AttemptsAreOwnedOnce`, the refinements
(`ImplementsProtocol`, `SendsWhatReferenceSelects`, `ImplementsBatchLog`,
`ImplementsApprovalService`), the journal's invariants, the schedule
(`MatchesReference`), every
invariant of the SDK except `IdentifiersIncrease`, and liveness (fairness is outside
the prover's reach).

## 5. Findings

1. `protocol/reconciliation-v1.md:44` says "Every transition uses an atomic
   compare-and-swap digest." `fail` and `hold` take no digest from their caller:
   the outcome of an attempt that another handle has taken over settles the
   newer attempt (`stale_outcome`). The invariants of section 3 hold regardless:
   the effect is an early retry or a hold, never a false acknowledgement.
2. The reference refuses every return to pending at a time before the last
   attempt, and `protocol/tests/test_reconciliation.py:503`
   (`test_retry_and_restart_recovery_cannot_precede_last_attempt`) expects so.
   `recoverAllSending`, run by every open, and `hold` do not look at the clock:
   after a step back they return the record all the same (`restart_clock`).
3. The comment at `queue_unix.go:1162` says the reservation "includes every
   immutable acknowledgement journal still owed by an admitted record". A
   batch whose checkpoint outgrows `MaxRecordBytes` (some hundred entries at the
   default) publishes an acknowledgement journal that recovery quarantines
   (`checkpoint_capacity`); the batch stops there.
4. The docstring of `ScriptedEngine.error` (`fake_transport.py:326`) says "Interpreter
   control-flow exceptions retain identity after their graph is cleared." A
   scripted `asyncio.CancelledError` never reaches its asynchronous caller: it
   cancels the worker's own task, and the loop that waits for it spins
   (`scripted_cancellation`).

Observed while modelling, with no run of their own:

- A record that has used `MaxTotalAttempts` and has a successor can be neither
  retried nor discarded.
- The reference's `ordered_batch_resume` rejects a batch with a discarded tail;
  the guard goes on with the records before it.
- A server that answers a repeated delivery with the original
  acknowledgement time, earlier than the last attempt, is refused and the record
  held.
- A cancelled context, or a clock stepped back, while an outcome is being stored
  leaves the record in flight until `recover` or the next open.
- `sign_ed25519` without `expected_did`, overtaken by `close`, can return a signature
  of no stored key (`SignedByWholeKey`).
- Records are never deleted, so `MaxRecords` bounds the life of a directory.
- A runner accepts the receipt an agent's own code returns, if it is well formed.
- An `init` that fails with an error of the file system, and not a `ScaffoldError`,
  leaves the key it stored before.
- `_history_consumed` of the graph is evaluated and its result discarded; the ledger's
  claim is what prevents a second run.
- An `execute` that loses the ledger's claim returns without closing the envelope
  it prepared (`langgraph.py:1261`).
- A future cancelled by `close` just as the wait for it times out raises
  `CancelledError` from `future.result()` (`http.py:770`) and not `_RuntimeClosed`, as
  it does when the wait itself is cancelled.
- All agents of a deep agent see one run context, and `_validate` compares its
  actor with that of the agent's own name: agents with different accountable
  actors cannot take part in one run.
- The scripted engine's bound on approvals cannot be reached: its bound on bindings
  is met first.

## 6. Not modelled, and plan

Not modelled because there is nothing for a model checker to reach:
canonicalisation, schema validation, redaction, target normalisation and routing
(pure functions on text and documents), configuration, generated bindings,
argument parsing, cryptography, `mock_server.py` (HTTP around the engine), the OS
keyring backends, and the development scripts.

Not modelled yet, in the order of the plan:

1. `withLock`'s three locks against `close`; tombstone and reservation bounds in
   `ReconcileJournal`.
2. The guard's session store and manager: login, refresh, logout, reader, crashes,
   indeterminate durability. Contract: an active session always has its
   credential; a logged-out one never comes back.
3. Socket server and daemon manager: one live daemon, recovery classifies every
   crash, close waits for exactly the accepted connections.
4. The plugin installer: old or new plugin, never neither after an upgrade.
5. The guard's check: every path ends in an explicit decision or closed.
6. Proofs: `AttemptsAreOwnedOnce`; `HandlerRunsAtMostOnce`, `ExecutedAtMostOnce`,
   `ErasedOnClose`; the journal's invariants and its step simulation of `BatchLog`;
   the step simulation of `ReconciliationProtocol`.

Larger instances worth adding once there is room: two callers on one HTTP
transport, three actors on one task's envelopes.
