---------------------------- MODULE GovernedGraph ----------------------------
(***************************************************************************)
(* integrations/langgraph.py: the authorize, wait and execute nodes around *)
(* a tool handler, run by several workers over one thread's checkpoints,   *)
(* with the SQLite execution ledger, the client's resume_checkpoint and    *)
(* the decision and approval servers.                                      *)
(*                                                                         *)
(* LangGraph itself (external) hands a node the state of some checkpoint - *)
(* the latest, or an older one that is replayed - and saves what the node  *)
(* returns.  A worker may die between any two steps, and state may be      *)
(* edited between nodes.                                                   *)
(***************************************************************************)
EXTENDS ApprovalRecords, Sequences, FiniteSets

CONSTANTS
    SyncWorkers, AsyncWorkers,
    Scopes,             \* the handler arguments a state can hold
    Resolutions,        \* what the server can resolve a scope's target to
    DecisionLife, ApprovalLife,
    MaxTime, MaxEvents, MaxEdits   \* bounds of the model

VARIABLES
    clock,
    resolution, \* the server's current resolution of targets
    book,       \* event -> its approval record on the server, or None
    history,    \* checkpoints saved for the thread
    edits,
    events,     \* action ids given out
    ledger,     \* event -> [binding, status], or None
    runs,       \* the handler invocations, in order
    worker      \* worker -> what it is doing

vars == <<clock, resolution, book, history, edits, events, ledger, runs, worker>>

Workers == SyncWorkers \cup AsyncWorkers
Events == 1..MaxEvents
Idle == [pc |-> "idle"]
Checkpoint(args, desc) == [args |-> args, desc |-> desc]

Init ==
    /\ clock = 0 /\ edits = 0 /\ events = 0
    /\ resolution \in Resolutions
    /\ book = [e \in Events |-> None]
    /\ history \in {{Checkpoint(s, None)} : s \in Scopes}
    /\ ledger = [e \in Events |-> None]
    /\ runs = <<>>
    /\ worker = [w \in Workers |-> Idle]

-----------------------------------------------------------------------------
(* The servers and the outside world. *)

\* The authoritative scope hash covers the client's scope and what the server
\* resolves its target to.
Auth(scope) == <<scope, resolution>>

\* The answers a client may get to a request: the server's, with any outcome, or
\* an answer to another attempt.
Answers(request) ==
    LET base == [attempt |-> request.attempt, scope |-> request.scope,
                 auth |-> Auth(request.scope), expires |-> clock + DecisionLife,
                 outcome |-> "allow", approval |-> None] IN
    {base, [base EXCEPT !.outcome = "deny"], [base EXCEPT !.attempt = "other"],
     [base EXCEPT !.outcome = "approval_required",
                  !.approval = [expires |-> clock + ApprovalLife]]}

Tick ==
    /\ clock < MaxTime
    /\ clock' = clock + 1
    /\ UNCHANGED <<resolution, book, history, edits, events, ledger, runs, worker>>

ServerMoves ==
    /\ edits < MaxEdits
    /\ edits' = edits + 1
    /\ resolution' \in Resolutions \ {resolution}
    /\ UNCHANGED <<clock, book, history, events, ledger, runs, worker>>

\* A reviewer's verdict before the expiry, or the expiry.
Resolve(e) ==
    /\ book[e] # None
    /\ book[e].status = "pending"
    /\ \E s \in Statuses \ {"pending"} :
        /\ (s = "expired") = (clock >= book[e].expires)
        /\ book' = [book EXCEPT ![e].status = s, ![e].decided = clock]
    /\ UNCHANGED <<clock, resolution, history, edits, events, ledger, runs, worker>>

\* Someone edits the arguments of a saved state (update_state).
EditState ==
    /\ edits < MaxEdits
    /\ edits' = edits + 1
    /\ \E c \in history, s \in Scopes :
        s # c.args /\ history' = history \cup {[c EXCEPT !.args = s]}
    /\ UNCHANGED <<clock, resolution, book, events, ledger, runs, worker>>

\* The worker's process dies; what it had not saved is gone.
Crash(w) ==
    /\ worker[w] # Idle
    /\ worker' = [worker EXCEPT ![w] = Idle]
    /\ UNCHANGED <<clock, resolution, book, history, edits, events, ledger, runs>>

-----------------------------------------------------------------------------
(* Node plumbing. *)

At(w, pc) == worker[w].pc = pc
Goto(w, rec) == worker' = [worker EXCEPT ![w] = rec]
\* The node raises, whatever the error: nothing is saved.
Raise(w) == Goto(w, Idle) /\ UNCHANGED history
\* The node returns and its state is saved.
Save(w, args, desc) ==
    /\ history' = history \cup {Checkpoint(args, desc)}
    /\ Goto(w, Idle)

Request(event, scope, attempt, resume) ==
    [event |-> event, scope |-> scope, attempt |-> attempt, resume |-> resume]

\* _prepare: the state's own arguments, under the given action id.
Prepare(args, event, attempt) == Request(event, args, attempt, None)

\* _decision_document and _approval_document: what a checkpoint keeps of the two.
\* An approval's verdict is not kept.
DecisionDocument(d) ==
    [attempt |-> d.attempt, outcome |-> d.outcome, scope |-> d.scope, auth |-> d.auth,
     expires |-> d.expires, approval |-> d.approval]
ApprovalDocument(r) ==
    [event |-> r.event, status |-> r.status, auth |-> r.auth, requested |-> r.requested,
     expires |-> r.expires, decided |-> None]

\* _descriptor
Descriptor(request, d, approval, status) ==
    [status |-> status, event |-> request.event, scope |-> d.scope, auth |-> d.auth,
     expires |-> IF d.approval # None THEN d.approval.expires ELSE d.expires,
     request |-> request, prior |-> DecisionDocument(d),
     pending |-> IF approval = None THEN None ELSE ApprovalDocument(approval)]

\* _parse_descriptor: the fields agree with the request, decision and approval
\* the descriptor carries.
ParsesDescriptor(c) ==
    /\ c.status \in {"approval_pending", "executable", "executed"}
    /\ c.request.event = c.event
    /\ AnswersAttempt(c.prior, c.request)
    /\ c.prior.scope = c.scope /\ c.prior.auth = c.auth
    /\ c.status = "approval_pending" =>
        /\ c.pending # None
        /\ c.pending.event = c.event /\ c.pending.auth = c.auth

\* _require_fresh
Fresh(expires) == clock < expires

-----------------------------------------------------------------------------
(* The authorize node.  A state that already carries a descriptor is returned *)
(* as it is, so only a state without one starts work.                         *)

BeginAuthorize(w) ==
    /\ worker[w] = Idle
    /\ events < MaxEvents
    /\ events' = events + 1
    /\ \E c \in history :
        /\ c.desc = None
        /\ Goto(w, [pc |-> "decide", args |-> c.args,
                    request |-> Prepare(c.args, events + 1, "first")])
    /\ UNCHANGED <<clock, resolution, book, history, edits, ledger, runs>>

\* authorize, up to the decision: decide raises on no answer, on a malformed
\* decision and on one that answers another attempt.
AuthorizeDecide(w) ==
    LET request == worker[w].request IN
    /\ At(w, "decide")
    /\ \/ Raise(w)
       \/ \E d \in Answers(request) :
            /\ WellFormedDecision(d, clock)
            /\ AnswersAttempt(d, request)
            /\ \/ d.outcome = "deny" /\ Raise(w)
               \/ /\ d.outcome = "allow"
                  /\ ParsesDescriptor(Descriptor(request, d, None, "executable"))
                  /\ Save(w, worker[w].args, Descriptor(request, d, None, "executable"))
               \/ /\ d.outcome = "approval_required"
                  /\ Goto(w, [pc |-> "request", args |-> worker[w].args,
                              request |-> request, decision |-> d])
                  /\ UNCHANGED history
    /\ UNCHANGED <<clock, resolution, book, edits, events, ledger, runs>>

\* AuthorizationClient.request_approval: the server creates the pending record;
\* the answer may be lost, and a record that does not bind is refused.
RequestApproval(w) ==
    LET request == worker[w].request
        d == worker[w].decision
        record == [event |-> request.event, auth |-> d.auth, requested |-> clock,
                   expires |-> d.approval.expires, decided |-> None, status |-> "pending"] IN
    /\ At(w, "request")
    /\ \/ clock >= d.approval.expires /\ Raise(w) /\ UNCHANGED book
       \/ /\ clock < d.approval.expires
          /\ book' = [book EXCEPT ![request.event] = record]
          /\ \/ Raise(w)
             \/ /\ PublicApproval(record) /\ Binds(record, d, request)
                /\ ParsesDescriptor(Descriptor(request, d, record, "approval_pending"))
                /\ Save(w, worker[w].args, Descriptor(request, d, record, "approval_pending"))
    /\ UNCHANGED <<clock, resolution, edits, events, ledger, runs>>

AuthorizeStep(w) == AuthorizeDecide(w) \/ RequestApproval(w)

-----------------------------------------------------------------------------
(* The wait node, once the interrupt is woken: resume_checkpoint. *)

\* _checked_state, _prepare and _restore_original_for_resume: the original
\* request is rebuilt from the descriptor, the current one from the state.
BeginWake(w) ==
    /\ worker[w] = Idle
    /\ \E c \in history :
        /\ c.desc # None
        /\ ParsesDescriptor(c.desc)
        /\ c.desc.status = "approval_pending"
        /\ c.desc.request.resume = None
        /\ Goto(w, [pc |-> "get", args |-> c.args, desc |-> c.desc,
                    current |-> Prepare(c.args, c.desc.event, "current")])
    /\ UNCHANGED <<clock, resolution, book, history, edits, events, ledger, runs>>

\* _prepare_resume: the same action and scope under a new attempt.
CanPrepareResume(original, current) ==
    /\ current.event = original.event
    /\ current.scope = original.scope
    /\ current.attempt # original.attempt

\* get_approval, then resume up to its authorization.
WakeGet(w) ==
    LET desc == worker[w].desc
        record == book[desc.event] IN
    /\ At(w, "get")
    /\ \/ Raise(w)
       \/ /\ PublicApproval(record)
          /\ ValidTransition(desc.pending, record)
          /\ Resumable(desc.request, desc.prior, record, clock)
          /\ CanPrepareResume(desc.request, worker[w].current)
          /\ Goto(w, [pc |-> "resume", args |-> worker[w].args, desc |-> desc,
                      request |-> Request(desc.event, worker[w].current.scope, "resumed",
                                          desc.event)])
          /\ UNCHANGED history
    /\ UNCHANGED <<clock, resolution, book, edits, events, ledger, runs>>

AllowsAnyAuthority(d, request, auth) ==
    WellFormedDecision(d, clock) /\ AnswersAttempt(d, request) /\ d.outcome = "allow"

\* _require_allow, and the authoritative scope of the decision awaited.
Allows(d, request, auth) ==
    /\ WellFormedDecision(d, clock)
    /\ AnswersAttempt(d, request)
    /\ d.outcome = "allow"
    /\ d.auth = auth

\* resume: a fresh authorization of the candidate, for the scope approved; then
\* _commit_resume, and the node returns the descriptor as executable.
WakeResume(w) ==
    LET desc == worker[w].desc IN
    /\ At(w, "resume")
    /\ \/ Raise(w)
       \/ \E d \in Answers(worker[w].request) :
            /\ Allows(d, worker[w].request, desc.auth)
            /\ Save(w, worker[w].args, [desc EXCEPT !.status = "executable"])
    /\ UNCHANGED <<clock, resolution, book, edits, events, ledger, runs>>

WakeStep(w) == WakeGet(w) \/ WakeResume(w)

-----------------------------------------------------------------------------
(* The execution ledger. *)

\* _ledger_binding: the descriptor with its status taken out.
Binding(desc) == [desc EXCEPT !.status = "binding"]

ReclaimFailed(entry, binding) ==
    IF entry = None THEN TRUE ELSE entry.status = "failed" /\ entry.binding = binding

\* InMemoryExecutionLedger.claim: the first claim wins, whatever became of it.
ClaimWins(entry, binding) == entry = None

\* _transition: only a claim under the same binding is settled, once.
Transition(entry, binding, status) ==
    IF entry # None /\ entry.binding = binding /\ entry.status \in {"claimed", status}
    THEN [entry EXCEPT !.status = status] ELSE entry

ClaimAsCompleted(e, binding) ==
    /\ ClaimWins(ledger[e], binding)
    /\ ledger' = [ledger EXCEPT ![e] = [binding |-> binding, status |-> "completed"]]

\* SQLiteExecutionLedger.claim: one transaction, or no effect at all.
ClaimEntry(e, binding) ==
    /\ ClaimWins(ledger[e], binding)
    /\ ledger' = [ledger EXCEPT ![e] = [binding |-> binding, status |-> "claimed"]]

SettleEntry(e, binding, status) ==
    ledger' = [ledger EXCEPT ![e] = Transition(ledger[e], binding, status)]

-----------------------------------------------------------------------------
(* The execute node. *)

\* _history_consumed: a checkpoint shows the event as executed.  It is read when
\* an event is blocked, and is no lock: whatever it says, nothing is run.
HistoryConsumed(e) ==
    \E c \in history : c.desc # None /\ c.desc.event = e /\ c.desc.status = "executed"

\* SQLiteExecutionLedger.query
Unclaimed(e) == ledger[e] = None

\* execute up to its authorization: an event with a ledger entry is blocked, an
\* expired descriptor and edited arguments raise; none of them changes anything.
BeginExecute(w) ==
    /\ worker[w] = Idle
    /\ \E c \in history :
        /\ c.desc # None
        /\ ParsesDescriptor(c.desc)
        /\ c.desc.status = "executable"
        /\ Unclaimed(c.desc.event)
        /\ Fresh(c.desc.expires)
        /\ c.args = c.desc.scope
        /\ Goto(w, [pc |-> "authorize", args |-> c.args, desc |-> c.desc,
                    request |-> Prepare(c.args, c.desc.event, "execute")])
    /\ UNCHANGED <<clock, resolution, book, history, edits, events, ledger, runs>>

\* _validate_execution: the fresh decision allows the scope of the descriptor,
\* and its authority is the one the handler runs under.
ExecuteAuthorize(w) ==
    /\ At(w, "authorize")
    /\ \/ Raise(w)
       \/ \E d \in Answers(worker[w].request) :
            /\ Allows(d, worker[w].request, worker[w].desc.auth)
            /\ Fresh(d.expires)
            /\ Goto(w, [pc |-> "claim", args |-> worker[w].args, desc |-> worker[w].desc,
                        auth |-> d.auth])
            /\ UNCHANGED history
    /\ UNCHANGED <<clock, resolution, book, edits, events, ledger, runs>>

\* The claim: lost to another worker, refused or failed, the node ends.
ExecuteClaim(w) ==
    LET desc == worker[w].desc IN
    /\ At(w, "claim")
    /\ \/ Raise(w) /\ UNCHANGED ledger
       \/ /\ ClaimEntry(desc.event, Binding(desc))
          /\ Goto(w, [worker[w] EXCEPT !.pc = "handler"])
          /\ UNCHANGED history
    /\ UNCHANGED <<clock, resolution, book, edits, events, runs>>

\* The handler is entered with the state validated, and returns or raises.
ExecuteHandler(w) ==
    LET desc == worker[w].desc IN
    /\ At(w, "handler")
    /\ runs' = Append(runs, [event |-> desc.event, args |-> worker[w].args,
                             auth |-> worker[w].auth, by |-> w])
    /\ \E next \in {"complete", "fail"} : Goto(w, [worker[w] EXCEPT !.pc = next])
    /\ UNCHANGED <<clock, resolution, book, history, edits, events, ledger>>

\* ledger.complete, then the state is saved as executed; or the ledger fails.
ExecuteComplete(w) ==
    LET desc == worker[w].desc IN
    /\ At(w, "complete")
    /\ \/ Raise(w) /\ UNCHANGED ledger
       \/ /\ SettleEntry(desc.event, Binding(desc), "completed")
          /\ Save(w, worker[w].args, [desc EXCEPT !.status = "executed"])
    /\ UNCHANGED <<clock, resolution, book, edits, events, runs>>

\* ledger.fail, whose own failure is swallowed; the node raises.
ExecuteFail(w) ==
    LET desc == worker[w].desc IN
    /\ At(w, "fail")
    /\ ledger' = ledger \/ SettleEntry(desc.event, Binding(desc), "failed")
    /\ Raise(w)
    /\ UNCHANGED <<clock, resolution, book, edits, events, runs>>

ExecuteStep(w) ==
    \/ ExecuteAuthorize(w) \/ ExecuteClaim(w) \/ ExecuteHandler(w)
    \/ ExecuteComplete(w) \/ ExecuteFail(w)

-----------------------------------------------------------------------------
(* The async nodes take the same steps; a cancellation ends them at an await, *)
(* as any error does, except that a ledger call handed to a thread goes on.   *)

\* AsyncSQLiteExecutionLedger: the cancelled claim or settlement still happens.
CancelledLedgerCall(w) ==
    LET desc == worker[w].desc IN
    /\ \/ At(w, "claim") /\ ClaimEntry(desc.event, Binding(desc))
       \/ At(w, "complete") /\ SettleEntry(desc.event, Binding(desc), "completed")
    /\ Raise(w)
    /\ UNCHANGED <<clock, resolution, book, edits, events, runs>>

SyncStep(w) == AuthorizeStep(w) \/ WakeStep(w) \/ ExecuteStep(w)
AAuthorize(w) == AuthorizeStep(w)
AResumeAfterWake(w) == WakeStep(w)
AExecute(w) == ExecuteStep(w) \/ CancelledLedgerCall(w)

Next ==
    \/ \E w \in Workers : BeginAuthorize(w) \/ BeginWake(w) \/ BeginExecute(w) \/ Crash(w)
    \/ \E w \in SyncWorkers : SyncStep(w)
    \/ \E w \in AsyncWorkers : AAuthorize(w) \/ AResumeAfterWake(w) \/ AExecute(w)
    \/ \E e \in Events : Resolve(e)
    \/ Tick \/ ServerMoves \/ EditState

Spec == Init /\ [][Next]_vars

-----------------------------------------------------------------------------
(* Properties. *)

RunsOf(e) == {i \in 1..Len(runs) : runs[i].event = e}

\* The handler is entered at most once for an action id, over all workers,
\* crashes between any two steps, replayed checkpoints, handler errors and
\* cancelled ledger calls (execute and the ledger's claim).
HandlerRunsAtMostOnce == \A e \in Events : Cardinality(RunsOf(e)) <= 1

\* What ran is what was authorized: the handler ran with the arguments its
\* action was first authorized for; the fresh decision it ran on, however late
\* it came, resolved the target as that first decision did; and if that one asked
\* for an approval, a reviewer has granted it for this very resolution
\* (_validate_execution, resume).
RanAsAuthorized ==
    \A i \in 1..Len(runs) :
        LET r == runs[i]  entry == ledger[r.event] IN
        /\ entry # None
        /\ r.args = entry.binding.request.scope
        /\ r.auth = entry.binding.prior.auth
        /\ entry.binding.prior.outcome = "approval_required" =>
            book[r.event].status = "approved" /\ book[r.event].auth = r.auth

\* The ledger never claims more than happened: an event recorded as completed or
\* failed was really run, an event that was never claimed was never run, and the
\* checkpoints that show an event as executed (_history_consumed) agree with it.
LedgerTellsTheTruth ==
    \A e \in Events :
        /\ HistoryConsumed(e) => ledger[e] # None /\ ledger[e].status = "completed"
        /\ ledger[e] = None => RunsOf(e) = {}
        /\ ledger[e] # None => (ledger[e].status # "claimed" => RunsOf(e) # {})
=============================================================================
