------------------------- MODULE AuthorizationClient -------------------------
(***************************************************************************)
(* client.py and async_client.py: how operations, close and the transports *)
(* share one client; and protocol.py: who owns an action's execution       *)
(* material while several actors build, resume, consume or close its       *)
(* envelopes.                                                              *)
(*                                                                         *)
(* An actor is a thread using an AuthorizationClient or a task using an    *)
(* AsyncAuthorizationClient.  Tasks share one event loop, so what a task   *)
(* does between two awaits is one step; a thread can be interrupted        *)
(* between any two lock operations.                                        *)
(***************************************************************************)
EXTENDS Integers, FiniteSets, Sequences, Functions

CONSTANTS
    Actors, None,
    Setups      \* constructions: the actors, whether a task was sealed for
                \* them, sync or async client, who owns the transports, and
                \* whether the approval transport is the decision transport

VARIABLES
    setup,      \* how the client was constructed
    state,      \* OPEN, CLOSING or CLOSED
    active,     \* operations begun and not ended
    closes,     \* transport -> how often it was closed
    asleep,     \* who waits on _condition: threads, or the task of an aclose
    approval,   \* is the approval the actors wait for still pending?
    actor,      \* actor -> what it is doing
    envelope,   \* envelope -> none, open or closed
    holder,     \* the locks of the original and the current envelope
    resumed,    \* actor -> the envelopes its resumed envelope replaced
    consumed    \* envelopes whose execution material was taken out

client == <<state, active, closes, asleep>>
envelopes == <<envelope, holder, resumed, consumed>>
vars == <<setup, client, approval, actor, envelopes>>

Transports == {"decisions", "approvals"}
Pair == {"original", "current"}
Idle == [pc |-> "idle"]

\* __init__, and one task's original and sealed target, if there is a task.
Init ==
    /\ setup \in Setups
    /\ state = "OPEN"
    /\ active = 0
    /\ closes = [t \in Transports |-> 0]
    /\ asleep = {}
    /\ approval = "pending"
    /\ actor = [a \in Actors |-> Idle]
    /\ envelope = [e \in Pair \cup {"target"} \cup Actors |->
                      IF setup.sealed /\ e \in {"original", "target"} THEN "open" ELSE "none"]
    /\ holder = [e \in Pair |-> None]
    /\ resumed = [a \in Actors |-> <<>>]
    /\ consumed = {}

At(a, pc) == actor[a].pc = pc
Goto(a, rec) == actor' = [actor EXCEPT ![a] = rec]

-----------------------------------------------------------------------------
(* Operations. *)

\* A thread or task inside the transport, which goes on to "then".  Used names
\* the transport object a call reaches.
Call(transport, then) == [pc |-> "calling", transport |-> transport, then |-> then]
Used(transport) == IF setup.shared THEN "decisions" ELSE transport

\* _begin_operation: refused unless OPEN.
BeginOperation(a, transport, then, refused) ==
    IF state = "OPEN" THEN /\ active' = active + 1
                           /\ Goto(a, Call(transport, then))
                           /\ UNCHANGED <<state, closes, asleep>>
                      ELSE Goto(a, refused) /\ UNCHANGED client

EndOperationSilently ==
    /\ active' = active - 1
    /\ UNCHANGED <<state, closes, asleep>>

\* _end_operation, on every way out: the last one wakes who waits.
EndOperation ==
    /\ active' = active - 1
    /\ asleep' = IF active' = 0 THEN {} ELSE asleep
    /\ UNCHANGED <<state, closes>>

\* A public operation of an idle actor, which ends where the call ends.
Operation(a, transport) ==
    /\ At(a, "idle")
    /\ BeginOperation(a, transport, Idle, Idle)
    /\ UNCHANGED <<setup, approval, envelopes>>

Decide(a) == setup.sync /\ Operation(a, "decisions")
ADecide(a) == ~setup.sync /\ Operation(a, "decisions")

RequestApproval(a) == setup.sync /\ Operation(a, "approvals")
ARequestApproval(a) == ~setup.sync /\ Operation(a, "approvals")

GetApproval(a) == setup.sync /\ Operation(a, "approvals")
AGetApproval(a) == ~setup.sync /\ Operation(a, "approvals")

\* A refused, failed or cancelled resume closes the candidate it made.
DropCandidate(a) ==
    envelope' = [envelope EXCEPT ![a] = IF @ = "open" THEN "closed" ELSE @]

\* The transport answers, and a poll that finds the approval resolved is over.
CallReturns(a) ==
    /\ At(a, "calling")
    /\ EndOperation
    /\ Goto(a, IF actor[a].then.pc = "waiting" /\ approval # "pending"
               THEN Idle ELSE actor[a].then)
    /\ UNCHANGED <<setup, approval, envelopes>>

\* The transport raises, the record or the fresh decision is not acceptable,
\* or the task is cancelled.
CallFails(a) ==
    /\ At(a, "calling")
    /\ EndOperation
    /\ IF actor[a].then.pc = "commit" THEN DropCandidate(a) ELSE UNCHANGED envelope
    /\ Goto(a, Idle)
    /\ UNCHANGED <<setup, approval, holder, resumed, consumed>>

\* wait_for_approval: poll until the record is terminal or the deadline passed.
Wait(a) ==
    /\ setup.sync
    /\ \/ At(a, "idle") /\ Goto(a, [pc |-> "waiting", late |-> FALSE]) /\ UNCHANGED client
       \/ /\ At(a, "waiting")
          /\ IF actor[a].late THEN Goto(a, Idle) /\ UNCHANGED client
                              ELSE BeginOperation(a, "approvals", actor[a], Idle)
    /\ UNCHANGED <<setup, approval, envelopes>>

AWait(a) ==
    /\ ~setup.sync
    /\ \/ At(a, "idle") /\ Goto(a, [pc |-> "waiting", late |-> FALSE]) /\ UNCHANGED client
       \/ /\ At(a, "waiting")
          /\ \/ /\ ~actor[a].late
                /\ BeginOperation(a, "approvals", actor[a], Idle)
             \/ Goto(a, Idle) /\ UNCHANGED client    \* late, or cancelled asleep
    /\ UNCHANGED <<setup, approval, envelopes>>

\* _poll_parameters: every poll loop has a finite deadline.
DeadlinePasses(a) ==
    /\ \/ At(a, "waiting") /\ ~actor[a].late /\ Goto(a, [actor[a] EXCEPT !.late = TRUE])
       \/ /\ At(a, "calling")
          /\ actor[a].then.pc = "waiting" /\ ~actor[a].then.late
          /\ Goto(a, [actor[a] EXCEPT !.then.late = TRUE])
    /\ UNCHANGED <<setup, client, approval, envelopes>>

\* The service resolves the approval.
Resolve ==
    /\ approval = "pending"
    /\ approval' \in {"approved", "denied"}
    /\ UNCHANGED <<setup, client, actor, envelopes>>

-----------------------------------------------------------------------------
(* Execution envelopes. *)

Unlocked(e) == e \in Pair => holder[e] = None

\* build: the target's material moves into a new action envelope.
Build(a) ==
    /\ At(a, "idle")
    /\ envelope["target"] = "open"
    /\ envelope' = [envelope EXCEPT !["target"] = "closed", !["current"] = "open"]
    /\ UNCHANGED <<setup, client, approval, actor, holder, resumed, consumed>>

\* The envelopes an actor has in hand: an unfinished candidate is not among them.
InHand(a) == Pair \cup {"target"} \cup {b \in {a} : resumed[b] # <<>>}

\* consume, and close.
Consume(a) ==
    /\ At(a, "idle")
    /\ \E e \in InHand(a) :
          /\ Unlocked(e) /\ envelope[e] = "open"
          /\ envelope' = [envelope EXCEPT ![e] = "closed"]
          /\ consumed' = consumed \cup {e}
    /\ UNCHANGED <<setup, client, approval, actor, holder, resumed>>

CloseEnvelope(a) ==
    /\ At(a, "idle")
    /\ \E e \in InHand(a) :
          /\ Unlocked(e) /\ envelope[e] = "open"
          /\ envelope' = [envelope EXCEPT ![e] = "closed"]
    /\ UNCHANGED <<setup, client, approval, actor, holder, resumed, consumed>>

\* An actor that starts a resume names the original and the current envelope.
\* resume_checkpoint restores an original of its own, which nobody else sees.
StartResume(a, via, args) ==
    /\ At(a, "idle") /\ resumed[a] = <<>>
    /\ Goto(a, [pc |-> "prepare", via |-> via, args |-> args])
    /\ UNCHANGED <<setup, client, approval, envelopes>>

BuilderResume(a) ==
    \E args \in {<<"original", "current">>, <<"current", "original">>} :
        StartResume(a, "builder", args)

Resume(a) == setup.sync /\ StartResume(a, "client", <<"original", "current">>)

AResume(a) == ~setup.sync /\ StartResume(a, "client", <<"original", "current">>)

Fetch(a) ==
    /\ At(a, "idle") /\ resumed[a] = <<>>
    /\ BeginOperation(a, "approvals",
                      [pc |-> "prepare", via |-> "client", args |-> <<"current">>], Idle)
    /\ UNCHANGED <<setup, approval, envelopes>>

ResumeCheckpoint(a) == setup.sync /\ Fetch(a)

AResumeCheckpoint(a) == ~setup.sync /\ Fetch(a)

AllOpen(args) == \A e \in Range(args) : envelope[e] = "open"

\* _prepare_resume, after the client's _require_resumable: the candidate gets a
\* copy of the current envelope's material.
PrepareResume(a) ==
    /\ At(a, "prepare")
    /\ LET args == actor[a].args
           via  == actor[a].via
       IN  /\ holder[args[Len(args)]] = None
           /\ IF AllOpen(args) /\ (via = "client" => approval = "approved")
              THEN /\ envelope' = [envelope EXCEPT ![a] = "open"]
                   /\ Goto(a, [pc |-> IF via = "client" THEN "authorize" ELSE "commit",
                               args |-> args])
              ELSE Goto(a, Idle) /\ UNCHANGED envelope
    /\ UNCHANGED <<setup, client, approval, holder, resumed, consumed>>

\* The candidate is authorized afresh before it is committed.
AuthorizeCandidate(a) ==
    /\ At(a, "authorize")
    /\ BeginOperation(a, "decisions", [pc |-> "commit", args |-> actor[a].args], Idle)
    /\ IF state = "OPEN" THEN UNCHANGED envelope ELSE DropCandidate(a)
    /\ UNCHANGED <<setup, approval, holder, resumed, consumed>>

\* _commit_resume takes both locks in the order of the states' addresses.
LocksAsGiven(args) == args
LockOrder(args) == IF Len(args) = 2 THEN <<"current", "original">> ELSE args

Held(a) == {e \in Pair : holder[e] = a}

LockNext(a) ==
    /\ setup.sync /\ At(a, "commit")
    /\ Cardinality(Held(a)) < Len(actor[a].args)
    /\ LET e == LockOrder(actor[a].args)[Cardinality(Held(a)) + 1]
       IN  holder[e] = None /\ holder' = [holder EXCEPT ![e] = a]
    /\ UNCHANGED <<setup, client, approval, actor, envelope, resumed, consumed>>

\* Under the locks everything is verified again, and the pair is retired.
StandsUnverified(args) == TRUE
Stands(args) == AllOpen(args)

CommitResume(a) ==
    /\ At(a, "commit")
    /\ LET args == actor[a].args
       IN  /\ IF setup.sync THEN Cardinality(Held(a)) = Len(args) ELSE TRUE
           /\ IF Stands(args)
              THEN /\ envelope' = [e \in DOMAIN envelope |->
                                      IF e \in Range(args) THEN "closed" ELSE envelope[e]]
                   /\ resumed' = [resumed EXCEPT ![a] = args]
              ELSE DropCandidate(a) /\ UNCHANGED resumed
    /\ holder' = [e \in Pair |-> IF holder[e] = a THEN None ELSE holder[e]]
    /\ Goto(a, Idle)
    /\ UNCHANGED <<setup, client, approval, consumed>>

-----------------------------------------------------------------------------
(* Close. *)

\* The transports a close reaches, each object once.
CloseTargets ==
    {t \in Transports :
        \/ t = "decisions" /\ (setup.owns \/ (setup.ownsApproval /\ setup.shared))
        \/ t = "approvals" /\ setup.ownsApproval /\ ~setup.shared}

\* Active calls are drained before any transport is closed.
AlwaysDrained == TRUE
Drained == active = 0

\* The transports are closed, and everybody who waits is told.
CloseTransports ==
    /\ closes' = [t \in Transports |-> closes[t] + (IF t \in CloseTargets THEN 1 ELSE 0)]
    /\ state' = "CLOSED"
    /\ asleep' = {}
    /\ UNCHANGED active

\* _condition.wait: asleep until the next notify_all.
Sleep(who) == asleep' = asleep \cup {who} /\ UNCHANGED <<state, active, closes>>

\* close: the first thread is the owner and waits for the operations, the others
\* wait for it.  Each of them looks again whenever it is woken.
Close(a) ==
    /\ setup.sync /\ a \notin asleep
    /\ \/ /\ At(a, "idle") /\ state = "OPEN"
          /\ state' = "CLOSING" /\ Goto(a, [pc |-> "closing"])
          /\ asleep' = IF Drained THEN asleep ELSE asleep \cup {a}
          /\ UNCHANGED <<active, closes>>
       \/ At(a, "idle") /\ state = "CLOSING" /\ Goto(a, [pc |-> "joining"]) /\ Sleep(a)
       \/ /\ At(a, "closing")
          /\ IF Drained THEN CloseTransports /\ Goto(a, Idle) ELSE Sleep(a) /\ UNCHANGED actor
       \/ At(a, "joining") /\ state = "CLOSED" /\ Goto(a, Idle) /\ UNCHANGED client
       \/ At(a, "joining") /\ state = "CLOSING" /\ Sleep(a) /\ UNCHANGED actor
    /\ UNCHANGED <<setup, approval, envelopes>>

\* aclose: the first task spawns the close, every caller awaits it shielded.
AClose(a) ==
    /\ ~setup.sync
    /\ \/ /\ At(a, "idle") /\ state \in {"OPEN", "CLOSING"}
          /\ state' = "CLOSING" /\ Goto(a, [pc |-> "joining"])
          /\ UNCHANGED <<active, closes, asleep>>
       \/ At(a, "joining") /\ state = "CLOSED" /\ Goto(a, Idle) /\ UNCHANGED client
    /\ UNCHANGED <<setup, approval, envelopes>>

CancelAClose(a) ==
    /\ ~setup.sync /\ At(a, "joining")
    /\ Goto(a, Idle)
    /\ UNCHANGED <<setup, client, approval, envelopes>>

\* _finish_close, in a task of its own.
CloseTask == "close task"
FinishClose ==
    /\ ~setup.sync /\ state = "CLOSING" /\ CloseTask \notin asleep
    /\ IF Drained THEN CloseTransports ELSE Sleep(CloseTask)
    /\ UNCHANGED <<setup, approval, actor, envelopes>>

-----------------------------------------------------------------------------
Begin(a) ==
    \/ Decide(a) \/ RequestApproval(a) \/ GetApproval(a)
    \/ ADecide(a) \/ ARequestApproval(a) \/ AGetApproval(a)
    \/ Build(a) \/ Consume(a) \/ CloseEnvelope(a)
    \/ BuilderResume(a) \/ Resume(a) \/ AResume(a)
    \/ ResumeCheckpoint(a) \/ AResumeCheckpoint(a)

\* What a thread or task goes on with by itself once it has begun.
Continue(a) ==
    \/ CallReturns(a) \/ CallFails(a)
    \/ PrepareResume(a) \/ AuthorizeCandidate(a) \/ LockNext(a) \/ CommitResume(a)
    \/ At(a, "waiting") /\ (Wait(a) \/ AWait(a))
    \/ At(a, "closing") /\ Close(a)
    \/ At(a, "joining") /\ (Close(a) \/ AClose(a))

Next ==
    \/ \E a \in setup.actors :
          \/ Begin(a) \/ Continue(a)
          \/ Wait(a) \/ AWait(a) \/ Close(a) \/ AClose(a)
          \/ CancelAClose(a) \/ DeadlinePasses(a)
    \/ Resolve \/ FinishClose

\* Threads and tasks are scheduled, a transport call ends (it has a deadline),
\* and time passes.  Nothing makes an actor start, or the service resolve.
Fairness ==
    /\ \A a \in Actors : WF_vars(Continue(a)) /\ WF_vars(DeadlinePasses(a))
    /\ WF_vars(FinishClose)

Spec == Init /\ [][Next]_vars /\ Fairness

-----------------------------------------------------------------------------
(* Properties. *)

\* close and aclose drain first and close each owned transport object once,
\* however many actors close: no call is ever inside a closed transport, and no
\* transport is closed twice (client.py close, async_client.py _finish_close).
ClosedTransportsAreQuiet ==
    /\ \A t \in Transports : closes[t] <= 1
    /\ \A a \in Actors : At(a, "calling") => closes[Used(actor[a].transport)] = 0

\* The envelopes an envelope's material came through, itself included.
Lineage(e) ==
    LET above(x) == IF x = "current" THEN {"current", "target"} ELSE {x}
    IN  IF e \in Actors THEN {e} \cup UNION {above(x) : x \in Range(resumed[e])} ELSE above(e)

\* build and _prepare_resume copy execution material, and several actors may
\* hold copies; still what was sealed once is taken out at most once, and never
\* again from an envelope that a resume retired (protocol.py).
ExecutedAtMostOnce ==
    \A e, f \in consumed : e # f => Lineage(e) \cap Lineage(f) = {}

\* Whatever the others do, an actor that waits for an approval, resumes, or
\* closes the client comes back: a closer asleep on the condition is woken by
\* the last operation or by the owner of the close, and two resumes that name
\* the same envelopes in opposite order do not wait for each other's lock.
EveryCallComesBack == \A a \in Actors : ~At(a, "idle") ~> At(a, "idle")
=============================================================================
