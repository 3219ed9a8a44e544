----------------------------- MODULE GuardedRuns -----------------------------
(***************************************************************************)
(* pnxs run, actions wait, actions resume and subagents resume             *)
(* (cli/commands.py, developer/runner.py, guard.py and context.py), and    *)
(* the subagent a guarded agent may ask for (developer/subagents.py).  The *)
(* agent's own code decides what it asks for; the guard serves it once.    *)
(***************************************************************************)
EXTENDS DeveloperState

Unkept == <<sent, announced>>

-----------------------------------------------------------------------------
(* Starting a run: a fresh runtime, with a guard key of its own. *)

RunStart(p) ==
    /\ \E detach \in BOOLEAN :
          LET q == ProjectClient([New("run", "enroll") EXCEPT !.detach = detach])
          IN  Start(p, "run", IF q # Idle /\ q.agent.revoked = 0 THEN q ELSE Idle)
    /\ UNCHANGED <<scene, store, project, srv, outputs>>

\* create_runtime_enrollment.
Enroll(p) ==
    /\ At(p, "run", "enroll")
    /\ Request(p, SessionHeld(p) /\ Standing(p), srv, To(p, "redeem"), Idle)
    /\ UNCHANGED <<scene, store, project, started, outputs>>

\* redeem_runtime: one use.
Redeem(p) ==
    /\ At(p, "run", "redeem")
    /\ Request(p, Standing(p), srv, To(p, "guard"), Idle)
    /\ UNCHANGED <<scene, store, project, started, outputs>>

\* run_agent: the guard's keys are kept under the runtime's name, where a later
\* subagents_resume looks for them.
KeepGuardByAgent(p) ==
    /\ At(p, "run", "guard")
    /\ SaveThen(p, Guard(0), proc[p].n, To(p, "attest"))
    /\ UNCHANGED <<scene, project, srv, left, started, outputs>>
KeepGuard(p) ==
    /\ At(p, "run", "guard")
    /\ SaveThen(p, Guard(proc[p].run), proc[p].n, To(p, "attest"))
    /\ UNCHANGED <<scene, project, srv, left, started, outputs>>

\* Who signs the receipts of an action, in the order of the layers; the first
\* five come before the exchange.
Layers ==
    <<"harness", "harness", "harness", "harness", "guard", "control", "sts", "sts", "target">>
BeforeExchange == 1..5

\* build_runtime_attestation: the guard vouches, with its key, for the keys, the
\* agent, the descriptor and the receipts this runtime will have.
RuntimeAttestation(p) ==
    [manifest |-> [agent |-> proc[p].agent.key, runtime |-> proc[p].run,
                   package |-> proc[p].digest, required |-> Layers,
                   keys |-> [guard |-> proc[p].n, harness |-> proc[p].n]],
     signer |-> proc[p].n]

\* submit_runtime_attestation.
Attest(p) ==
    /\ At(p, "run", "attest")
    /\ RequestTwice(p, Standing(p), srv, To(p, "start"))
    /\ Sends(<<"attestation", proc[p].run>>, RuntimeAttestation(p))
    /\ UNCHANGED <<scene, store, project, started, announced, completed>>

\* create_developer_run.
CreateRun(p) ==
    /\ At(p, "run", "start")
    /\ RequestTwice(p, Standing(p), [srv EXCEPT !.runs = @ \cup {proc[p].run}], To(p, "child"))
    /\ UNCHANGED <<scene, store, project, started, outputs>>

\* Actions.invoke and Subagents.request: the one request of the agent's process.
Invoke(p) == \E e \in Envelopes : Goto(p, [To(p, "evidence") EXCEPT !.ask = e])

\* invoke, for a subagent: one the descriptor declares.
Declared(p) == proc[p].digest \in Spawners
RequestSubagent(p) == Declared(p) /\ Goto(p, To(p, "custody"))

\* Runner.run: the agent's process makes its request.
Child(p) ==
    /\ At(p, "run", "child")
    /\ Invoke(p) \/ RequestSubagent(p)
    /\ UNCHANGED <<scene, store, project, srv, left, started, outputs>>

\* Runner.run, after the agent's process.  A receipt in the agent's own output
\* is reported whatever the guard answered; without one the run ends well only
\* on the receipt the guard gave for e.
Reports(run, by, e) == completed \cup {[run |-> run, by |-> by, ask |-> e]}
RunnerResult(p, e, receipt) ==
    {completed, Reports(proc[p].run, "agent", e)}
        \cup IF receipt THEN {Reports(proc[p].run, "guard", e)} ELSE {}

\* What the guard is doing for the agent.
Serving == {"child", "evidence", "act", "keep", "poll", "custody", "reload", "mint", "spawn",
            "posted", "query", "challenge", "provision", "activate", "activated", "outcome"}

\* serve_once: the agent's process ends refused, before its answer (the guard's
\* thread is joined for two seconds, then dies with the command), or without a
\* request.  A detached run that is not pending fails.
EndsUnserved(p) ==
    /\ proc[p].cmd = "run" /\ proc[p].pc \in Serving
    /\ completed' \in IF proc[p].detach THEN {completed} ELSE RunnerResult(p, None, FALSE)
    /\ Goto(p, Idle)
    /\ UNCHANGED <<scene, store, project, srv, left, started, Unkept>>

-----------------------------------------------------------------------------
(* An action. *)

\* build_preexchange_evidence: a receipt per layer, chained, each signed with the
\* key the manifest binds to its layer and about this request of this run.
PreexchangeEvidence(p) ==
    LET manifest == RuntimeAttestation(p).manifest
    IN  [k \in BeforeExchange |->
            [manifest |-> manifest, run |-> proc[p].run, ask |-> proc[p].ask, layer |-> k,
             prior |-> k - 1, signer |-> manifest.keys[manifest.required[k]]]]

\* submit_runtime_evidence.
Evidence(p) ==
    /\ At(p, "run", "evidence")
    /\ Request(p, Standing(p), srv, To(p, "act"), Idle)
    /\ Sends(<<"evidence", proc[p].run>>, PreexchangeEvidence(p))
    /\ UNCHANGED <<scene, store, project, started, announced, completed>>

\* create_developer_action, which can also answer that the capability is denied.
Act(p) ==
    /\ At(p, "run", "act")
    /\ LET run == proc[p].run
           s   == IF run \in DOMAIN srv.actions THEN srv
                  ELSE [srv EXCEPT !.actions =
                           Put(@, run, [ask |-> proc[p].ask, state |-> "pending"])]
       IN  \E allowed \in BOOLEAN :
              RequestTwice(p, Standing(p) /\ allowed, s,
                           To(p, IF proc[p].detach THEN "exit" ELSE "keep"))
    /\ Sends(<<"action", proc[p].run>>, proc[p].ask)
    /\ UNCHANGED <<scene, store, project, started, announced, completed>>

\* action_continuation and spawn_continuation, and their names.
Continuation(p) ==
    [ask |-> IF proc[p].spawn = None THEN proc[p].ask ELSE None, digest |-> proc[p].digest]
Awaited(p) == IF proc[p].spawn = None THEN Action(proc[p].run) ELSE Subagent(proc[p].run)

\* invoke, attached: the continuation is kept before the wait.
KeepAction(p) ==
    /\ At(p, "run", "keep")
    /\ SaveThen(p, Awaited(p), Continuation(p), To(p, "poll"))
    /\ UNCHANGED <<scene, project, srv, left, started, outputs>>

\* _validate_developer_action_response: delivered, with a receipt of the action.
Delivered(run) == srv.actions[run].state = "delivered"

\* get_developer_action until it is settled.  A wait outlives neither a failed
\* request nor the runner's limit on the agent's process.
Poll(p) ==
    /\ At(p, "run", "poll")
    /\ completed' \in RunnerResult(p, proc[p].ask, Delivered(proc[p].run))
    /\ Goto(p, Idle)
    /\ UNCHANGED <<scene, store, project, srv, left, started, Unkept>>

\* run_agent, detached: when the agent ended as pending its continuation is kept;
\* ended otherwise, the run fails.
Detach(p) ==
    /\ At(p, "run", "exit")
    /\ \/ SaveThen(p, Awaited(p), Continuation(p), To(p, "print"))
       \/ Goto(p, Idle) /\ UNCHANGED store
    /\ UNCHANGED <<scene, project, srv, left, started, outputs>>

\* ... and the identifier is printed.
Announce(p) ==
    /\ At(p, "run", "print")
    /\ announced' = announced \cup {Awaited(p)}
    /\ Goto(p, Idle)
    /\ UNCHANGED <<scene, store, project, srv, left, started, sent, completed>>

\* A command on the continuation of an earlier run, made for one of the
\* descriptors.
Continues(p, cmd, pc, run, name, digests) ==
    LET q    == ProjectClient([New(cmd, pc) EXCEPT !.run = run])
        kept == Loaded(name)
    IN  /\ kept.ok /\ kept.v # None
        /\ Start(p, cmd, IF q # Idle /\ kept.v.digest \in digests
                         THEN [q EXCEPT !.ask = kept.v.ask] ELSE Idle)

\* actions_wait: reads until the action is settled.
WaitStart(p) ==
    /\ \E run \in 1..MaxCommands : Continues(p, "wait", "get", run, Action(run), Descriptors)
    /\ UNCHANGED <<scene, store, project, srv, outputs>>

Wait(p) ==
    /\ At(p, "wait", "get")
    /\ srv.actions[proc[p].run].state # "pending" \/ ~SessionHeld(p)
    /\ Goto(p, Idle)
    /\ UNCHANGED <<scene, store, project, srv, left, started, outputs>>

\* actions_resume: a delivered action's agent is run again.
ResumeStart(p) ==
    /\ \E run \in 1..MaxCommands : Continues(p, "resume", "get", run, Action(run), {ProjectDescriptor})
    /\ UNCHANGED <<scene, store, project, srv, outputs>>

ResumeGet(p) ==
    /\ At(p, "resume", "get")
    /\ Request(p, SessionHeld(p) /\ Delivered(proc[p].run), srv,
               To(p, "replay"), Idle)
    /\ UNCHANGED <<scene, store, project, started, outputs>>

\* invoke, on resume: only the very same request gets the receipt.
AnyEnvelope(e, expected) == TRUE
SameEnvelope(e, expected) == e = expected

Replay(p) ==
    /\ At(p, "resume", "replay")
    /\ \E e \in Envelopes :
          completed' \in RunnerResult(p, e, SameEnvelope(e, proc[p].ask))
    /\ Goto(p, Idle)
    /\ UNCHANGED <<scene, store, project, srv, left, started, Unkept>>

-----------------------------------------------------------------------------
(* GovernedSubagentRuntime: one key and one spawn request per intent. *)

Spawning(p, pc) == proc[p].cmd \in {"run", "subagent"} /\ proc[p].pc = pc

\* subagents_resume, with the guard key of the run that asked.
SubagentStart(p) ==
    /\ \E run \in 1..MaxCommands :
          /\ Loaded(Guard(run)).ok /\ Loaded(Guard(run)).v # None
          /\ Continues(p, "subagent", "custody", run, Subagent(run),
                       {ProjectDescriptor} \cap Spawners)
    /\ UNCHANGED <<scene, store, project, srv, outputs>>

OnwardWithNewKey(p, held) ==
    [To(p, CASE held.active -> "outcome" [] held.asked /\ ~held.active -> "query"
             [] OTHER -> "spawn")
        EXCEPT !.spawn = [held EXCEPT !.key = proc[p].n], !.ask = "active"]
\* What the intent's record says is still to do.
Onward(p, held) ==
    [To(p, CASE held.active -> "outcome" [] held.asked /\ ~held.active -> "query"
             [] OTHER -> "spawn")
        EXCEPT !.spawn = held, !.ask = "active"]

\* request: load the intent's record; make one if there is none, and load it
\* again if another process was first.
Custody(p) ==
    /\ Spawning(p, "custody") \/ Spawning(p, "reload")
    /\ LET held == Loaded(Intent(proc[p].run))
       IN  Goto(p, CASE ~held.ok -> Idle
                     [] held.ok /\ held.v # None -> Onward(p, held.v)
                     [] OTHER -> IF proc[p].pc = "custody" THEN To(p, "mint") ELSE Idle)
    /\ UNCHANGED <<scene, store, project, srv, left, started, outputs>>

Mint(p) ==
    /\ Spawning(p, "mint")
    /\ LET fresh == [key |-> proc[p].n, asked |-> FALSE, active |-> FALSE]
           made  == CreateIfAbsent(store, scene.consent, Intent(proc[p].run), fresh)
       IN  /\ store' = made.st
           /\ Goto(p, CASE made.created -> Onward(p, fresh)
                        [] made.ok /\ ~made.created -> To(p, "reload")
                        [] OTHER -> Idle)
    /\ UNCHANGED <<scene, project, srv, left, started, outputs>>

\* Where a status sends the request: on to activation, or back to the framework.
Status(p, status) ==
    [To(p, IF status \in {"pending", "denied"} THEN "outcome" ELSE "challenge")
        EXCEPT !.ask = status]

\* create_developer_subagent_spawn, under the intent's idempotency key.
PostSpawn(p) ==
    /\ Spawning(p, "spawn")
    /\ LET run == proc[p].run
           key == proc[p].spawn.key
           old == Value(srv.spawns, run)
       IN  /\ Sends(<<"spawn", run>>, key)
           /\ \E status \in IF old = None THEN {"pending", "allowed"} ELSE {old.status} :
                 RequestTwice(p, Standing(p) /\ (old # None => old.key = key),
                              [srv EXCEPT !.spawns = Put(@, run, [key |-> key, status |-> status])],
                              [To(p, "posted") EXCEPT !.ask = status])
    /\ UNCHANGED <<scene, store, project, started, announced, completed>>

KeepSpawn(p) ==
    /\ Spawning(p, "posted")
    /\ LET held == [proc[p].spawn EXCEPT !.asked = TRUE]
       IN  SaveThen(p, Intent(proc[p].run), held,
                    [Status(p, proc[p].ask) EXCEPT !.spawn = held])
    /\ UNCHANGED <<scene, project, srv, left, started, outputs>>

\* get_developer_subagent_spawn and _validate_subagent_status.
QuerySpawn(p) ==
    /\ Spawning(p, "query")
    /\ Request(p, Standing(p), srv, Status(p, srv.spawns[proc[p].run].status), Idle)
    /\ UNCHANGED <<scene, store, project, started, outputs>>

\* _validate_subagent_provision_result: authorized for the key in custody.
ProvisionsKey(p) == srv.spawns[proc[p].run].key = proc[p].spawn.key

\* provision_developer_subagent: one operation, under an idempotency key of its
\* own, proved with the key in custody and answered again when already done.
ProvisionSubagent(p, operation, status, then) ==
    LET old == srv.spawns[proc[p].run]
        new == IF old.status \in {"provisioned", "active"} /\ operation # "activate"
               THEN old ELSE [old EXCEPT !.status = status]
    IN  Request(p, Standing(p) /\ ProvisionsKey(p),
                [srv EXCEPT !.spawns[proc[p].run] = new], To(p, then), Idle)
        /\ Sends(<<"provision", proc[p].run, operation>>, proc[p].spawn.key)

\* _activate: challenge, provision, activate.
Provision(p) ==
    /\ \/ Spawning(p, "challenge") /\ ProvisionSubagent(p, "challenge", "allowed", "provision")
       \/ Spawning(p, "provision") /\ ProvisionSubagent(p, "provision", "provisioned", "activate")
       \/ Spawning(p, "activate") /\ ProvisionSubagent(p, "activate", "active", "activated")
    /\ UNCHANGED <<scene, store, project, started, announced, completed>>

KeepActivation(p) ==
    /\ Spawning(p, "activated")
    /\ SaveThen(p, Intent(proc[p].run), [proc[p].spawn EXCEPT !.active = TRUE],
                [To(p, "outcome") EXCEPT !.ask = "active"])
    /\ UNCHANGED <<scene, project, srv, left, started, outputs>>

\* _framework_outcome: what the agent is told.
AwaitsApproval(p) == proc[p].ask = "pending"

\* A run that waits for approval keeps a continuation, at once or, detached, when
\* the agent has ended; everything else ends the command.
Outcome(p) ==
    /\ Spawning(p, "outcome")
    /\ IF proc[p].cmd = "run" /\ AwaitsApproval(p) /\ ~proc[p].detach
       THEN SaveThen(p, Awaited(p), Continuation(p), Idle)
       ELSE /\ Goto(p, IF proc[p].cmd = "run" /\ AwaitsApproval(p) THEN To(p, "exit") ELSE Idle)
            /\ UNCHANGED store
    /\ UNCHANGED <<scene, project, srv, left, started, outputs>>
=============================================================================
