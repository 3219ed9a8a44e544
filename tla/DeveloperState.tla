--------------------------- MODULE DeveloperState ----------------------------
(***************************************************************************)
(* What pnxs commands share: the credential store and the project of one   *)
(* user, the tenant's developer service, and the processes running the     *)
(* commands.  The agent has one name.  The n-th command started draws its  *)
(* keys, identifiers and times from n.                                     *)
(***************************************************************************)
EXTENDS Integers, FiniteSets, CredentialStore

CONSTANTS
    Processes,
    Descriptors,    \* digests the project's descriptor can have
    Tenants,        \* tenants a sign-in can be approved for; sign-ins ask for Tenant
    Tenant,
    Spawners,       \* descriptors that declare a subagent
    Envelopes,      \* what the agent can ask its guard for, besides a subagent
    Scenes,         \* where a behaviour starts, and what may happen how often
    MaxCommands     \* the most commands started in one behaviour

VARIABLES
    scene,      \* the start, the bounds, and the consent to the file store
    store,      \* the credential store
    project,    \* the descriptor in the directory and in the agents-add workspace
    srv,        \* the developer service
    proc,       \* process -> the command it runs
    left,       \* commands, faults, crashes, keyring changes, edits still to come
    started,    \* commands started
    sent,       \* <<idempotency key, body>> pairs that were sent
    announced,  \* runs whose pending action or spawn was printed
    completed   \* runs reported as ended on a receipt: whose it was, and what was asked

vars == <<scene, store, project, srv, proc, left, started, sent, announced, completed>>
outputs == <<sent, announced, completed>>

Idle == [cmd |-> "none"]

Init ==
    /\ scene \in Scenes
    /\ store = scene.store
    /\ project = scene.project
    /\ srv = scene.srv
    /\ proc = [p \in Processes |-> Idle]
    /\ left = scene.left
    /\ started = 0
    /\ sent = {}
    /\ announced = {}
    /\ completed = {}

Session == <<"session", 0>>
Legacy == <<"agent", 0>>          \* agent:<name>
Scoped == <<"agent", 1>>          \* agent:<tenant>:<name>
Guard(run) == <<"guard", run>>
Intent(run) == <<"intent", run>>
Action(run) == <<"action", run>>
Subagent(run) == <<"subagent", run>>

At(p, cmd, pc) == proc[p].cmd = cmd /\ proc[p].pc = pc
To(p, pc) == [proc[p] EXCEPT !.pc = pc, !.tries = 0]
Goto(p, q) == proc' = [proc EXCEPT ![p] = q]
Loaded(name) == Load(store, scene.consent, name)

\* _project_descriptor: the descriptor in the directory, None if there is none.
ProjectDescriptor == project.digest

\* A command begins; pc is its first step.
New(cmd, pc) ==
    [cmd |-> cmd, n |-> started + 1, pc |-> pc, session |-> None, name |-> None,
     agent |-> None, digest |-> ProjectDescriptor, run |-> started + 1, spawn |-> None,
     ask |-> None, created |-> FALSE, detach |-> FALSE, tries |-> 0]

Start(p, cmd, q) ==
    /\ proc[p] = Idle
    /\ cmd \in DOMAIN left.menu /\ left.menu[cmd] > 0
    /\ left' = [left EXCEPT !.menu[cmd] = @ - 1]
    /\ started' = started + 1
    /\ Goto(p, q)

\* generate_agent_credential.
Unregistered(key) ==
    [key |-> key, digest |-> None, gen |-> 0, ceiling |-> None, revoked |-> 0]

\* _project_client: the session, and the tenant's credential before the old one.
ProjectClient(q) ==
    LET session == Loaded(Session)
        name    == IF Loaded(Scoped).v # None THEN Scoped ELSE Legacy
    IN  IF /\ session.ok /\ session.v # None
           /\ q.digest # None
           /\ Loaded(Scoped).ok /\ Loaded(name).ok /\ Loaded(name).v # None
        THEN [q EXCEPT !.session = session.v, !.name = name, !.agent = Loaded(name).v]
        ELSE Idle

\* _claim_project_client: the session alone.
ClaimProjectClient(q) ==
    LET session == Loaded(Session)
    IN  IF session.ok /\ session.v # None /\ q.digest # None
        THEN [q EXCEPT !.session = session.v] ELSE Idle

\* store.save at the end of a step, atomic under _mutation_lock: an unavailable
\* store ends the command.
SaveThen(p, name, v, q) ==
    LET saved == Save(store, scene.consent, name, v)
    IN  /\ store' = saved.st
        /\ Goto(p, IF saved.ok THEN q ELSE Idle)

-----------------------------------------------------------------------------
(* The service, as the client's requests meet it. *)

SessionHeld(p) == proc[p].session \in srv.sessions

\* mounted_proof: for the agent's generation, with the agent's key or the guard
\* key it enrolled.
MountedProof(p) == [key |-> proc[p].agent.key, gen |-> proc[p].agent.gen]

\* The registration is live, and the proof is of its key and generation.
Standing(p) ==
    /\ srv.reg # None
    /\ ~srv.reg.revoked
    /\ MountedProof(p) = [key |-> srv.reg.key, gen |-> srv.reg.gen]

Grant(reg) == [srv EXCEPT !.reg = reg, !.granted = @ \cup {<<reg.key, reg.digest, reg.gen>>}]

\* _request: the service does its part (srv becomes s) and the answer sends the
\* process on to q; or it refuses, or nothing comes back, and the process goes
\* on to "failed".
Request(p, served, s, q, failed) ==
    \/ /\ srv' = IF served THEN s ELSE srv
       /\ Goto(p, IF served THEN q ELSE failed)
       /\ UNCHANGED left
    \/ /\ left.faults > 0
       /\ left' = [left EXCEPT !.faults = @ - 1]
       /\ srv' \in IF served THEN {srv, s} ELSE {srv}
       /\ Goto(p, failed)

\* _request with retry_transient: what did not come back is sent once more.
RequestTwice(p, served, s, q) ==
    Request(p, served, s, q,
            IF served /\ proc[p].tries = 0 THEN [proc[p] EXCEPT !.tries = 1] ELSE Idle)

Sends(key, body) == sent' = sent \cup {<<key, body>>}
=============================================================================
