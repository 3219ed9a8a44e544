--------------------------- MODULE AgentCommands -----------------------------
(***************************************************************************)
(* pnxs login, logout, agents init/add/register/request-authority/status/  *)
(* revoke and agent attach (cli/commands.py with developer/client.py).  A  *)
(* step ends at a request to the service or at an operation of the store.  *)
(***************************************************************************)
EXTENDS DeveloperState

-----------------------------------------------------------------------------
(* Signing in and out. *)

LoginStart(p) ==
    /\ Start(p, "login", New("login", "create"))
    /\ UNCHANGED <<scene, store, project, srv, outputs>>

\* login, device authorization: create it, poll it until the person decided
\* (or it expired first), then redeem it.
LoginCreate(p) ==
    /\ At(p, "login", "create")
    /\ Request(p, TRUE, [srv EXCEPT !.device = Put(@, proc[p].n, "pending")],
               To(p, "poll"), Idle)
    /\ UNCHANGED <<scene, store, project, started, outputs>>

\* _validate_device_authorization_status: the state of the authorization.
DeviceState(p) ==
    LET authorization == srv.device[proc[p].n]
    IN  IF authorization \in Tenants THEN "approved" ELSE authorization

LoginPoll(p) ==
    /\ At(p, "login", "poll")
    /\ IF DeviceState(p) = "pending"
       THEN Goto(p, Idle) /\ UNCHANGED <<srv, left>>
       ELSE Request(p, DeviceState(p) = "approved", srv, To(p, "token"), Idle)
    /\ UNCHANGED <<scene, store, project, started, outputs>>

\* _validate_device_session: this sign-in's session, of the approver's tenant.
DeviceSession(n) == [id |-> n, tenant |-> srv.device[n]]

\* Redeem, and accept a session of the asked tenant only.
LoginToken(p) ==
    /\ At(p, "login", "token")
    /\ LET n       == proc[p].n
           session == DeviceSession(n)
           wanted  == session.tenant = Tenant
       IN  Request(p, session.tenant \in Tenants,
                   [srv EXCEPT !.device[n] = "consumed", !.sessions = @ \cup {session}],
                   [To(p, IF wanted THEN "save" ELSE "cleanup") EXCEPT !.session = session],
                   Idle)
    /\ UNCHANGED <<scene, store, project, started, outputs>>

\* logout of the wrong tenant's session, then of nothing: the login fails.
LoginCleanup(p) ==
    /\ At(p, "login", "cleanup")
    /\ Request(p, TRUE, [srv EXCEPT !.sessions = @ \ {proc[p].session}], Idle, Idle)
    /\ UNCHANGED <<scene, store, project, started, outputs>>

LoginSave(p) ==
    /\ At(p, "login", "save")
    /\ SaveThen(p, Session, proc[p].session, Idle)
    /\ UNCHANGED <<scene, project, srv, left, started, outputs>>

LogoutStart(p) ==
    /\ LET session == Loaded(Session)
       IN  Start(p, "logout", IF session.ok /\ session.v # None
                              THEN [New("logout", "call") EXCEPT !.session = session.v]
                              ELSE Idle)
    /\ UNCHANGED <<scene, store, project, srv, outputs>>

\* DeveloperClient.logout: a session that is already gone (401) is as good.
LogoutCall(p) ==
    /\ At(p, "logout", "call")
    /\ Request(p, TRUE, [srv EXCEPT !.sessions = @ \ {proc[p].session}],
               To(p, "forget"), Idle)
    /\ UNCHANGED <<scene, store, project, started, outputs>>

LogoutForget(p) ==
    /\ At(p, "logout", "forget")
    /\ store' = Delete(store, scene.consent, Session).st
    /\ Goto(p, Idle)
    /\ UNCHANGED <<scene, project, srv, left, started, outputs>>

-----------------------------------------------------------------------------
(* A key of its own for the agent. *)

\* agents_init, preflight_plain_python: the directory is empty.
InitStart(p) ==
    /\ Start(p, "init", IF project.digest = None THEN New("init", "create") ELSE Idle)
    /\ UNCHANGED <<scene, store, project, srv, outputs>>

InitCreate(p) ==
    /\ At(p, "init", "create")
    /\ LET made == CreateIfAbsent(store, scene.consent, Legacy, Unregistered(proc[p].n))
       IN  /\ store' = made.st
           /\ Goto(p, IF made.ok THEN [To(p, "scaffold") EXCEPT !.created = made.created]
                                 ELSE Idle)
    /\ UNCHANGED <<scene, project, srv, left, started, outputs>>

\* initialize_plain_python: the staged files move in if the directory is still
\* empty.  A ScaffoldError (the directory is not empty, uv failed) takes back the
\* key this command created; any other error of the file system leaves it.
InitScaffold(p) ==
    /\ At(p, "init", "scaffold")
    /\ LET scaffoldError == IF proc[p].created THEN To(p, "rollback") ELSE Idle
       IN  \/ /\ project.digest = None
              /\ \E d \in Descriptors : project' = [project EXCEPT !.digest = d]
              /\ Goto(p, Idle)
              /\ UNCHANGED left
           \/ /\ project.digest # None
              /\ Goto(p, scaffoldError)
              /\ UNCHANGED <<project, left>>
           \/ /\ left.faults > 0
              /\ left' = [left EXCEPT !.faults = @ - 1]
              /\ Goto(p, scaffoldError) \/ Goto(p, Idle)
              /\ UNCHANGED project
    /\ UNCHANGED <<scene, store, srv, started, outputs>>

InitRollback(p) ==
    /\ At(p, "init", "rollback")
    /\ store' = Delete(store, scene.consent, Legacy).st
    /\ Goto(p, Idle)
    /\ UNCHANGED <<scene, project, srv, left, started, outputs>>

\* require_cli_compatibility, before anything is changed.
Compatible(p, cmd, then) ==
    /\ At(p, cmd, "compat")
    /\ Request(p, SessionHeld(p), srv, To(p, then), Idle)
    /\ UNCHANGED <<scene, store, project, started, outputs>>

\* agents_add and agent_attach: create_if_absent under the tenant's name, load.
CreateKey(p) ==
    /\ proc[p].cmd \in {"add", "attach"} /\ proc[p].pc = "create"
    /\ LET made  == CreateIfAbsent(store, scene.consent, Scoped, Unregistered(proc[p].n))
           agent == Load(made.st, scene.consent, Scoped)
       IN  /\ store' = made.st
           /\ Goto(p, IF made.ok /\ agent.ok /\ agent.v # None
                      THEN [To(p, IF proc[p].cmd = "add" THEN "register" ELSE "challenge")
                               EXCEPT !.agent = agent.v, !.name = Scoped]
                      ELSE Idle)
    /\ UNCHANGED <<scene, project, srv, left, started, outputs>>

-----------------------------------------------------------------------------
(* Registering. *)

RegisterStart(p) ==
    /\ Start(p, "register", ProjectClient(New("register", "compat")))
    /\ UNCHANGED <<scene, store, project, srv, outputs>>

\* agents_add: the session.
AddStart(p) ==
    /\ Start(p, "add", ClaimProjectClient(New("add", "compat")))
    /\ UNCHANGED <<scene, store, project, srv, outputs>>

\* _write_registration_input: is a descriptor in the workspace, and is it this one?
PrepareWorkspace(p) ==
    /\ At(p, "add", "workspace")
    /\ Goto(p, CASE project.workspace = None -> To(p, "write")
                 [] project.workspace = proc[p].digest -> To(p, "reread")
                 [] OTHER -> Idle)
    /\ UNCHANGED <<scene, store, project, srv, left, started, outputs>>

\* _atomic_write replaces whatever is there by now.
WriteWorkspace(p) ==
    /\ At(p, "add", "write")
    /\ project' = [project EXCEPT !.workspace = proc[p].digest]
    /\ Goto(p, To(p, "reread"))
    /\ UNCHANGED <<scene, store, srv, left, started, outputs>>

\* The descriptor to register is the one the workspace holds now.
RereadWorkspace(p) ==
    /\ At(p, "add", "reread")
    /\ Goto(p, [To(p, "create") EXCEPT !.digest = project.workspace])
    /\ UNCHANGED <<scene, store, project, srv, left, started, outputs>>

\* The registration the process is left with: id, generation and descriptor.
RegisteredAs(p, reg) ==
    [To(p, "save") EXCEPT !.agent.digest = reg.digest, !.agent.gen = reg.gen]

\* _registration_binding: the key and the descriptor that a registration binds.
RegistrationBinding(p) == [key |-> proc[p].agent.key, digest |-> proc[p].digest]

\* _validate_registration_response: bound to this key and descriptor.
AnyKeyBound(p, reg) == reg.digest = RegistrationBinding(p).digest
Bound(p, reg) == [key |-> reg.key, digest |-> reg.digest] = RegistrationBinding(p)

\* _validate_registered_agent_projection: the service knows the agent as registered.
Projection(reg) == reg # None /\ ~reg.revoked

\* register_agent.  A first registration has generation 1; the same key may
\* register another descriptor, in the same generation or the next.
RegisterAgent(p) ==
    /\ proc[p].cmd \in {"register", "add"} /\ proc[p].pc = "register"
    /\ LET asked  == RegistrationBinding(p)
           known  == srv.reg # None
           served == /\ SessionHeld(p)
                     /\ known => srv.reg.key = asked.key /\ ~srv.reg.revoked
       IN  \E bump \in IF known /\ served /\ srv.reg.digest # asked.digest THEN {0, 1} ELSE {0} :
              LET reg == [key |-> asked.key, digest |-> asked.digest, revoked |-> FALSE,
                          gen |-> IF known THEN srv.reg.gen + bump ELSE 1]
              IN  Request(p, served, Grant(reg), RegisteredAs(p, reg), To(p, "reconcile"))
    /\ UNCHANGED <<scene, store, project, started, outputs>>

\* _register_with_recovery, reconcile_agent_registration: a failed registration
\* is read back, and counts if it is exactly this one.
Reconcile(p) ==
    /\ proc[p].cmd \in {"register", "add"} /\ proc[p].pc = "reconcile"
    /\ Request(p, SessionHeld(p) /\ Projection(srv.reg) /\ Bound(p, srv.reg), srv,
               RegisteredAs(p, srv.reg), Idle)
    /\ UNCHANGED <<scene, store, project, started, outputs>>

\* _retire_stale_ceiling_request: one that was made for another descriptor.
Retired(agent) ==
    IF agent.ceiling # None /\ agent.ceiling.body.digest # agent.digest
    THEN [agent EXCEPT !.ceiling = None] ELSE agent

RegisterSave(p) ==
    /\ At(p, "register", "save")
    /\ SaveThen(p, proc[p].name, Retired(proc[p].agent), Idle)
    /\ UNCHANGED <<scene, project, srv, left, started, outputs>>

AddSave(p) ==
    /\ At(p, "add", "save")
    /\ SaveThen(p, Scoped, proc[p].agent, Idle)
    /\ UNCHANGED <<scene, project, srv, left, started, outputs>>

-----------------------------------------------------------------------------
(* Attaching a key to a registration that was made on the web. *)

AttachStart(p) ==
    /\ Start(p, "attach", ClaimProjectClient(New("attach", "compat")))
    /\ UNCHANGED <<scene, store, project, srv, outputs>>

\* The challenge identifier is derived from the request.  A challenge is pending
\* until a receipt names the generation it attached the key to.
Pending == 0
ChallengeId(p) == <<proc[p].agent.key, proc[p].digest>>
Claim(p) == Value(srv.claims, ChallengeId(p))
Receipt(p) == RegisteredAs(p, [digest |-> proc[p].digest, gen |-> Claim(p)])

\* attach_agent, first half: ask for a challenge; if that fails, read it back.
AskChallenge(p) ==
    /\ At(p, "attach", "challenge")
    /\ Request(p, SessionHeld(p) /\ srv.reg # None /\ ~srv.reg.revoked
                    /\ srv.reg.key = None /\ srv.reg.digest = proc[p].digest,
               [srv EXCEPT !.claims = Put(@, ChallengeId(p), Pending)],
               To(p, "complete"), To(p, "recover"))
    /\ UNCHANGED <<scene, store, project, started, outputs>>

RecoverChallenge(p) ==
    /\ At(p, "attach", "recover")
    /\ Request(p, SessionHeld(p) /\ Claim(p) # None, srv,
               IF Claim(p) = Pending THEN To(p, "complete") ELSE Receipt(p), Idle)
    /\ UNCHANGED <<scene, store, project, started, outputs>>

\* Second half: prove the key; if that fails, only an attached claim counts.
CompleteClaim(p) ==
    /\ At(p, "attach", "complete")
    /\ LET reg == [srv.reg EXCEPT !.key = proc[p].agent.key]
       IN  Request(p, SessionHeld(p) /\ Claim(p) = Pending /\ srv.reg.key = None,
                   [Grant(reg) EXCEPT !.claims = Put(@, ChallengeId(p), reg.gen)],
                   RegisteredAs(p, reg), To(p, "confirm"))
    /\ UNCHANGED <<scene, store, project, started, outputs>>

ConfirmClaim(p) ==
    /\ At(p, "attach", "confirm")
    /\ Request(p, SessionHeld(p) /\ Claim(p) \notin {None, Pending}, srv,
               Receipt(p), Idle)
    /\ UNCHANGED <<scene, store, project, started, outputs>>

AttachSave(p) ==
    /\ At(p, "attach", "save")
    /\ SaveThen(p, Scoped, proc[p].agent, Idle)
    /\ UNCHANGED <<scene, project, srv, left, started, outputs>>

-----------------------------------------------------------------------------
(* Authority. *)

\* _new_ceiling_request: a fresh identifier, and a body that says when it expires.
NewCeiling(p) ==
    [id |-> proc[p].n, body |-> [gen |-> proc[p].agent.gen, digest |-> proc[p].digest,
                                 expires |-> proc[p].n]]

\* agents_request_authority: not for an agent known to be revoked; a stored
\* request of this descriptor is asked again, a new one is kept first.
AuthorityStart(p) ==
    /\ LET q == ProjectClient(New("authority", "ask"))
       IN  Start(p, "authority",
                 CASE q = Idle \/ q.agent.revoked # 0 -> Idle
                   [] q.agent.ceiling # None ->
                         IF q.agent.ceiling.body.digest = q.digest THEN q ELSE Idle
                   [] OTHER -> IF q.agent.gen > 0 /\ q.agent.digest = q.digest
                               THEN [q EXCEPT !.pc = "keep"] ELSE Idle)
    /\ UNCHANGED <<scene, store, project, srv, outputs>>

\* _stored_or_new_ceiling_request: saved before it is sent.
AuthorityKeep(p) ==
    /\ At(p, "authority", "keep")
    /\ LET agent == [proc[p].agent EXCEPT !.ceiling = NewCeiling(p)]
       IN  SaveThen(p, proc[p].name, agent, [To(p, "ask") EXCEPT !.agent = agent])
    /\ UNCHANGED <<scene, project, srv, left, started, outputs>>

\* What a request for authority carries: the stored identifier and body.
RebuiltBody(p) == NewCeiling(p).body
CeilingBody(p) == proc[p].agent.ceiling.body

\* _validate_ceiling_response: an answer about this generation and descriptor.
CeilingAnswers(answer, body) == answer.gen = body.gen /\ answer.digest = body.digest

\* request_authority.
AuthorityAsk(p) ==
    /\ At(p, "authority", "ask")
    /\ LET id   == proc[p].agent.ceiling.id
           body == CeilingBody(p)
           kept == Value(srv.ceilings, id)
       IN  /\ Sends(<<"ceiling", id>>, body)
           /\ Request(p, SessionHeld(p) /\ IF kept # None THEN CeilingAnswers(kept, body)
                                           ELSE /\ Standing(p)
                                                /\ body.gen = srv.reg.gen
                                                /\ body.digest = srv.reg.digest,
                      [srv EXCEPT !.ceilings = Put(@, id, body)], Idle, Idle)
    /\ UNCHANGED <<scene, store, project, started, announced, completed>>

\* agents_status: reads the stored request's state.
StatusStart(p) ==
    /\ LET q == ProjectClient(New("status", "get"))
       IN  Start(p, "status", IF q # Idle /\ q.agent.ceiling # None THEN q ELSE Idle)
    /\ UNCHANGED <<scene, store, project, srv, outputs>>

StatusGet(p) ==
    /\ At(p, "status", "get")
    /\ Request(p, SessionHeld(p) /\ proc[p].agent.ceiling.id \in DOMAIN srv.ceilings, srv, Idle, Idle)
    /\ UNCHANGED <<scene, store, project, started, outputs>>

\* _revocation_previous_generation: the generation to revoke, or the one whose
\* revocation is asked for again; 0 when the record does not say.
PreviousGeneration(agent) ==
    CASE agent.gen = 0 -> 0
      [] agent.gen > 0 /\ agent.revoked = 0 -> agent.gen
      [] OTHER -> IF agent.gen = agent.revoked + 1 THEN agent.revoked ELSE 0

RevokeStart(p) ==
    /\ LET q == ProjectClient(New("revoke", "call"))
       IN  Start(p, "revoke", IF q # Idle /\ PreviousGeneration(q.agent) > 0 THEN q ELSE Idle)
    /\ UNCHANGED <<scene, store, project, srv, outputs>>

\* revoke_agent and _validate_revocation_response: the event must be the one of
\* the generation the record had.
RevocationAnswers(p, from) == from = PreviousGeneration(proc[p].agent)

RevokeCall(p) ==
    /\ At(p, "revoke", "call")
    /\ LET reg  == srv.reg
           from == IF reg.revoked THEN reg.gen - 1 ELSE reg.gen
       IN  Request(p, SessionHeld(p),
                   [srv EXCEPT !.reg = [reg EXCEPT !.revoked = TRUE, !.gen = from + 1]],
                   IF RevocationAnswers(p, from)
                   THEN [To(p, "save") EXCEPT !.agent.gen = from + 1, !.agent.revoked = from]
                   ELSE Idle, Idle)
    /\ UNCHANGED <<scene, store, project, started, outputs>>

RevokeSave(p) ==
    /\ At(p, "revoke", "save")
    /\ SaveThen(p, proc[p].name, proc[p].agent, Idle)
    /\ UNCHANGED <<scene, project, srv, left, started, outputs>>
=============================================================================
