-------------------------- MODULE DeveloperWorkflow --------------------------
(***************************************************************************)
(* Several pnxs commands at once on one user's credential store, project   *)
(* and developer service, with requests and answers that are lost, keyring *)
(* outages, processes that die, and a person who edits the descriptor.     *)
(***************************************************************************)
EXTENDS AgentCommands, GuardedRuns

-----------------------------------------------------------------------------
(* Around the commands. *)

\* A process is killed.
Crash(p) ==
    /\ proc[p] # Idle
    /\ left.crashes > 0
    /\ left' = [left EXCEPT !.crashes = @ - 1]
    /\ Goto(p, Idle)
    /\ UNCHANGED <<scene, store, project, srv, started, outputs>>

\* The keyring is locked, unlocked, or becomes read-only.
KeyringChanges ==
    /\ left.outages > 0
    /\ left' = [left EXCEPT !.outages = @ - 1]
    /\ \E mode \in {"up", "readonly", "down"} \ {store.mode} :
          store' = [store EXCEPT !.mode = mode]
    /\ UNCHANGED <<scene, project, srv, proc, started, outputs>>

EditDescriptor ==
    /\ left.edits > 0
    /\ project.digest # None
    /\ left' = [left EXCEPT !.edits = @ - 1]
    /\ \E d \in Descriptors \ {project.digest} : project' = [project EXCEPT !.digest = d]
    /\ UNCHANGED <<scene, store, srv, proc, started, outputs>>

\* People decide: on a sign-in, an action, a spawn.
Decide ==
    /\ \/ \E n \in DOMAIN srv.device :
             /\ srv.device[n] = "pending"
             /\ \E d \in Tenants \cup {"denied"} : srv' = [srv EXCEPT !.device[n] = d]
       \/ \E run \in DOMAIN srv.actions :
             /\ srv.actions[run].state = "pending"
             /\ \E s \in {"delivered", "denied"} : srv' = [srv EXCEPT !.actions[run].state = s]
       \/ \E run \in DOMAIN srv.spawns :
             /\ srv.spawns[run].status = "pending"
             /\ \E s \in {"allowed", "denied"} : srv' = [srv EXCEPT !.spawns[run].status = s]
    /\ UNCHANGED <<scene, store, project, proc, left, started, outputs>>

Next ==
    \/ \E p \in Processes :
          \/ LoginStart(p) \/ LoginCreate(p) \/ LoginPoll(p) \/ LoginToken(p)
          \/ LoginCleanup(p) \/ LoginSave(p)
          \/ LogoutStart(p) \/ LogoutCall(p) \/ LogoutForget(p)
          \/ InitStart(p) \/ InitCreate(p) \/ InitScaffold(p) \/ InitRollback(p)
          \/ Compatible(p, "register", "register") \/ Compatible(p, "add", "workspace")
          \/ Compatible(p, "attach", "create") \/ CreateKey(p)
          \/ RegisterStart(p) \/ AddStart(p) \/ PrepareWorkspace(p) \/ WriteWorkspace(p)
          \/ RereadWorkspace(p)
          \/ RegisterAgent(p) \/ Reconcile(p) \/ RegisterSave(p) \/ AddSave(p)
          \/ AttachStart(p) \/ AskChallenge(p) \/ RecoverChallenge(p)
          \/ CompleteClaim(p) \/ ConfirmClaim(p) \/ AttachSave(p)
          \/ AuthorityStart(p) \/ AuthorityKeep(p) \/ AuthorityAsk(p)
          \/ StatusStart(p) \/ StatusGet(p)
          \/ RevokeStart(p) \/ RevokeCall(p) \/ RevokeSave(p)
          \/ RunStart(p) \/ Enroll(p) \/ Redeem(p) \/ KeepGuard(p) \/ Attest(p)
          \/ CreateRun(p) \/ Child(p) \/ EndsUnserved(p) \/ Evidence(p) \/ Act(p) \/ KeepAction(p)
          \/ Poll(p) \/ Detach(p) \/ Announce(p) \/ WaitStart(p) \/ Wait(p)
          \/ ResumeStart(p) \/ ResumeGet(p) \/ Replay(p)
          \/ SubagentStart(p) \/ Custody(p) \/ Mint(p) \/ PostSpawn(p) \/ KeepSpawn(p)
          \/ QuerySpawn(p) \/ Provision(p) \/ KeepActivation(p) \/ Outcome(p)
          \/ Crash(p)
    \/ KeyringChanges \/ EditDescriptor \/ Decide

Spec == Init /\ [][Next]_vars

-----------------------------------------------------------------------------
(* What the commands promise. *)

Kept(name) == {v \in {Value(store.ring, name), Value(store.file, name)} : v # None}
Granted(key, digest, gen) == <<key, digest, gen>> \in srv.granted

\* Whatever commands ran over each other's records, whichever requests were
\* lost and whoever died: what the credential store holds about the service,
\* the service did.  A session was issued, for the asked tenant.  A registered
\* record names a key, descriptor and generation that were registered together,
\* a revoked one the revocation of its own key, and a stored request for
\* authority a registered generation.  A spawn the record counts as asked for,
\* or as active, is so at the service with the key in custody.  A continuation
\* names an action, or a spawn, of its run (_register_with_recovery,
\* attach_agent, agents_revoke, GovernedSubagentRuntime.request).
StoreIsBacked ==
    /\ \A s \in Kept(Session) : s.tenant = Tenant /\ (s.id # 0 => srv.device[s.id] = "consumed")
    /\ \A a \in Kept(Legacy) \cup Kept(Scoped) :
          /\ a.gen > 0 /\ a.revoked = 0 => Granted(a.key, a.digest, a.gen)
          /\ a.revoked > 0 => /\ srv.reg.revoked
                              /\ srv.reg.key = a.key
                              /\ srv.reg.gen = a.gen /\ a.gen = a.revoked + 1
          /\ a.ceiling # None => Granted(a.key, a.ceiling.body.digest, a.ceiling.body.gen)
    /\ \A run \in 1..MaxCommands :
          /\ \A i \in Kept(Intent(run)) :
                i.asked => /\ run \in DOMAIN srv.spawns
                           /\ srv.spawns[run].key = i.key
                           /\ i.active => srv.spawns[run].status = "active"
          /\ \A c \in Kept(Action(run)) : run \in DOMAIN srv.actions /\ srv.actions[run].ask = c.ask
          /\ Kept(Subagent(run)) # {} => run \in DOMAIN srv.spawns

\* An idempotency key stands for one request body, so the service can tell a
\* repetition from a new request, though the command that repeats it may be
\* another one, after a crash or beside the first: a stored request for authority
\* is sent as it was saved (_stored_or_new_ceiling_request), and every command
\* that takes up a spawn challenges, provisions and activates it with the key
\* its intent's record holds (GovernedSubagentRuntime.request, _activate).  Only
\* a keyring that changes under a consented file store can hide that record and
\* let a second key be minted.
OneBodyPerKey ==
    \A a, b \in sent :
        a[1] = b[1] => \/ a[2] = b[2]
                       \/ /\ a[1][1] \in {"spawn", "provision"}
                          /\ scene.consent /\ left.outages < scene.left.outages

\* A run or a resumed action that is reported as ended on the guard's receipt
\* ended on that of the very request its agent made, delivered by the service,
\* whichever command takes it up and whatever died in between (actions_resume,
\* Runner.run).  A receipt the agent itself returns is reported unchecked.
CompletedAsDelivered ==
    \A c \in completed :
        c.by = "guard" => /\ c.run \in DOMAIN srv.actions
                          /\ srv.actions[c.run] = [ask |-> c.ask, state |-> "delivered"]

\* What a detached run printed as pending can be taken up again, although the
\* process may die, or the keyring fail, at any point: whatever the resuming
\* command will need was stored before.  For an action that is its continuation;
\* for a subagent also the runtime's guard key, and the custody of a spawn that
\* was asked for (run_agent, subagents_resume).
AnnouncedCanResume ==
    \A name \in announced :
        /\ Kept(name) # {}
        /\ name = Subagent(name[2]) => /\ Kept(Guard(name[2])) # {}
                                       /\ \E i \in Kept(Intent(name[2])) : i.asked
=============================================================================
