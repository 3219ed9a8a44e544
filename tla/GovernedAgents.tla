--------------------------- MODULE GovernedAgents ---------------------------
(***************************************************************************)
(* integrations/langchain.py and integrations/deepagents.py: every model   *)
(* and tool handler of an agent is authorized before it starts, inside the *)
(* authority of the call whose handler made it.                            *)
(*                                                                         *)
(* A handler makes further calls from its own thread, from sibling threads *)
(* and tasks, and from tasks that outlive it.  All of them carry a copy of *)
(* the context variable _CURRENT_CALL, so a new call can find the frame of *)
(* any call whose handler was started with one.                            *)
(***************************************************************************)
EXTENDS Integers, FiniteSets, Sequences, Functions, TLC

CONSTANTS
    Calls,          \* 1 .. n, the handler invocations the frameworks make
    CallLimit,      \* bound: kind of agent -> how many of them
    NoFrame,        \* "no value": of _CURRENT_CALL, a deadline, a context
    Constructions,  \* what applications build
    Requests,       \* kind of agent -> what the framework passes to the hooks
    Callbacks,      \* the applications' cancellation callbacks
    Horizon,        \* _MAX_DEADLINE_HORIZON_SECONDS
    MaxMonotonic    \* bound: the monotonic clock

VARIABLES
    host,           \* the agent that was built, or NotBuilt
    monotonic,      \* time.monotonic()
    flags,          \* cancellation callbacks that answer True
    spawn,          \* subagent -> what the spawn runtime answers
    call            \* call -> its progress

agentVars == <<host, monotonic, flags, spawn, call>>

Unused == [pc |-> "unused"]
NotBuilt == [kind |-> "none"]
Builtins == {"task", "write_todos"}

AgentInit ==
    /\ host = NotBuilt
    /\ monotonic = 0
    /\ flags = {}
    /\ spawn = [s \in {"helper"} |-> "spawn_approval_required"]
    /\ call = [c \in Calls |-> Unused]

-----------------------------------------------------------------------------
(* Building an agent. *)

Names(tools) == {t.name : t \in tools}
DistinctNames(tools) == Cardinality(Names(tools)) = Cardinality(tools)
ByName(tools) == [n \in Names(tools) |-> CHOOSE t \in tools : t.name = n]

\* PaloNexusLangChainMiddleware.__init__.
Middleware(m) ==
    /\ m.clients # {}
    /\ \A n \in DOMAIN m.tools : m.tools[n].name = n

\* _with_agent_bindings: the model and exactly the tools that have a policy.
WithAgentBindings(m, b) ==
    /\ b.key \in DOMAIN m.modelPolicies
    /\ b.key \in DOMAIN m.models => m.models[b.key] = b.model
    /\ DistinctNames(b.tools)
    /\ Names(b.tools) = DOMAIN m.toolPolicies

\* create_authorized_agent, with authorized_middleware_stack.
CreateAuthorizedAgent ==
    /\ host = NotBuilt
    /\ \E b \in Constructions :
          /\ b.kind = "langchain"
          /\ Middleware(b.middleware) /\ WithAgentBindings(b.middleware, b)
          /\ "palonexus" \notin Range(b.stack)
          /\ host' = [kind |-> "langchain", middleware |->
                        [b.middleware EXCEPT !.models = (b.key :> b.model) @@ @,
                                             !.tools = ByName(b.tools)]]
    /\ UNCHANGED <<monotonic, flags, spawn, call>>

\* _checked_user_tools, and _checked_user_middleware of what it injects.
UserTools(tools) == DistinctNames(tools) /\ Names(tools) \cap Builtins = {}

\* create_authorized_deep_agent: each agent gets middleware bound to its name.
CreateAuthorizedDeepAgent ==
    /\ host = NotBuilt
    /\ \E b \in Constructions :
          LET names == Range(b.subagents) \cup {"general-purpose"} IN
          /\ b.kind = "deepagents"
          /\ Middleware(b.middleware)
          /\ UserTools(b.tools) /\ UserTools(b.injected)
          /\ "palonexus" \notin Range(b.stack)
          /\ IsInjective(b.subagents) /\ b.name \notin Range(b.subagents)
          /\ DOMAIN b.actors = {b.name} \cup names
          /\ host' = [kind |-> "deepagents", middleware |-> b.middleware,
                      actors |-> b.actors, subagents |-> names, spawns |-> b.spawns]
    /\ UNCHANGED <<monotonic, flags, spawn, call>>

-----------------------------------------------------------------------------
(* One call. *)

\* Values of _CURRENT_CALL a new call can find: _call_with_frame sets it for the
\* handler, and copies of that context live on after it is reset.
Frames == {NoFrame} \cup {c \in Calls : call[c].pc \in {"running", "ended"} /\ call[c].via = "allow"}

\* _request_context: the explicit context of the request, or the frame's.
RequestContext(r, frame) ==
    IF r.context # NoFrame \/ frame = NoFrame THEN r.context ELSE call[frame].context

\* _checked_deadline.
CheckedDeadline(d) ==
    d # NoFrame => d > monotonic /\ d - monotonic <= Horizon

\* _cancelled, of a callback or of _combined_cancelled.
Cancelled(callbacks) == callbacks \cap flags # {}

EarlierDeadline(d, e) ==
    IF d = NoFrame THEN e ELSE IF e = NoFrame THEN d ELSE IF d < e THEN d ELSE e

\* A nested call runs under the tighter deadline and under both cancellations.
OwnDeadlineFirst(context, frame) ==
    IF frame = NoFrame THEN context
    ELSE [context EXCEPT
            !.deadline = IF @ = NoFrame THEN call[frame].context.deadline ELSE @,
            !.cancelled = @ \cup call[frame].context.cancelled]
Nested(context, frame) ==
    IF frame = NoFrame THEN context
    ELSE [context EXCEPT
            !.deadline = EarlierDeadline(call[frame].context.deadline, @),
            !.cancelled = @ \cup call[frame].context.cancelled]

Continues(context, frame) ==
    frame # NoFrame =>
        \A f \in {"task", "actor", "key"} : context[f] = call[frame].context[f]

SetCall(c, progress) == call' = [call EXCEPT ![c] = progress]
Raised == [pc |-> "raised"]

\* _prepare: the attempt, its context and its frame, or an error.
PrepareCall(c, r, frame, mode, name, policies, bound) ==
    LET context == RequestContext(r, frame)
    IN  IF /\ bound /\ context # NoFrame
           /\ CheckedDeadline(context.deadline)
           /\ name \in DOMAIN policies
           /\ Continues(context, frame)
        THEN SetCall(c, [pc |-> "prepared", mode |-> mode, causation |-> frame,
                     context |-> Nested(context, frame)])
        ELSE SetCall(c, Raised)

\* A hook of an agent of the kind is entered.
Received(kind, hook) ==
    IF host.kind # kind THEN {} ELSE {r \in Requests[kind] : r.hook = hook}

Begins(c) ==
    /\ \A d \in Calls : (call[d] = Unused) => c <= d
    /\ call[c] = Unused /\ c <= CallLimit[host.kind]
    /\ UNCHANGED <<host, monotonic, flags, spawn>>

\* _tool_name, and the exact tool object that was bound under the name.
BoundTool(m, r) ==
    /\ r.tool.name = r.name
    /\ r.name \in DOMAIN m.tools /\ m.tools[r.name] = r.tool

ToolCall(c, r, frame, mode, m) ==
    PrepareCall(c, r, frame, mode, r.name, m.toolPolicies, BoundTool(m, r))

\* The model the run's policy key is bound to.
ModelCall(c, r, frame, mode, m) ==
    LET context == RequestContext(r, frame)
        key     == IF context = NoFrame THEN NoFrame ELSE context.key
    IN  PrepareCall(c, r, frame, mode, key, m.modelPolicies,
                key \in DOMAIN m.models /\ m.models[key] = r.model)

WrapToolCall(c) ==
    \E r \in Received("langchain", "tool"), frame \in Frames :
        /\ Begins(c)
        /\ ToolCall(c, r, frame, "sync", host.middleware)

AWrapToolCall(c) ==
    \E r \in Received("langchain", "tool"), frame \in Frames :
        /\ Begins(c)
        /\ ToolCall(c, r, frame, "async", host.middleware)

WrapModelCall(c) ==
    \E r \in Received("langchain", "model"), frame \in Frames :
        /\ Begins(c)
        /\ ModelCall(c, r, frame, "sync", host.middleware)

AWrapModelCall(c) ==
    \E r \in Received("langchain", "model"), frame \in Frames :
        /\ Begins(c)
        /\ ModelCall(c, r, frame, "async", host.middleware)

-----------------------------------------------------------------------------
(* Authorization, and the handler. *)

\* _authorize and _aauthorize up to the client call: a client of the kind, no
\* cancellation, and a deadline that is still ahead.
Ask(c) ==
    /\ call[c].pc = "prepared"
    /\ LET p == call[c]
       IN  IF /\ p.mode \in host.middleware.clients
              /\ ~Cancelled(p.context.cancelled)
              /\ CheckedDeadline(p.context.deadline)
           THEN SetCall(c, [pc |-> "asking", causation |-> p.causation, context |-> p.context,
                        asked |-> [at |-> monotonic, flags |-> flags]])
           ELSE SetCall(c, Raised)

AuthorizeCall(c) ==
    /\ call[c].pc = "prepared" /\ call[c].mode = "sync"
    /\ Ask(c)
    /\ UNCHANGED <<host, monotonic, flags, spawn>>

AAuthorizeCall(c) ==
    /\ call[c].pc = "prepared" /\ call[c].mode = "async"
    /\ Ask(c)
    /\ UNCHANGED <<host, monotonic, flags, spawn>>

\* What the client can return: a decision on some request, or no decision.
Results(c) == [outcome : {"allow", "other"}, request : Calls] \cup {NoFrame}

\* The decision is an allow of exactly this attempt.
AnyAllow(c, result) == result # NoFrame /\ result.outcome = "allow"
AllowsAttempt(c, result) ==
    result # NoFrame /\ result.outcome = "allow" /\ result.request = c

\* _call_with_frame and _acall_with_frame run the handler under its frame.
CallWithFrame(c, result) ==
    [pc |-> "running", via |-> "allow", request |-> result.request,
     causation |-> call[c].causation, context |-> call[c].context, asked |-> call[c].asked]

ClientReturns(c) ==
    /\ call[c].pc = "asking"
    /\ \E result \in Results(c) :
          SetCall(c, IF AllowsAttempt(c, result) THEN CallWithFrame(c, result) ELSE Raised)
    /\ UNCHANGED <<host, monotonic, flags, spawn>>

\* The client raises, and the error is raised in its LangChain form.
RaiseClientError(c) ==
    /\ call[c].pc = "asking"
    /\ SetCall(c, Raised)
    /\ UNCHANGED <<host, monotonic, flags, spawn>>

\* The handler returns or raises.
HandlerEnds(c) ==
    /\ call[c].pc = "running"
    /\ SetCall(c, [call[c] EXCEPT !.pc = "ended"])
    /\ UNCHANGED <<host, monotonic, flags, spawn>>

-----------------------------------------------------------------------------
(* Deep agents. *)

\* _runtime_context, _agent_name and _validate: the run's context names the same
\* accountable actors, and the actor of the agent this middleware is bound to.
Validate(r) ==
    /\ r.context # NoFrame
    /\ r.observed \in {NoFrame, r.agent}
    /\ r.actors = host.actors
    /\ r.agent \in DOMAIN host.actors
    /\ r.context.actor = host.actors[r.agent]

\* _orchestration_tool: the built-in tools must be well formed.
Orchestrated(r) ==
    /\ r.tool.name = r.name
    /\ r.name = "task" => r.subagent \in host.subagents

\* with_tool_binding: the host's own task tool, under a policy of its own.
WithToolBinding(m, r) ==
    [m EXCEPT !.tools = (r.name :> r.tool) @@ @,
              !.toolPolicies = (r.name :> <<"deep-agent", r.subagent>>) @@ @]

CanBind(m, r) ==
    /\ r.name \in DOMAIN m.tools => m.tools[r.name] = r.tool
    /\ r.name \in DOMAIN m.toolPolicies => m.toolPolicies[r.name] = <<"deep-agent", r.subagent>>

DeepToolCall(c, r, frame, mode) ==
    IF ~Validate(r) \/ ~Orchestrated(r) THEN SetCall(c, Raised)
    ELSE CASE r.name = "write_todos" ->
                  SetCall(c, [pc |-> "running", via |-> "todos"])
           [] r.name = "task" /\ host.spawns ->
                  SetCall(c, [pc |-> "spawning", subagent |-> r.subagent])
           [] r.name = "task" /\ ~host.spawns ->
                  IF CanBind(host.middleware, r)
                  THEN ToolCall(c, r, frame, mode, WithToolBinding(host.middleware, r))
                  ELSE SetCall(c, Raised)
           [] OTHER -> ToolCall(c, r, frame, mode, host.middleware)

DeepWrapToolCall(c) ==
    \E r \in Received("deepagents", "tool"), frame \in Frames :
        /\ Begins(c)
        /\ DeepToolCall(c, r, frame, "sync")

ADeepWrapToolCall(c) ==
    \E r \in Received("deepagents", "tool"), frame \in Frames :
        /\ Begins(c)
        /\ DeepToolCall(c, r, frame, "async")

DeepWrapModelCall(c) ==
    \E r \in Received("deepagents", "model"), frame \in Frames :
        /\ Begins(c)
        /\ IF Validate(r) THEN ModelCall(c, r, frame, "sync", host.middleware)
                          ELSE SetCall(c, Raised)

ADeepWrapModelCall(c) ==
    \E r \in Received("deepagents", "model"), frame \in Frames :
        /\ Begins(c)
        /\ IF Validate(r) THEN ModelCall(c, r, frame, "async", host.middleware)
                          ELSE SetCall(c, Raised)

\* _checked_spawn_outcome accepts these answers of the runtime and no others.
SpawnOutcome(status) == status \in {"spawn_approval_required", "spawn_denied", "active"}

\* _request_spawn, and what the hook does with the outcome: the graph is
\* interrupted, the model is told, or the handler runs without a frame.
RequestSpawn(c) ==
    /\ call[c].pc = "spawning"
    /\ \E status \in {spawn[call[c].subagent], "malformed"} :
          SetCall(c, CASE ~SpawnOutcome(status) -> Raised
                   [] status = "spawn_approval_required" -> [call[c] EXCEPT !.pc = "interrupted"]
                   [] status = "spawn_denied" -> [pc |-> "answered"]
                   [] status = "active" -> [pc |-> "running", via |-> "spawn",
                                            subagent |-> call[c].subagent])
    /\ UNCHANGED <<host, monotonic, flags, spawn>>

\* The interrupted graph is resumed: the hook runs again and asks again.
ResumeSpawn(c) ==
    /\ call[c].pc = "interrupted"
    /\ SetCall(c, [call[c] EXCEPT !.pc = "spawning"])
    /\ UNCHANGED <<host, monotonic, flags, spawn>>

-----------------------------------------------------------------------------
(* The environment. *)

MonotonicTick ==
    /\ monotonic < MaxMonotonic
    /\ monotonic' = monotonic + 1
    /\ UNCHANGED <<host, flags, spawn, call>>

Cancel(callback) ==
    /\ callback \notin flags
    /\ flags' = flags \cup {callback}
    /\ UNCHANGED <<host, monotonic, spawn, call>>

SpawnDecided(s) ==
    /\ host.kind = "deepagents" /\ host.spawns
    /\ spawn[s] = "spawn_approval_required"
    /\ \E status \in {"spawn_denied", "active"} : spawn' = [spawn EXCEPT ![s] = status]
    /\ UNCHANGED <<host, monotonic, flags, call>>

AgentNext ==
    \/ CreateAuthorizedAgent \/ CreateAuthorizedDeepAgent
    \/ \E c \in Calls :
          \/ WrapToolCall(c) \/ AWrapToolCall(c) \/ WrapModelCall(c) \/ AWrapModelCall(c)
          \/ DeepWrapToolCall(c) \/ ADeepWrapToolCall(c)
          \/ DeepWrapModelCall(c) \/ ADeepWrapModelCall(c)
          \/ AuthorizeCall(c) \/ AAuthorizeCall(c)
          \/ ClientReturns(c) \/ RaiseClientError(c) \/ HandlerEnds(c)
          \/ RequestSpawn(c) \/ ResumeSpawn(c)
    \/ MonotonicTick
    \/ \E callback \in Callbacks : Cancel(callback)
    \/ \E s \in DOMAIN spawn : SpawnDecided(s)

-----------------------------------------------------------------------------
(* Properties. *)

\* The calls in whose handlers a call was made, however deep.
Callers(c) ==
    LET above[d \in Calls] ==
            IF call[d].causation = NoFrame THEN {}
            ELSE {call[d].causation} \cup above[call[d].causation]
    IN  above[c]

\* A handler runs only on an allow of its own attempt, and that attempt was put
\* to the client while no enclosing call, at any depth, was past its deadline or
\* cancelled, for the same task and actor: a nested call cannot outlast or
\* escape its caller by bringing a context of its own, nor by running in a task
\* that outlives the caller.  A subagent's handler runs only once the spawn is
\* active (langchain.py _prepare, _authorize; deepagents.py _request_spawn).
AuthorizedWithinCaller ==
    \A c \in Calls : call[c].pc \in {"running", "ended"} =>
        CASE call[c].via = "allow" ->
               /\ call[c].request = c
               /\ \A a \in Callers(c) :
                     LET outer == call[a].context IN
                     /\ outer.deadline # NoFrame => call[c].asked.at < outer.deadline
                     /\ call[c].asked.flags \cap outer.cancelled = {}
                     /\ call[c].context.task = outer.task
                     /\ call[c].context.actor = outer.actor
          [] call[c].via = "spawn" -> spawn[call[c].subagent] = "active"
          [] OTHER -> TRUE
=============================================================================
