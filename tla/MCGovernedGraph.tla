-------------------------- MODULE MCGovernedGraph --------------------------
(***************************************************************************)
(* The framework integrations, in two scenes: a synchronous and an         *)
(* asynchronous graph executing one scope or two; and up to three nested   *)
(* or concurrent calls of an agent.                                        *)
(***************************************************************************)
EXTENDS GovernedGraph, GovernedAgents

VARIABLE scene

-----------------------------------------------------------------------------
Tool(name, object) == [name |-> name, object |-> object]

MiddlewareOf(clients, tools) ==
    [clients |-> clients, toolPolicies |-> [n \in {"search"} |-> "records"],
     modelPolicies |-> [n \in {"chat"} |-> "models"], tools |-> tools,
     models |-> [n \in {"chat"} |-> "model"]]

BoundTools == [n \in {"search"} |-> Tool("search", 1)]

LangChain(clients, tools, stack) ==
    [kind |-> "langchain", middleware |-> MiddlewareOf(clients, BoundTools), key |-> "chat",
     model |-> "model", tools |-> tools, stack |-> stack]

Actors3 == [n \in {"main", "helper", "general-purpose"} |-> "actor"]

DeepAgents(subagents, spawns) ==
    [kind |-> "deepagents",
     middleware |-> MiddlewareOf({"sync", "async"}, ("task" :> Tool("task", 1)) @@ BoundTools),
     tools |-> {Tool("search", 1)}, injected |-> {}, stack |-> <<"host">>, name |-> "main",
     subagents |-> subagents, actors |-> Actors3, spawns |-> spawns]

\* An agent without an async client, one with a tool that lacks a policy, one
\* with the middleware twice, one without a client, and deep agents, one of
\* them with actors that do not match its subagents.
MCConstructions ==
    {LangChain({"sync"}, {Tool("search", 1)}, <<"host">>),
     LangChain({"sync", "async"}, {Tool("search", 1), Tool("write", 1)}, << >>),
     LangChain({"sync", "async"}, {Tool("search", 1)}, <<"palonexus">>),
     LangChain({}, {Tool("search", 1)}, << >>),
     DeepAgents(<<"helper">>, TRUE), DeepAgents(<<"helper">>, FALSE), DeepAgents(<< >>, TRUE)}

Context(task, deadline, callbacks) ==
    [task |-> task, actor |-> "actor", key |-> "chat", deadline |-> deadline,
     cancelled |-> callbacks]

\* A short run, a run that goes on without end, and another task.
Contexts ==
    {Context("t", 1, {"f1"}), Context("t", NoFrame, {}), Context("u", 2, {})}

HookRequest(hook, tool, context) ==
    [hook |-> hook, name |-> tool.name, tool |-> tool, model |-> "model", context |-> context]

FromSubagent(r, observed, actors, subagent) ==
    r @@ [agent |-> "helper", observed |-> observed, actors |-> actors, subagent |-> subagent]

MCCallLimit == [langchain |-> 3, deepagents |-> 2]

MCRequests ==
    [langchain |-> {HookRequest("tool", Tool("search", 1), context) : context \in Contexts \cup {NoFrame}}
                   \cup {HookRequest("tool", Tool("search", 2), Context("t", 2, {})),
                         HookRequest("model", Tool("", 1), Context("t", 2, {}))},
     deepagents |-> {FromSubagent(HookRequest("tool", Tool(name, 1), Context("t", 2, {})),
                                  "helper", Actors3, "helper") : name \in {"search", "task", "write_todos"}}
                    \cup {FromSubagent(HookRequest("tool", Tool("task", 1), Context("t", 1, {"f1"})),
                                       NoFrame, Actors3, subagent) : subagent \in {"helper", "another"}}
                    \cup {FromSubagent(HookRequest("tool", Tool("task", 2), Context("t", 2, {})),
                                       "helper", Actors3, "helper")}
                    \cup {FromSubagent(HookRequest("model", Tool("", 1), Context("t", 2, {})),
                                       observed, Actors3, "helper") : observed \in {NoFrame, "main"}}]

-----------------------------------------------------------------------------
SceneInit ==
    /\ Init /\ AgentInit
    /\ scene \in {"graph", "agent"}
    /\ scene = "agent" => resolution = 1 /\ history = {Checkpoint(CHOOSE s \in Scopes : TRUE, None)}

SceneNext ==
    \/ scene = "graph" /\ Next /\ UNCHANGED <<agentVars, scene>>
    \/ scene = "agent" /\ AgentNext /\ UNCHANGED <<vars, scene>>

SceneSpec == SceneInit /\ [][SceneNext]_<<vars, agentVars, scene>>
=============================================================================
