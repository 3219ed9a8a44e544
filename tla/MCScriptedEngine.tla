--------------------------- MODULE MCScriptedEngine ---------------------------
(* ScriptedEngine with one task, one thread and two requests that share a key. *)
EXTENDS ScriptedEngine, TLC

CONSTANTS k1, t1, s1, rv

MCRequests == {[key |-> k1, body |-> 1], [key |-> k1, body |-> 2]}

Outcome(kind, delayed) == [kind |-> kind, delayed |-> delayed]

MCScripts == {<<>>, <<Outcome("approval_required", TRUE), Outcome("approval_required", FALSE)>>,
              <<Outcome("allow", FALSE), Outcome("deny", FALSE)>>}

MCMaxCalls == t1 :> 2 @@ s1 :> 1

MCVerdicts == {<<"approved", rv>>, <<"expired", None>>}

MCEnqueued == {Outcome("concurrent.CancelledError", FALSE)}

\* For the exceptions a test may script, of which one never surfaces.
ErrorScripts == {<<Outcome(kind, FALSE)>> : kind \in ScriptedErrors}
=============================================================================
