------------------------- MODULE MCDeveloperWorkflow -------------------------
(***************************************************************************)
(* Two processes.  One scene each for signing in, for registering from an  *)
(* empty directory and beside another agent's workspace, for attaching to  *)
(* a web registration, for changing a registered agent's authority, and    *)
(* for its guarded runs with an action and with a subagent.                *)
(***************************************************************************)
EXTENDS DeveloperWorkflow, TLC

Symmetry == Permutations(Processes)

Empty == [n \in {} |-> None]
Held == [id |-> 0, tenant |-> Tenant]
Signed == Put(Empty, Session, Held)
Registration == [key |-> 0, digest |-> "d1", gen |-> 1, revoked |-> FALSE]
Registered == [Unregistered(0) EXCEPT !.digest = "d1", !.gen = 1]

Service(reg) ==
    [sessions |-> {Held}, device |-> Empty, reg |-> reg,
     granted |-> IF reg = None THEN {} ELSE {<<reg.key, reg.digest, reg.gen>>},
     claims |-> Empty, ceilings |-> Empty, runs |-> {}, actions |-> Empty, spawns |-> Empty]

Scene(ring, digest, reg, consent, bounds) ==
    [consent |-> consent, left |-> bounds,
     store |-> [ring |-> ring, file |-> Empty, mode |-> "up"],
     project |-> [digest |-> digest, workspace |-> None], srv |-> Service(reg)]

Bounds(menu, faults, crashes, outages, edits) ==
    [menu |-> menu, faults |-> faults, crashes |-> crashes, outages |-> outages, edits |-> edits]

MCScenes ==
    {Scene(Signed, "d1", None, TRUE, Bounds([login |-> 2, logout |-> 1], 1, 0, 1, 0)),
     Scene(Signed, None, None, FALSE,
           Bounds([init |-> 2, register |-> 2, add |-> 1], 1, 0, 1, 0)),
     Scene(Signed, "d1", None, FALSE, Bounds([add |-> 2], 0, 0, 0, 1)),
     Scene(Signed, "d1", [Registration EXCEPT !.key = None], FALSE,
           Bounds([attach |-> 2, register |-> 1], 2, 0, 0, 1)),
     Scene(Put(Signed, Legacy, Registered), "d1", Registration, TRUE,
           Bounds([register |-> 1, authority |-> 2, status |-> 1, revoke |-> 1], 1, 0, 0, 1)),
     Scene(Put(Signed, Legacy, Registered), "d1", Registration, TRUE,
           Bounds([register |-> 1, authority |-> 3], 1, 1, 0, 1)),
     Scene(Put(Signed, Legacy, Registered), "d1", Registration, FALSE,
           Bounds([run |-> 1, wait |-> 1, resume |-> 1, revoke |-> 1], 1, 1, 1, 0)),
     Scene(Put(Signed, Legacy, Registered), "d1", Registration, TRUE,
           Bounds([run |-> 1, subagent |-> 2], 1, 1, 1, 0))}
=============================================================================
