------------------------ MODULE MCAuthorizationClient ------------------------
(***************************************************************************)
(* Two actors and a sealed task, on a thread-safe client with two owned    *)
(* transports and on an async client; three actors without a task, so that *)
(* one closes, one joins it and one is still inside a call, on a           *)
(* thread-safe client with a shared transport owned under both names and   *)
(* on an async client.                                                     *)
(***************************************************************************)
EXTENDS AuthorizationClient

CONSTANTS a1, a2, a3

Setup(sync, owns, shared, sealed, actors) ==
    [sync |-> sync, owns |-> owns, ownsApproval |-> TRUE, shared |-> shared,
     sealed |-> sealed, actors |-> actors]

MCSetups ==
    {Setup(TRUE, TRUE, FALSE, TRUE, {a1, a2}),
     Setup(FALSE, FALSE, TRUE, TRUE, {a1, a2}),
     Setup(TRUE, TRUE, TRUE, FALSE, {a1, a2, a3}),
     Setup(FALSE, TRUE, FALSE, FALSE, {a1, a2, a3})}
=============================================================================
