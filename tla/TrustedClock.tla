---------------------------- MODULE TrustedClock ----------------------------
(***************************************************************************)
(* The threads of a process that uses palonexus.identity, and the clock    *)
(* its calls read.  A call reads the clock once or more on its way; time   *)
(* passes between any two of its steps.                                    *)
(***************************************************************************)
EXTENDS Integers

CONSTANTS
    Threads,
    MaxTime,        \* model bound on the clock
    None

VARIABLE clock

Tick == clock < MaxTime /\ clock' = clock + 1
=============================================================================
