------------------------- MODULE IdentifierGenerator -------------------------
(***************************************************************************)
(* context.py's _MonotonicIdentifierGenerator: ULIDs given out by the      *)
(* processes of a program that forks, under a wall clock that may be set   *)
(* to anything.  new holds the generator's lock from the reading of the    *)
(* clock to the end, so a call is one step.                                *)
(*                                                                         *)
(* An identifier is its timestamp and its randomness; _encode_ulid writes  *)
(* them with a fixed number of digits, most significant first, and so      *)
(* keeps their order.  Each also carries the draw of random bytes it comes *)
(* from: two draws may give the same bytes, which the code leaves to       *)
(* chance, and a repetition within one draw would be the generator's own.  *)
(***************************************************************************)
EXTENDS Integers, Sequences

CONSTANTS
    Programs,                       \* processes, by pid
    MaxTimestamp, MaxRandomness,    \* the ULID's fields
    MaxWall                         \* bound of the model

ASSUME FieldsAssumption ==
    MaxTimestamp \in Nat /\ MaxRandomness \in Nat /\ MaxWall \in Nat

VARIABLES
    wall,       \* the wall clock, in milliseconds
    live,       \* the processes there are
    generator,  \* process -> the last timestamp and randomness, and their draw
    draws,      \* draws of random bytes so far
    issued      \* the identifiers given out, each with its process

identifierVars == <<wall, live, generator, draws, issued>>

\* __init__: nothing was given out yet.
Unseeded == [timestamp |-> -1, randomness |-> -1, draw |-> 0]

IdentifierInit ==
    /\ wall \in 0..MaxWall
    /\ live \in {{p} : p \in Programs}
    /\ generator = [p \in Programs |-> Unseeded]
    /\ draws = 0
    /\ issued = <<>>

\* The system's clock is set, forward or back (external).
SetClock ==
    /\ wall' \in 0..MaxWall
    /\ UNCHANGED <<live, generator, draws, issued>>

KeepsParentState(parent) == parent

\* _after_fork_child, before the child does anything else.
AfterForkChild(parent) == Unseeded

ForkProgram(p, child) ==
    /\ p \in live /\ child \in Programs \ live
    /\ live' = live \cup {child}
    /\ generator' = [generator EXCEPT ![child] = AfterForkChild(generator[p])]
    /\ UNCHANGED <<wall, draws, issued>>

-----------------------------------------------------------------------------
(* new *)

Exhausted(last) == last.timestamp = MaxTimestamp /\ last.randomness = MaxRandomness

\* The randomness overflows into the timestamp.
Successor(last) ==
    LET carry == last.randomness + 1 > MaxRandomness
    IN  [timestamp  |-> IF carry THEN last.timestamp + 1 ELSE last.timestamp,
         randomness |-> IF carry THEN 0 ELSE last.randomness + 1,
         draw       |-> last.draw]

Issue(p, next) ==
    /\ generator' = [generator EXCEPT ![p] = next]
    /\ issued' = Append(issued, [by |-> p, id |-> next])

\* new: fresh random bytes for a later millisecond, otherwise the successor.
\* A clock outside the field, failing random bytes and an exhausted generator
\* raise, and change nothing.
NewIdentifier(p) ==
    /\ p \in live
    /\ wall <= MaxTimestamp
    /\ IF wall > generator[p].timestamp
       THEN /\ draws' = draws + 1
            /\ \E r \in 0..MaxRandomness :
                  Issue(p, [timestamp |-> wall, randomness |-> r, draw |-> draws + 1])
       ELSE /\ ~Exhausted(generator[p])
            /\ Issue(p, Successor(generator[p]))
            /\ UNCHANGED draws
    /\ UNCHANGED <<wall, live>>

IdentifierNext ==
    \/ SetClock
    \/ \E p \in Programs : NewIdentifier(p) \/ \E child \in Programs : ForkProgram(p, child)

IdentifierSpec == IdentifierInit /\ [][IdentifierNext]_identifierVars

-----------------------------------------------------------------------------
Before(a, b) ==
    \/ a.timestamp < b.timestamp
    \/ a.timestamp = b.timestamp /\ a.randomness < b.randomness

\* What one process gives out increases, although its clock is set back and its
\* randomness overflows, and so does what comes from one draw of random bytes:
\* after a fork, parent and child never go on with the same sequence (new,
\* _after_fork_child).
IdentifiersIncrease ==
    \A i, j \in 1..Len(issued) :
        (i < j /\ (issued[i].by = issued[j].by \/ issued[i].id.draw = issued[j].id.draw))
            => Before(issued[i].id, issued[j].id)
=============================================================================
