------------------------------ MODULE BatchLog ------------------------------
(***************************************************************************)
(* What the evidence queue promises of its batches, whatever happens to    *)
(* the process: a batch is a log that grows at its end, its entries are    *)
(* acknowledged in order and for good, the record file and the checkpoint  *)
(* file of a batch tell the same story, and a batch whose last entry was   *)
(* discarded takes no more.  ReconcileJournal implements it.               *)
(***************************************************************************)
EXTENDS Integers, Sequences, FiniteSets

CONSTANTS Ids, Batches

VARIABLES
  log,           \* the entries, <<batch, position, id>>
  acknowledged,  \* the ids whose record says so
  prefix,        \* batch -> the acknowledged ids its checkpoint lists
  closed         \* the batches whose last entry was discarded

Size(b) == Cardinality({e \in log : e[1] = b})

Init ==
  /\ log = {}
  /\ acknowledged = {}
  /\ prefix = [b \in Batches |-> <<>>]
  /\ closed = {}

Enqueue(i, b) ==
  /\ b \notin closed
  /\ \A e \in log : e[3] # i
  /\ log' = log \cup {<<b, Size(b), i>>}
  /\ UNCHANGED <<acknowledged, prefix, closed>>

Acknowledge(i, b) ==
  /\ <<b, Len(prefix[b]), i>> \in log
  /\ b \in closed => Len(prefix[b]) < Size(b) - 1
  /\ acknowledged' = acknowledged \cup {i}
  /\ prefix' = [prefix EXCEPT ![b] = Append(@, i)]
  /\ UNCHANGED <<log, closed>>

Discard(b) ==
  /\ b \notin closed
  /\ Len(prefix[b]) < Size(b)
  /\ closed' = closed \cup {b}
  /\ UNCHANGED <<log, acknowledged, prefix>>

Next ==
  \E b \in Batches :
    \/ Discard(b)
    \/ \E i \in Ids : Enqueue(i, b) \/ Acknowledge(i, b)

Spec == Init /\ [][Next]_<<log, acknowledged, prefix, closed>>
=============================================================================
