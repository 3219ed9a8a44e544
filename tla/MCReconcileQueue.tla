-------------------------- MODULE MCReconcileQueue --------------------------
(***************************************************************************)
(* Instances of ReconcileQueue and of its retry schedule for TLC.          *)
(***************************************************************************)
EXTENDS ReconcileQueue, RetryDelay, TLC

\* The delivery policies and attempts MatchesReference tries.
MaxBase == 5
MaxMaximum == 12
MaxAttempt == 12

\* The exponential schedule with a base delay of one.
MCDelay == [n \in 1..MaxTotalAttempts |-> retry_delay_seconds(1, MaxDelay, n)]

\* Nothing depends on the identity of a record, a handle or a binding.
Symmetry ==
  Permutations(Ids) \cup Permutations(Handles) \cup Permutations(Bindings)

\* The bound on the state space: two handles share a batch and are asked for no
\* delay by the server, or one handle has two batches and stays within
\* the automatic attempts.
SecondHandleOrBatch ==
  \/ /\ \A i \in Ids : records[i].batch <= 1
     /\ \A h \in Handles : uploader[h].minimum = 0
  \/ /\ stops = 0 /\ \E h \in Handles : \A g \in Handles \ {h} : ~IsOpen(g)
     /\ \A i \in Ids : records[i].attempts <= MaxAttempts

\* Whatever policy the records of an empty queue will carry, the guard's
\* retryDelay agrees with the reference's schedule for every attempt, also where
\* the product no longer fits a duration and whatever the machine makes of it,
\* and the jitter it accepts neither shortens the delay nor takes it beyond the
\* policy's maximum.
MatchesReference ==
  (\A i \in Ids : ~Present(i)) =>
    \A base \in 1..MaxBase, n \in 1..MaxAttempt :
      \A maximum \in base..MaxMaximum :
        \A delay \in Delays(base, maximum, n) :
          /\ delay = retry_delay_seconds(base, maximum, n)
          /\ \A extra \in -1..MaxMaximum :
               JitterAccepted(delay, maximum, extra) =>
                 delay <= delay + extra /\ delay + extra <= maximum
=============================================================================
