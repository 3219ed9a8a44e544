----------------------------- MODULE RetryDelay -----------------------------
(***************************************************************************)
(* Exponential backoff of the evidence queue: the guard's retryDelay       *)
(* (queue.go) and the reference's retry_delay_seconds (reconciliation.py). *)
(* A duration is a signed integer of Width bits (64 in the code, where its *)
(* unit is the nanosecond); a larger product does not fit.                 *)
(***************************************************************************)
EXTENDS Integers

CONSTANT Width

ASSUME WidthAssumption == Width \in Nat /\ Width > 2

Least(a, b) == IF a <= b THEN a ELSE b

\* reconciliation.py: exact integers, the exponent capped at 63.
retry_delay_seconds(base, maximum, n) ==
  Least(base * 2^Least(n - 1, Width - 1), maximum)

\* What converting the float64 value x to a duration may give: an unspecified
\* one of the extremes when x is out of range (the least on amd64, the greatest
\* on arm64).
Converted(x) ==
  IF x < 2^(Width - 1) THEN {x} ELSE {-(2^(Width - 1)), 2^(Width - 1) - 1}

\* Variant: only an excessive delay is cut down, not a negative one.
ClampedAbove(delay, maximum) == IF delay > maximum THEN maximum ELSE delay

Clamped(delay, maximum) ==
  IF delay > maximum \/ delay < 0 THEN maximum ELSE delay

\* The delays retryDelay may compute before jitter, the exponent capped at 62.
Delays(base, maximum, n) ==
  {Clamped(x, maximum) : x \in Converted(base * 2^Least(n - 1, Width - 2))}

\* The jitter retryDelay accepts: any other makes it fail.
JitterAccepted(delay, maximum, extra) ==
  0 <= extra /\ extra <= maximum - delay
=============================================================================
