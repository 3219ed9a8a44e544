--------------------------- MODULE ApprovalService ---------------------------
(***************************************************************************)
(* What the approval endpoints promise the SDK: an approval starts pending *)
(* with a fixed expiry, is resolved once, and is granted only before that  *)
(* expiry.  The promise is what approvals.py checks of every record it is  *)
(* given; ScriptedEngine is shown to implement it and GovernedGraph uses   *)
(* it as its server.                                                       *)
(***************************************************************************)
EXTENDS Integers

CONSTANTS ApprovalIds, None

VARIABLES clock,  \* the service's time
          book    \* approval id -> its record, or None

serviceVars == <<clock, book>>

\* ApprovalStatus
Terminal == {"approved", "denied", "expired", "cancelled"}

Pending(t, e) == [status |-> "pending", requested |-> t, expires |-> e, decided |-> None]

ServiceInit == clock \in Nat /\ book = [a \in ApprovalIds |-> None]

Advance == clock' > clock /\ UNCHANGED book

\* A pending record is created with an expiry after the moment it is requested.
\* That moment may lie a little back: the request is dated before it commits.
Create(a) ==
    /\ book[a] = None
    /\ book'[a] # None
    /\ book'[a].requested <= clock
    /\ book'[a].requested < book'[a].expires
    /\ book' = [book EXCEPT ![a] = Pending(book'[a].requested, book'[a].expires)]
    /\ UNCHANGED clock

\* A verdict is recorded strictly before the expiry; expiry itself is dated no
\* earlier than the expiry, whenever the service gets to record it.
Resolve(a) ==
    /\ book[a] # None
    /\ book[a].status = "pending"
    /\ LET s == book'[a].status  t == book'[a].decided IN
        /\ s \in Terminal
        /\ IF s = "expired" THEN t >= book[a].expires
           ELSE t = clock /\ clock < book[a].expires
        /\ book' = [book EXCEPT ![a].status = s, ![a].decided = t]
    /\ UNCHANGED clock

ServiceNext == Advance \/ \E a \in ApprovalIds : Create(a) \/ Resolve(a)

ServiceSpec == ServiceInit /\ [][ServiceNext]_serviceVars
=============================================================================
