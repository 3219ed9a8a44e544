-------------------------- MODULE IdentifierProofs --------------------------
(***************************************************************************)
(* The identifiers of IdentifierGenerator increase for any number of       *)
(* processes, any forks, any settings of the clock and any field sizes.    *)
(* The argument: a generator holds the last identifier of its process, and *)
(* no two generators hold identifiers of one draw.                         *)
(***************************************************************************)
EXTENDS IdentifierGenerator, SequenceTheorems, TLAPS

Identifier == [timestamp : Int, randomness : Int, draw : Nat]

IdentifierTypeOK ==
    /\ wall \in 0..MaxWall
    /\ live \subseteq Programs
    /\ generator \in [Programs -> Identifier]
    /\ draws \in Nat
    /\ issued \in Seq([by : Programs, id : Identifier])

\* A generator that has no draw has given out nothing, and no two share one.
DrawsAreOwned ==
    /\ \A p \in Programs : /\ generator[p].draw <= draws
                           /\ generator[p].draw = 0 => generator[p].timestamp = -1
    /\ \A p, q \in Programs :
          (p # q /\ generator[p].draw = generator[q].draw) => generator[p].draw = 0

\* What was given out stays behind the generator of its process, and only that
\* generator can go on with its draw.
IssuedIsBehind ==
    \A i \in 1..Len(issued) :
        /\ issued[i].by \in live
        /\ issued[i].id.draw \in 1..draws
        /\ ~Before(generator[issued[i].by], issued[i].id)
        /\ \A p \in Programs : issued[i].id.draw = generator[p].draw => issued[i].by = p

IdentifierInv ==
    IdentifierTypeOK /\ DrawsAreOwned /\ IssuedIsBehind /\ IdentifiersIncrease

-----------------------------------------------------------------------------
(* The invariant holds before anything is given out (__init__). *)
LEMMA IdentifierInitially == IdentifierInit => IdentifierInv
<1> SUFFICES ASSUME IdentifierInit PROVE IdentifierInv
  OBVIOUS
<1> USE FieldsAssumption DEF IdentifierInit, Unseeded
<1>1. IdentifierTypeOK
  BY DEF IdentifierTypeOK, Identifier
<1>2. DrawsAreOwned
  BY DEF DrawsAreOwned
<1>3. Len(issued) = 0
  OBVIOUS
<1>4. IssuedIsBehind /\ IdentifiersIncrease
  BY <1>3 DEF IssuedIsBehind, IdentifiersIncrease
<1> QED
  BY <1>1, <1>2, <1>4 DEF IdentifierInv

(* Giving out an identifier that comes after the last one of its process,  *)
(* from the same draw or from a new one, keeps the invariant (new).        *)
LEMMA IssueKeeps ==
    ASSUME IdentifierInv, NEW p \in live, NEW next \in Identifier,
           Before(generator[p], next), Issue(p, next),
           wall' \in 0..MaxWall, live' = live, draws' \in {draws, draws + 1},
           \/ draws' = draws /\ next.draw = generator[p].draw /\ next.draw # 0
           \/ draws' = draws + 1 /\ next.draw = draws'
    PROVE  IdentifierInv'
<1> USE FieldsAssumption
<1>0. /\ p \in Programs
      /\ wall' \in 0..MaxWall /\ live \subseteq Programs /\ draws \in Nat /\ draws' \in Nat
      /\ generator \in [Programs -> Identifier]
      /\ issued \in Seq([by : Programs, id : Identifier])
  BY DEF IdentifierInv, IdentifierTypeOK
<1>1. /\ generator' = [generator EXCEPT ![p] = next]
      /\ issued' = Append(issued, [by |-> p, id |-> next])
  BY DEF Issue
<1>2. /\ generator'[p] = next
      /\ \A q \in Programs : q # p => generator'[q] = generator[q]
      /\ \A q \in Programs : generator[q] \in Identifier /\ generator'[q] \in Identifier
  BY <1>0, <1>1
<1>3. [by |-> p, id |-> next] \in [by : Programs, id : Identifier]
  BY <1>0
<1>4. /\ issued' \in Seq([by : Programs, id : Identifier])
      /\ Len(issued) \in Nat /\ Len(issued') = Len(issued) + 1
      /\ \A i \in 1..Len(issued) : issued'[i] = issued[i]
      /\ issued'[Len(issued) + 1] = [by |-> p, id |-> next]
  BY <1>0, <1>1, <1>3
<1>5. ASSUME NEW i \in 1..Len(issued)
      PROVE  issued[i].by \in Programs /\ issued[i].id \in Identifier
  <2>1. issued[i] \in [by : Programs, id : Identifier]
    BY <1>0, ElementOfSeq
  <2> QED
    BY <2>1
<1>6. next.draw # 0 /\ next.draw <= draws' /\ draws <= draws'
  BY <1>0, <1>2 DEF IdentifierInv, DrawsAreOwned, Identifier
<1>7. \A q \in Programs : q # p => generator[q].draw # next.draw
  BY <1>0, <1>2 DEF IdentifierInv, DrawsAreOwned, Identifier
<1>8. ASSUME NEW i \in 1..Len(issued), issued[i].id.draw = next.draw
      PROVE  issued[i].by = p
  <2>1. /\ issued[i].id.draw \in 1..draws
        /\ issued[i].id.draw = generator[p].draw => issued[i].by = p
    BY <1>0 DEF IdentifierInv, IssuedIsBehind
  <2>2. next.draw # draws + 1
    BY <1>0, <1>8, <2>1
  <2> QED
    BY <1>8, <2>1, <2>2
<1>9. ASSUME NEW i \in 1..Len(issued), issued[i].by = p
      PROVE  Before(issued[i].id, next)
  <2>1. ~Before(generator[p], issued[i].id)
    BY <1>9 DEF IdentifierInv, IssuedIsBehind
  <2>2. /\ generator[p].timestamp \in Int /\ generator[p].randomness \in Int
        /\ next.timestamp \in Int /\ next.randomness \in Int
        /\ issued[i].id.timestamp \in Int /\ issued[i].id.randomness \in Int
    BY <1>0, <1>2, <1>5 DEF Identifier
  <2> QED
    BY <2>1, <2>2 DEF Before
<1>10. IdentifierTypeOK'
  BY <1>0, <1>1, <1>4 DEF IdentifierTypeOK
<1>11. DrawsAreOwned'
  <2>1. \A q \in Programs : /\ generator'[q].draw <= draws'
                            /\ generator'[q].draw = 0 => generator'[q].timestamp = -1
    <3> TAKE q \in Programs
    <3>1. CASE q = p
      BY <1>2, <1>6, <3>1
    <3>2. CASE q # p
      <4>1. /\ generator[q].draw <= draws /\ generator[q].draw \in Nat
            /\ generator[q].draw = 0 => generator[q].timestamp = -1
        BY <1>2 DEF IdentifierInv, DrawsAreOwned, Identifier
      <4> QED
        BY <1>0, <1>2, <1>6, <3>2, <4>1
    <3> QED
      BY <3>1, <3>2
  <2>2. \A q, r \in Programs :
           (q # r /\ generator'[q].draw = generator'[r].draw) => generator'[q].draw = 0
    BY <1>2, <1>7 DEF IdentifierInv, DrawsAreOwned
  <2> QED
    BY <2>1, <2>2 DEF DrawsAreOwned
<1>12. IssuedIsBehind'
  <2> SUFFICES ASSUME NEW i \in 1..Len(issued')
               PROVE  /\ issued'[i].by \in live'
                      /\ issued'[i].id.draw \in 1..draws'
                      /\ ~Before(generator'[issued'[i].by], issued'[i].id)
                      /\ \A q \in Programs :
                            issued'[i].id.draw = generator'[q].draw => issued'[i].by = q
    BY DEF IssuedIsBehind, Before
  <2>1. CASE i = Len(issued) + 1
    <3>1. issued'[i].by = p /\ issued'[i].id = next
      BY <1>4, <2>1
    <3>2. next.timestamp \in Int /\ next.randomness \in Int /\ next.draw \in Nat
      BY DEF Identifier
    <3>3. ~Before(next, next)
      BY <3>2 DEF Before
    <3> QED
      BY <3>1, <3>2, <3>3, <1>0, <1>2, <1>6, <1>7
  <2>2. CASE i \in 1..Len(issued)
    <3>1. issued'[i] = issued[i]
      BY <1>4, <2>2
    <3>2. /\ issued[i].by \in live /\ issued[i].id.draw \in 1..draws
          /\ ~Before(generator[issued[i].by], issued[i].id)
          /\ \A q \in Programs : issued[i].id.draw = generator[q].draw => issued[i].by = q
      BY <2>2 DEF IdentifierInv, IssuedIsBehind
    <3>3. ~Before(generator'[issued[i].by], issued[i].id)
      <4>1. CASE issued[i].by = p
        BY <4>1, <1>2, <1>5, <1>9, <2>2 DEF Before, Identifier
      <4>2. CASE issued[i].by # p
        BY <4>2, <1>2, <1>5, <2>2, <3>2
      <4> QED
        BY <4>1, <4>2
    <3>4. issued[i].id.draw \in 1..draws'
      BY <1>0, <1>6, <3>2
    <3>5. \A q \in Programs : issued[i].id.draw = generator'[q].draw => issued[i].by = q
      BY <1>2, <1>8, <2>2, <3>2
    <3> QED
      BY <3>1, <3>2, <3>3, <3>4, <3>5
  <2> QED
    BY <1>4, <2>1, <2>2
<1>13. IdentifiersIncrease'
  <2> SUFFICES ASSUME NEW i \in 1..Len(issued'), NEW j \in 1..Len(issued'), i < j,
                      \/ issued'[i].by = issued'[j].by
                      \/ issued'[i].id.draw = issued'[j].id.draw
               PROVE  Before(issued'[i].id, issued'[j].id)
    BY DEF IdentifiersIncrease, Before
  <2>1. i \in 1..Len(issued) /\ issued'[i] = issued[i]
    BY <1>4
  <2>2. CASE j \in 1..Len(issued)
    <3>1. issued'[j] = issued[j]
      BY <1>4, <2>2
    <3> QED
      BY <2>1, <2>2, <3>1 DEF IdentifierInv, IdentifiersIncrease
  <2>3. CASE j = Len(issued) + 1
    <3>1. issued'[j].by = p /\ issued'[j].id = next
      BY <1>4, <2>3
    <3>2. issued[i].by = p
      BY <1>8, <2>1, <3>1
    <3> QED
      BY <1>9, <2>1, <3>1, <3>2
  <2>4. j \in 1..Len(issued) \/ j = Len(issued) + 1
    <3>1. Len(issued) \in Nat /\ Len(issued') = Len(issued) + 1
      BY <1>4
    <3>2. j \in 1..(Len(issued) + 1)
      BY <3>1
    <3> QED
      BY <3>1, <3>2
  <2> QED
    BY <2>2, <2>3, <2>4
<1> QED
  BY <1>10, <1>11, <1>12, <1>13 DEF IdentifierInv

(* Every step keeps the invariant. *)
LEMMA IdentifierStep ==
    IdentifierInv /\ [IdentifierNext]_identifierVars => IdentifierInv'
<1> SUFFICES ASSUME IdentifierInv, [IdentifierNext]_identifierVars
             PROVE  IdentifierInv'
  OBVIOUS
<1> USE FieldsAssumption
<1>1. /\ wall \in 0..MaxWall /\ live \subseteq Programs /\ draws \in Nat
      /\ generator \in [Programs -> Identifier]
  BY DEF IdentifierInv, IdentifierTypeOK
<1>2. CASE SetClock
  BY <1>2 DEF SetClock, IdentifierInv, IdentifierTypeOK, DrawsAreOwned, IssuedIsBehind,
              IdentifiersIncrease, Before
<1>3. ASSUME NEW p \in Programs, NEW child \in Programs, ForkProgram(p, child)
      PROVE  IdentifierInv'
  <2>1. /\ child \notin live /\ live' = live \cup {child} /\ UNCHANGED <<wall, draws, issued>>
        /\ generator' = [generator EXCEPT ![child] = Unseeded]
    BY <1>3 DEF ForkProgram, AfterForkChild
  <2>2. Unseeded \in Identifier /\ Unseeded.draw = 0 /\ Unseeded.timestamp = -1
    BY DEF Unseeded, Identifier
  <2>3. /\ generator'[child] = Unseeded
        /\ \A q \in Programs : q # child => generator'[q] = generator[q]
    BY <1>1, <2>1
  <2>4. IdentifierTypeOK'
    BY <1>1, <2>1, <2>2 DEF IdentifierInv, IdentifierTypeOK
  <2>5. DrawsAreOwned'
    <3>1. \A q \in Programs : /\ generator'[q].draw <= draws'
                              /\ generator'[q].draw = 0 => generator'[q].timestamp = -1
      BY <1>1, <2>1, <2>2, <2>3 DEF IdentifierInv, DrawsAreOwned
    <3>2. \A q, r \in Programs :
             (q # r /\ generator'[q].draw = generator'[r].draw) => generator'[q].draw = 0
      BY <2>2, <2>3 DEF IdentifierInv, DrawsAreOwned
    <3> QED
      BY <3>1, <3>2 DEF DrawsAreOwned
  <2>6. IssuedIsBehind'
    <3> SUFFICES ASSUME NEW i \in 1..Len(issued)
                 PROVE  /\ issued[i].by \in live'
                        /\ issued[i].id.draw \in 1..draws
                        /\ ~Before(generator'[issued[i].by], issued[i].id)
                        /\ \A q \in Programs :
                              issued[i].id.draw = generator'[q].draw => issued[i].by = q
      BY <2>1 DEF IssuedIsBehind, Before
    <3>1. /\ issued[i].by \in live /\ issued[i].id.draw \in 1..draws
          /\ ~Before(generator[issued[i].by], issued[i].id)
          /\ \A q \in Programs : issued[i].id.draw = generator[q].draw => issued[i].by = q
      BY DEF IdentifierInv, IssuedIsBehind
    <3>2. generator'[issued[i].by] = generator[issued[i].by]
      BY <1>1, <2>1, <2>3, <3>1
    <3>3. issued[i].id.draw # Unseeded.draw
      BY <1>1, <2>2, <3>1
    <3> QED
      BY <2>1, <2>3, <3>1, <3>2, <3>3
  <2>7. IdentifiersIncrease'
    BY <2>1 DEF IdentifierInv, IdentifiersIncrease, Before
  <2> QED
    BY <2>4, <2>5, <2>6, <2>7 DEF IdentifierInv
<1>4. ASSUME NEW p \in Programs, NewIdentifier(p)
      PROVE  IdentifierInv'
  <2>1. /\ p \in live /\ wall' \in 0..MaxWall /\ live' = live
        /\ generator[p] \in Identifier
    BY <1>1, <1>4 DEF NewIdentifier
  <2>2. CASE wall > generator[p].timestamp
    <3>1. PICK r \in 0..MaxRandomness :
             Issue(p, [timestamp |-> wall, randomness |-> r, draw |-> draws + 1])
      BY <1>4, <2>2 DEF NewIdentifier
    <3>2. draws' = draws + 1
      BY <1>4, <2>2 DEF NewIdentifier
    <3>3. PICK next : next = [timestamp |-> wall, randomness |-> r, draw |-> draws + 1]
      OBVIOUS
    <3>4. next \in Identifier /\ Before(generator[p], next) /\ next.draw = draws + 1
      BY <1>1, <2>1, <2>2, <3>3 DEF Identifier, Before
    <3> QED
      BY <1>1, <2>1, <3>1, <3>2, <3>3, <3>4, IssueKeeps
  <2>3. CASE ~(wall > generator[p].timestamp)
    <3>1. Issue(p, Successor(generator[p])) /\ draws' = draws
      BY <1>4, <2>3 DEF NewIdentifier
    <3>2. PICK next : next = Successor(generator[p])
      OBVIOUS
    <3>3. /\ next \in Identifier /\ Before(generator[p], next)
          /\ next.draw = generator[p].draw
      <4>1. PICK last \in Identifier : last = generator[p]
        BY <2>1
      <4>2. last.timestamp \in Int /\ last.randomness \in Int /\ last.draw \in Nat
        BY DEF Identifier
      <4>3. CASE last.randomness + 1 > MaxRandomness
        BY <3>2, <4>1, <4>2, <4>3 DEF Successor, Identifier, Before
      <4>4. CASE ~(last.randomness + 1 > MaxRandomness)
        BY <3>2, <4>1, <4>2, <4>4 DEF Successor, Identifier, Before
      <4> QED
        BY <4>3, <4>4
    <3>4. generator[p].draw # 0
      BY <1>1, <2>1, <2>3 DEF IdentifierInv, DrawsAreOwned, Identifier
    <3> QED
      BY <1>1, <2>1, <3>1, <3>2, <3>3, <3>4, IssueKeeps
  <2> QED
    BY <2>2, <2>3
<1>5. CASE UNCHANGED identifierVars
  BY <1>5 DEF identifierVars, IdentifierInv, IdentifierTypeOK, DrawsAreOwned, IssuedIsBehind,
              IdentifiersIncrease, Before
<1> QED
  BY <1>2, <1>3, <1>4, <1>5 DEF IdentifierNext

(* In every process the identifiers increase, and no two processes go on   *)
(* with one sequence, whatever the clock and the forks do (new,            *)
(* _after_fork_child).                                                     *)
THEOREM IdentifiersAlwaysIncrease == IdentifierSpec => []IdentifiersIncrease
<1>1. IdentifierInv => IdentifiersIncrease
  BY DEF IdentifierInv
<1> QED
  BY <1>1, IdentifierInitially, IdentifierStep, PTL DEF IdentifierSpec
=============================================================================
