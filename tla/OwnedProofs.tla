----------------------------- MODULE OwnedProofs -----------------------------
(***************************************************************************)
(* What the map of providers keeps and forgets, proved for every number of *)
(* calls and of pairs.                                                     *)
(***************************************************************************)
EXTENDS Owned, TLAPS

\* A call inside `get` has taken a cell, and forgets it only after a build in
\* it has failed.
CellsTaken ==
  \A c \in Callers :
    /\ Inside(c) => cell[c] \in Cells
    /\ pc[c] = "forget" => cell[c] \in tried

\* An empty cell in the map has a call of its pair that will fill it or take
\* it out, or one that was dropped.
EmptyCellsHeld ==
  \A k \in Keys :
    cells[k] # NoOne /\ filled[cells[k]] = NoOne =>
      \E c \in Callers : key[c] = k /\ cell[c] = cells[k] /\ (Inside(c) \/ pc[c] = "gone")

IInv == TypeOK /\ CellsTaken /\ EmptyCellsHeld

-----------------------------------------------------------------------------
USE OwnedAssumption DEF Cells

LEMMA InitIInv == Init => IInv
BY DEF Init, IInv, TypeOK, CellsTaken, EmptyCellsHeld, Inside

LEMMA TypeStep == ASSUME TypeOK, CellsTaken, [Next]_vars PROVE TypeOK'
<1>1. ASSUME NEW c \in Callers, Get(c) PROVE TypeOK'
  BY <1>1 DEF Get, Go, TypeOK
<1>2. ASSUME NEW c \in Callers, FindBuilt(c) \/ Drop(c) PROVE TypeOK'
  BY <1>2 DEF FindBuilt, Drop, Go, TypeOK
<1>3. ASSUME NEW c \in Callers, Acquire(c) PROVE TypeOK'
  BY <1>3 DEF Acquire, Go, TypeOK
<1>4. ASSUME NEW c \in Callers, BuildSucceeds(c) PROVE TypeOK'
  BY <1>4 DEF BuildSucceeds, Go, TypeOK
<1>5. ASSUME NEW c \in Callers, BuildFails(c) PROVE TypeOK'
  BY <1>5 DEF BuildFails, Go, TypeOK, CellsTaken, Inside
<1>6. ASSUME NEW c \in Callers, Forget(c) PROVE TypeOK'
  BY <1>6 DEF Forget, Go, TypeOK
<1>7. CASE UNCHANGED vars
  BY <1>7 DEF vars, TypeOK
<1>8. QED
  BY <1>1, <1>2, <1>3, <1>4, <1>5, <1>6, <1>7 DEF Next, Step

LEMMA TakenStep == ASSUME TypeOK, CellsTaken, [Next]_vars PROVE CellsTaken'
<1>1. ASSUME NEW c \in Callers, Get(c) PROVE CellsTaken'
  BY <1>1 DEF Get, Go, TypeOK, CellsTaken, Inside
<1>2. ASSUME NEW c \in Callers, FindBuilt(c) \/ Drop(c) \/ Acquire(c) \/ Forget(c) PROVE CellsTaken'
  BY <1>2 DEF FindBuilt, Drop, Acquire, Forget, Go, TypeOK, CellsTaken, Inside
<1>3. ASSUME NEW c \in Callers, BuildSucceeds(c) \/ BuildFails(c) PROVE CellsTaken'
  BY <1>3 DEF BuildSucceeds, BuildFails, Go, TypeOK, CellsTaken, Inside
<1>4. CASE UNCHANGED vars
  BY <1>4 DEF vars, CellsTaken, Inside
<1>5. QED
  BY <1>1, <1>2, <1>3, <1>4 DEF Next, Step

\* The call that speaks for an empty cell still does so after a step of
\* another call, or the cell is filled or gone.
LEMMA HeldStep ==
  ASSUME TypeOK, CellsTaken, EmptyCellsHeld, [Next]_vars
  PROVE  EmptyCellsHeld'
<1> SUFFICES ASSUME NEW k \in Keys, cells'[k] # NoOne, filled'[cells'[k]] = NoOne
             PROVE  \E c \in Callers :
                      key'[c] = k /\ cell'[c] = cells'[k] /\ (Inside(c)' \/ pc'[c] = "gone")
  BY DEF EmptyCellsHeld
<1>1. ASSUME NEW c \in Callers, Get(c),
             key[c] # k \/ cells[k] # NoOne
      PROVE  \E d \in Callers :
               key'[d] = k /\ cell'[d] = cells'[k] /\ (Inside(d)' \/ pc'[d] = "gone")
  <2>1. cells'[k] = cells[k] /\ filled[cells[k]] = NoOne
    BY <1>1 DEF Get, TypeOK
  <2>2. PICK d \in Callers : key[d] = k /\ cell[d] = cells[k] /\ (Inside(d) \/ pc[d] = "gone")
    BY <2>1 DEF EmptyCellsHeld
  <2>3. d # c
    BY <1>1, <2>2 DEF Get, Go, Inside
  <2>4. QED
    BY <1>1, <2>1, <2>2, <2>3 DEF Get, Go, Inside, TypeOK
<1>2. ASSUME NEW c \in Callers, Get(c), key[c] = k, cells[k] = NoOne
      PROVE  key'[c] = k /\ cell'[c] = cells'[k] /\ Inside(c)'
  BY <1>2 DEF Get, Go, Inside, TypeOK
<1>3. ASSUME NEW c \in Callers,
             FindBuilt(c) \/ Acquire(c) \/ BuildSucceeds(c) \/ BuildFails(c) \/ Drop(c)
      PROVE  \E d \in Callers :
               key'[d] = k /\ cell'[d] = cells'[k] /\ (Inside(d)' \/ pc'[d] = "gone")
  <2>1. cells' = cells /\ cell' = cell /\ key' = key
    BY <1>3 DEF FindBuilt, Acquire, BuildSucceeds, BuildFails, Drop
  <2>2. filled[cells[k]] = NoOne
    BY <1>3, <2>1 DEF FindBuilt, Acquire, BuildSucceeds, BuildFails, Drop, TypeOK
  <2>3. PICK d \in Callers : key[d] = k /\ cell[d] = cells[k] /\ (Inside(d) \/ pc[d] = "gone")
    BY <2>1, <2>2 DEF EmptyCellsHeld
  <2>4. Inside(d)' \/ pc'[d] = "gone"
    <3>1. CASE FindBuilt(c) \/ BuildSucceeds(c)
      <4>1. d # c
        BY <2>1, <2>2, <2>3, <3>1 DEF FindBuilt, BuildSucceeds, TypeOK
      <4>2. QED
        BY <2>3, <3>1, <4>1 DEF FindBuilt, BuildSucceeds, Go, Inside, TypeOK
    <3>2. CASE Acquire(c) \/ BuildFails(c) \/ Drop(c)
      BY <2>3, <3>2 DEF Acquire, BuildFails, Drop, Go, Inside, TypeOK
    <3>3. QED
      BY <1>3, <3>1, <3>2
  <2>5. QED
    BY <2>1, <2>3, <2>4
<1>4. ASSUME NEW c \in Callers, Forget(c)
      PROVE  \E d \in Callers :
               key'[d] = k /\ cell'[d] = cells'[k] /\ (Inside(d)' \/ pc'[d] = "gone")
  <2>1. cells'[k] = cells[k] /\ filled[cells[k]] = NoOne /\ (key[c] = k => cell[c] # cells[k])
    BY <1>4 DEF Forget, Go, TypeOK
  <2>2. PICK d \in Callers : key[d] = k /\ cell[d] = cells[k] /\ (Inside(d) \/ pc[d] = "gone")
    BY <2>1 DEF EmptyCellsHeld
  <2>3. d # c
    BY <2>1, <2>2
  <2>4. QED
    BY <1>4, <2>1, <2>2, <2>3 DEF Forget, Go, Inside, TypeOK
<1>5. CASE UNCHANGED vars
  BY <1>5 DEF vars, EmptyCellsHeld, Inside
<1>6. QED
  BY <1>1, <1>2, <1>3, <1>4, <1>5 DEF Next, Step

\* The invariant is inductive: it holds initially and every step keeps it.
LEMMA IInvInductive == Spec => []IInv
<1>1. IInv /\ [Next]_vars => IInv'
  BY TypeStep, TakenStep, HeldStep DEF IInv
<1>2. QED
  BY InitIInv, <1>1, PTL DEF Spec

\* The map, the cells and the calls are of their types, whatever the pairs and calls.
THEOREM TypeCorrect == Spec => []TypeOK
<1>1. IInv => TypeOK
  BY DEF IInv
<1>2. QED
  BY IInvInductive, <1>1, PTL

\* Once every call of a pair is over, the map holds an empty cell for it only
\* if one of them was dropped at its await.
THEOREM FailuresLeaveNoEntry == Spec => []NoEmptyEntry
<1>1. IInv => NoEmptyEntry
  BY DEF IInv, EmptyCellsHeld, NoEmptyEntry
<1>2. QED
  BY IInvInductive, <1>1, PTL

\* A provider in the map is never taken out of it.
THEOREM BuiltProvidersStay == Spec => KeepsBuilt
<1>1. IInv /\ [Next]_vars =>
        [\A k \in Keys :
           cells[k] # NoOne /\ filled[cells[k]] # NoOne => cells'[k] = cells[k]]_vars
  BY DEF IInv, TypeOK, vars, Next, Step, Get, FindBuilt, Acquire, BuildSucceeds, BuildFails,
         Forget, Drop
<1>2. QED
  BY IInvInductive, <1>1, PTL DEF Spec, KeepsBuilt

\* A cell that is taken out of the map had a build that failed in it.
THEOREM FailuresForgetTheirOwn == Spec => ForgetsOnlyItsOwn
<1>1. IInv /\ [Next]_vars =>
        [\A k \in Keys : cells[k] # NoOne /\ cells'[k] # cells[k] => cells[k] \in tried]_vars
  BY DEF IInv, TypeOK, CellsTaken, vars, Next, Step, Get, FindBuilt, Acquire, BuildSucceeds,
         BuildFails, Forget, Drop, Go
<1>2. QED
  BY IInvInductive, <1>1, PTL DEF Spec, ForgetsOnlyItsOwn
===========================================================================
