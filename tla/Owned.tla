-------------------------------- MODULE Owned --------------------------------
(***************************************************************************)
(* The providers an adapter client builds for itself                       *)
(* (crates/adapter/src/client.rs, Owned): a map, behind a lock, of         *)
(* one cell per provider name and model, filled by the first build that    *)
(* succeeds.                                                               *)
(*                                                                         *)
(* A cell is tokio's OnceCell, which is external: it is filled at most     *)
(* once, under its one permit, and a failed build gives the permit back.   *)
(* tokio hands the permit to its waiters in the order they came; here any  *)
(* of them may be next.                                                    *)
(***************************************************************************)
EXTENDS Naturals, FiniteSets

CONSTANTS
  Callers,  \* the calls of one client and its clones
  Keys,     \* pairs of a provider name and a model
  NoOne     \* stands for "no cell", "no provider", "no caller"

ASSUME OwnedAssumption == NoOne \notin Callers

VARIABLES
  cells,    \* Owned.cells: the cell of each key
  filled,   \* the provider in each cell
  permit,   \* external: who may build in each cell
  pc,       \* where each call is in Owned::get
  key,      \* the key each call asks for
  cell,     \* the cell it took from the map
  tried     \* history: the cells in which a build failed

vars == <<cells, filled, permit, pc, key, cell, tried>>

\* A cell, and the provider built in it, go by the call that made them.
Cells == Callers

TypeOK ==
  /\ cells \in [Keys -> Cells \cup {NoOne}]
  /\ filled \in [Cells -> Callers \cup {NoOne}]
  /\ permit \in [Cells -> Callers \cup {NoOne}]
  /\ pc \in [Callers -> {"idle", "acquire", "building", "forget", "built", "failed", "gone"}]
  /\ key \in [Callers -> Keys]
  /\ cell \in [Callers -> Cells \cup {NoOne}]
  /\ tried \subseteq Cells

Init ==
  /\ cells = [k \in Keys |-> NoOne]
  /\ filled = [c \in Cells |-> NoOne]
  /\ permit = [c \in Cells |-> NoOne]
  /\ pc = [c \in Callers |-> "idle"]
  /\ key \in [Callers -> Keys]
  /\ cell = [c \in Callers |-> NoOne]
  /\ tried = {}

Go(c, from, to) == pc[c] = from /\ pc' = [pc EXCEPT ![c] = to]

\* Under the lock: the entry of the key, or a new and empty cell.
Get(c) ==
  /\ Go(c, "idle", "acquire")
  /\ LET held == IF cells[key[c]] = NoOne THEN c ELSE cells[key[c]]
     IN  /\ cells' = [cells EXCEPT ![key[c]] = held]
         /\ cell' = [cell EXCEPT ![c] = held]
  /\ UNCHANGED <<filled, permit, key, tried>>

\* get_or_try_init returns the provider of a filled cell.
FindBuilt(c) ==
  /\ Go(c, "acquire", "built")
  /\ filled[cell[c]] # NoOne
  /\ UNCHANGED <<cells, filled, permit, key, cell, tried>>

\* Mutant: a build goes on only in the cell the map still holds.
AcquireHeld(c) ==
  /\ Go(c, "acquire", "building")
  /\ filled[cell[c]] = NoOne /\ permit[cell[c]] = NoOne /\ cells[key[c]] = cell[c]
  /\ permit' = [permit EXCEPT ![cell[c]] = c]
  /\ UNCHANGED <<cells, filled, key, cell, tried>>

\* In an empty cell, the call that has the permit builds.
Acquire(c) ==
  /\ Go(c, "acquire", "building")
  /\ filled[cell[c]] = NoOne /\ permit[cell[c]] = NoOne
  /\ permit' = [permit EXCEPT ![cell[c]] = c]
  /\ UNCHANGED <<cells, filled, key, cell, tried>>

\* factory::build succeeds: the provider goes into the cell.
BuildSucceeds(c) ==
  /\ Go(c, "building", "built")
  /\ filled' = [filled EXCEPT ![cell[c]] = c]
  /\ permit' = [permit EXCEPT ![cell[c]] = NoOne]
  /\ UNCHANGED <<cells, key, cell, tried>>

\* Mutant: a failed build leaves its cell in the map.
BuildFailsOnly(c) ==
  /\ Go(c, "building", "failed")
  /\ permit' = [permit EXCEPT ![cell[c]] = NoOne]
  /\ tried' = tried \cup {cell[c]}
  /\ UNCHANGED <<cells, filled, key, cell>>

\* It fails: the permit is free before the call reaches `forget`.
BuildFails(c) ==
  /\ Go(c, "building", "forget")
  /\ permit' = [permit EXCEPT ![cell[c]] = NoOne]
  /\ tried' = tried \cup {cell[c]}
  /\ UNCHANGED <<cells, filled, key, cell>>

\* Mutant: without the check that no waiter has filled the cell.
ForgetFilled(c) ==
  /\ Go(c, "forget", "failed")
  /\ cells' = [cells EXCEPT ![key[c]] = IF cells[key[c]] = cell[c] THEN NoOne ELSE cells[key[c]]]
  /\ UNCHANGED <<filled, permit, key, cell, tried>>

\* Mutant: without the check that the map still holds this very cell.
ForgetOther(c) ==
  LET held == cells[key[c]] IN
  /\ Go(c, "forget", "failed")
  /\ cells' = [cells EXCEPT ![key[c]] =
                 IF held # NoOne /\ filled[cell[c]] = NoOne THEN NoOne ELSE held]
  /\ UNCHANGED <<filled, permit, key, cell, tried>>

\* Under the lock: the cell leaves the map, unless the map holds another or
\* a waiter has filled it.
Forget(c) ==
  LET held == cells[key[c]] IN
  /\ Go(c, "forget", "failed")
  /\ cells' = [cells EXCEPT ![key[c]] =
                 IF held = cell[c] /\ filled[held] = NoOne THEN NoOne ELSE held]
  /\ UNCHANGED <<filled, permit, key, cell, tried>>

\* The call's future is dropped at its one await, before it has the permit.
Drop(c) ==
  /\ Go(c, "acquire", "gone")
  /\ UNCHANGED <<cells, filled, permit, key, cell, tried>>

Step(c) ==
  FindBuilt(c) \/ Acquire(c) \/ BuildSucceeds(c) \/ BuildFails(c) \/ Forget(c)

Next == \E c \in Callers : Get(c) \/ Step(c) \/ Drop(c)

Spec == Init /\ [][Next]_vars

\* A call that is polled goes on; a build is one synchronous call.
FairSpec == Spec /\ \A c \in Callers : WF_vars(Step(c))

-----------------------------------------------------------------------------
(* Properties. *)

Inside(c) == pc[c] \in {"acquire", "building", "forget"}

\* A provider that is in the map stays there: every later call of its pair
\* is given that provider, whatever fails around it.
KeepsBuilt ==
  [][\A k \in Keys :
       cells[k] # NoOne /\ filled[cells[k]] # NoOne => cells'[k] = cells[k]]_vars

\* A cell leaves the map only after a build in that very cell has failed:
\* the failure of an older cell does not take out its successor.
ForgetsOnlyItsOwn ==
  [][\A k \in Keys :
       cells[k] # NoOne /\ cells'[k] # cells[k] => cells[k] \in tried]_vars

\* A pair that never builds holds no entry: once every call of the pair is
\* over, an empty cell is left only where a call was dropped at its await.
NoEmptyEntry ==
  \A k \in Keys :
    /\ cells[k] # NoOne /\ filled[cells[k]] = NoOne
    /\ \A c \in Callers : key[c] = k => ~Inside(c)
    => \E c \in Callers : pc[c] = "gone" /\ cell[c] = cells[k]

\* Every call gets a provider or an error, also the calls that wait in a cell
\* that has left the map.
CallsReturn ==
  \A c \in Callers : pc[c] = "acquire" ~> pc[c] \in {"built", "failed", "gone"}

\* client.rs: "calls that arrive during a build wait for it instead of
\* building their own."  A call that finds its pair's cell taken out while a
\* waiter of that cell builds does not.
BuildsOncePerPair ==
  \A c, d \in Callers :
    pc[c] = "building" /\ pc[d] = "building" /\ key[c] = key[d] => c = d
===========================================================================
