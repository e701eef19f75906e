-------------------------------- MODULE Turn --------------------------------
(***************************************************************************)
(* What Gate::enter promises (crates/sdk/src/transport/gate.rs), without   *)
(* its atomics: requests take turns to open the one connection, turns are  *)
(* numbered, and a request fails with no turn but its own or one that was  *)
(* lost after it looked.                                                   *)
(***************************************************************************)
EXTENDS Naturals

CONSTANT Requests  \* the requests sent through one transport

VARIABLES
  holders,  \* whose tasks hold the turn: nobody's or one request's
  ended,    \* how many turns have ended
  lost,     \* the last turn known to have made no connection
  stage,    \* where each request is
  asked,    \* how many turns had ended when it last looked
  blamed    \* the turn it failed with

turnVars == <<holders, ended, lost, stage, asked, blamed>>

Init ==
  /\ holders = {} /\ ended = 0 /\ lost = 0
  /\ stage = [r \in Requests |-> "idle"]
  /\ asked = [r \in Requests |-> 0]
  /\ blamed = [r \in Requests |-> 0]

Moves(r, from, to) == stage[r] \in from /\ stage' = [stage EXCEPT ![r] = to]

Enter(r) ==
  /\ Moves(r, {"idle"}, "asking")
  /\ UNCHANGED <<holders, ended, lost, asked, blamed>>

Look(r) ==
  /\ Moves(r, {"asking", "looked"}, "looked")
  /\ asked' = [asked EXCEPT ![r] = ended]
  /\ UNCHANGED <<holders, ended, lost, blamed>>

\* A request takes the free turn, if none ended since it looked.
Take(r) ==
  /\ stage[r] = "looked" /\ asked[r] = ended
  /\ holders = {}
  /\ holders' = {r}
  /\ UNCHANGED <<ended, lost, stage, asked, blamed>>

Lose ==
  /\ holders # {}
  /\ lost' = ended + 1
  /\ UNCHANGED <<holders, ended, stage, asked, blamed>>

Return ==
  /\ holders # {}
  /\ holders' = {} /\ ended' = ended + 1
  /\ UNCHANGED <<lost, stage, asked, blamed>>

Again(r) ==
  /\ Moves(r, {"looked"}, "asking")
  /\ asked' = [asked EXCEPT ![r] = 0]
  /\ UNCHANGED <<holders, ended, lost, blamed>>

Pass(r) ==
  /\ Moves(r, {"asking"}, "passed")
  /\ UNCHANGED <<holders, ended, lost, asked, blamed>>

\* The turn is the request's own, or was lost after the request looked.
Fail(r) ==
  /\ Moves(r, {"looked"}, "failed")
  /\ \E turn \in {asked[r] + 1, lost} :
       /\ turn > asked[r]
       /\ turn <= lost \/ holders = {r}
       /\ blamed' = [blamed EXCEPT ![r] = turn]
  /\ asked' = [asked EXCEPT ![r] = 0]
  /\ UNCHANGED <<holders, ended, lost>>

\* Its future is dropped; the task it started keeps the turn.
Leave(r) ==
  /\ Moves(r, {"asking", "looked", "passed"}, "left")
  /\ asked' = [asked EXCEPT ![r] = 0]
  /\ UNCHANGED <<holders, ended, lost, blamed>>

Next ==
  \/ \E r \in Requests :
       Enter(r) \/ Look(r) \/ Take(r) \/ Again(r) \/ Pass(r) \/ Fail(r) \/ Leave(r)
  \/ Lose \/ Return

Spec == Init /\ [][Next]_turnVars
===========================================================================
