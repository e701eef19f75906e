------------------------------ MODULE GateProofs ------------------------------
(***************************************************************************)
(* The safety properties of Gate, proved for every set of requests, every  *)
(* bound and every length of a run.                                        *)
(***************************************************************************)
EXTENDS Gate, TLAPS

-----------------------------------------------------------------------------
(* The inductive invariant, part by part. *)

\* A task that still runs belongs to a request that is waiting for its
\* outcome or has left, and it has told that request nothing yet.
TaskOfRequest ==
  \A r \in Requests :
    /\ phase[r] \notin Idle => pc[r] \in {"outcome", "gone", "failed"}
    /\ chan[r] \in {"connected", "Connection", "Timeout"} => phase[r] \in Idle

\* Whoever connects holds hyper-util's lock.
OneDialer ==
  \A r \in Requests :
    phase[r] \in {"connecting", "handshaking"} \/ pc[r] = "dialing" => dial = r

\* The count of streams is the number of connections the pool holds, is
\* setting up or is closing.
Handshakes == IF \E r \in Requests : phase[r] = "handshaking" THEN 1 ELSE 0
StreamsCounted == open = closing + (IF pool THEN 1 ELSE 0) + Handshakes

\* A request waits from the instant it arrived on, or later.
Arrivals ==
  \A r \in Requests :
    /\ arrived[r] <= now
    /\ pc[r] = "wait" => arrived[r] <= since[r]
    /\ pc[r] # "failed" => err[r].by.how = "none"

\* The failure of a turn is on record before the turn is given back.
FailureOnRecord ==
  \A r \in Requests :
    /\ seen[r] <= ended
    /\ pc[r] = "cas" => fate[r] = "pending"
    /\ phase[r] = "mark" => ending[r] = "Connected"
    /\ phase[r] = "store" /\ ending[r] # "Connected" => failed.turn = ended + 1
    /\ pc[r] \in {"since", "wait"} /\ fate[r] = "failed" => failed.turn > seen[r]

\* A task fails its turn only by itself, and what the request that started
\* it will fail with is the turn that is held, or one that is on record.
OwnTurnLost ==
  /\ failed.turn <= ended + 1
  /\ \A r \in Requests :
       /\ pc[r] # "failed" => err[r].by.turn = 0
       /\ phase[r] \in {"spawned", "probing", "missed", "connecting", "handshaking"} =>
            ending[r] = "Pending" /\ chan[r] # "dropped"
       /\ phase[r] = "record" => ending[r] # "Connected"
       /\ chan[r] = "dropped" /\ phase[r] \in {"mark", "store", "notify", "send"} =>
            ending[r] # "Connected"
       /\ pc[r] = "outcome" /\ phase[r] \in Holding => seen[r] = ended
       /\ pc[r] = "outcome" /\ phase[r] \in {"notify", "send"} /\ ending[r] # "Connected" =>
            failed.turn > seen[r]
       /\ /\ pc[r] = "outcome" /\ phase[r] \in Idle
          /\ chan[r] \in {"dropped", "Connection", "Timeout"}
          => failed.turn > seen[r]

\* As long as no connection ended, a warm gate means a connection in the
\* pool, and a task that connects means none.
NoneLost ==
  closes = 0 =>
    /\ closing = 0
    /\ pooled => pool
    /\ \A r \in Requests :
         /\ pc[r] \in {"open", "pool"} => pool
         /\ phase[r] = "mark" => pool
         /\ phase[r] \in {"missed", "connecting", "handshaking"} => ~pool

IInv ==
  /\ TypeOK /\ TaskOfRequest /\ OneOpener /\ NoLostWakeup /\ OneDialer /\ StreamsCounted
  /\ ColdWhileConnecting /\ Arrivals /\ BoundSparesLater /\ FailureOnRecord /\ OwnTurnLost
  /\ NoneLost /\ OneConnection

-----------------------------------------------------------------------------
USE ConstantsAssumption
USE DEF gateVars, localVars, taskVars, hyperVars, Holding, Idle, Suspended, Final,
        Go, Run, Forget

LEMMA InitIInv == Init => IInv
<1> SUFFICES ASSUME Init PROVE IInv
  OBVIOUS
<1> USE DEF Init
<1>1. TypeOK
  <2>1. held \in BOOLEAN /\ pooled \in BOOLEAN /\ pool \in BOOLEAN
    OBVIOUS
  <2>q. QED
    BY <2>1 DEF TypeOK, NoFailure, NoError
<1>2. TaskOfRequest
  BY DEF TaskOfRequest
<1>3. OneOpener
  BY DEF OneOpener
<1>4. NoLostWakeup
  BY DEF NoLostWakeup
<1>5. OneDialer
  BY DEF OneDialer
<1>6. StreamsCounted
  BY DEF StreamsCounted, Handshakes
<1>7. ColdWhileConnecting
  BY DEF ColdWhileConnecting
<1>8. Arrivals
  BY DEF Arrivals, NoFailure, NoError
<1>9. BoundSparesLater
  BY DEF BoundSparesLater
<1>10. FailureOnRecord
  BY DEF FailureOnRecord
<1>11. NoneLost
  BY DEF NoneLost
<1>12. OneConnection
  BY DEF OneConnection
<1>13. OwnTurnLost
  BY DEF OwnTurnLost, NoFailure, NoError
<1>q. QED
  BY <1>1, <1>2, <1>3, <1>4, <1>5, <1>6, <1>7, <1>8, <1>9, <1>10, <1>11, <1>12, <1>13
  DEF IInv

LEMMA TypeStep ==
  ASSUME TypeOK, StreamsCounted, [Next]_vars
  PROVE  TypeOK'
<1> USE DEF TypeOK
<1>1. ASSUME NEW r \in Requests, Call(r) PROVE TypeOK'
  BY <1>1 DEF Call
<1>2. ASSUME NEW r \in Requests, LoadPooled(r) PROVE TypeOK'
  BY <1>2 DEF LoadPooled, Cold
<1>3. ASSUME NEW r \in Requests, LoadOpen(r) PROVE TypeOK'
  BY <1>3 DEF LoadOpen, Cold
<1>4. ASSUME NEW r \in Requests, Register(r) PROVE TypeOK'
  BY <1>4 DEF Register
<1>5. ASSUME NEW r \in Requests, LoadTurns(r) PROVE TypeOK'
  BY <1>5 DEF LoadTurns
<1>6. ASSUME NEW r \in Requests, TakeTurn(r) PROVE TypeOK'
  BY <1>6 DEF TakeTurn
<1>7. ASSUME NEW r \in Requests, LoseTurn(r) PROVE TypeOK'
  BY <1>7 DEF LoseTurn
<1>8. ASSUME NEW r \in Requests, ReadClock(r) PROVE TypeOK'
  BY <1>8 DEF ReadClock
<1>9. ASSUME NEW r \in Requests, Woken(r) PROVE TypeOK'
  BY <1>9 DEF Woken, FailsWaiter, ExpiredBefore, Waited
<1>10. ASSUME NEW r \in Requests, Outcome(r) PROVE TypeOK'
  <2>1. CASE chan[r] = "connected"
    BY <1>10, <2>1, SMTT(60) DEF Outcome
  <2>2. CASE chan[r] \in {"Connection", "Timeout", "dropped"}
    <3> DEFINE e == IF chan[r] = "dropped"
                      THEN Waited(OwnTurn(r, "GivenUp"))
                      ELSE [kind |-> chan[r], by |-> OwnTurn(r, "Connect")]
    <3>1. e \in [kind: {"none", "Connection", "Timeout"},
                by: [turn: Nat, how: {"none", "Connect", "GivenUp", "Bound"}, deadline: Nat]]
      BY <2>2 DEF Waited, OwnTurn
    <3>2. err' = [err EXCEPT ![r] = e] /\ pc' = [pc EXCEPT ![r] = "failed"]
      BY <1>10, <2>2 DEF Outcome
    <3> HIDE DEF e
    <3>q. QED
      BY <1>10, <3>1, <3>2 DEF Outcome
  <2>q. QED
    BY <1>10, <2>1, <2>2 DEF Outcome
<1>11. ASSUME NEW r \in Requests, GiveUp(r) PROVE TypeOK'
  BY <1>11 DEF GiveUp
<1>12. ASSUME NEW r \in Requests, OpenStart(r) PROVE TypeOK'
  BY <1>12 DEF OpenStart, Sooner
<1>13. ASSUME NEW r \in Requests, ProbeCheckout(r) PROVE TypeOK'
  BY <1>13 DEF ProbeCheckout
<1>14. ASSUME NEW r \in Requests, BeginConnect(r) PROVE TypeOK'
  BY <1>14 DEF BeginConnect
<1>15. ASSUME NEW r \in Requests, StreamOpened(r) PROVE TypeOK'
  BY <1>15 DEF StreamOpened
<1>16. ASSUME NEW r \in Requests, ConnectionPooled(r) PROVE TypeOK'
  BY <1>16 DEF ConnectionPooled, PutInPool, StreamsCounted, Handshakes
<1>17. ASSUME NEW r \in Requests, ConnectError(r) PROVE TypeOK'
  BY <1>17 DEF ConnectError, StopConnect, StreamsCounted, Handshakes
<1>18. ASSUME NEW r \in Requests, Abandon(r) PROVE TypeOK'
  BY <1>18 DEF Abandon, StopConnect, StreamsCounted, Handshakes
<1>19. ASSUME NEW r \in Requests, RuntimeDrop(r) PROVE TypeOK'
  BY <1>19 DEF RuntimeDrop, StopConnect, StreamsCounted, Handshakes
<1>20. ASSUME NEW r \in Requests, MarkPooled(r) PROVE TypeOK'
  BY <1>20 DEF MarkPooled
<1>21. ASSUME NEW r \in Requests, RecordFailure(r) PROVE TypeOK'
  BY <1>21 DEF RecordFailure, FailureOf
<1>22. ASSUME NEW r \in Requests, ReturnTurn(r) PROVE TypeOK'
  <2> DEFINE F(q) == IF pc[q] \in {"since", "wait"} /\ seen[q] = ended /\ fate[q] = "pending"
                       THEN IF ending[r] = "Connected" THEN "connected" ELSE "failed"
                       ELSE fate[q]
  <2>1. \A q \in Requests : F(q) \in {"pending", "connected", "failed"}
    OBVIOUS
  <2>2. fate' = [q \in Requests |-> F(q)]
    BY <1>22 DEF ReturnTurn
  <2> HIDE DEF F
  <2>3. fate' \in [Requests -> {"pending", "connected", "failed"}]
    BY <2>1, <2>2
  <2>4. held' \in BOOLEAN
    BY <1>22 DEF ReturnTurn
  <2>q. QED
    BY <1>22, <2>3, <2>4 DEF ReturnTurn
<1>23. ASSUME NEW r \in Requests, NotifyWaiters(r) PROVE TypeOK'
  BY <1>23 DEF NotifyWaiters
<1>24. ASSUME NEW r \in Requests, SendOutcome(r) PROVE TypeOK'
  BY <1>24 DEF SendOutcome, Message
<1>25. ASSUME NEW r \in Requests, PoolCheckout(r) PROVE TypeOK'
  BY <1>25 DEF PoolCheckout
<1>26. ASSUME NEW r \in Requests, PoolConnect(r) PROVE TypeOK'
  BY <1>26 DEF PoolConnect
<1>27. ASSUME NEW r \in Requests, PoolConnected(r) PROVE TypeOK'
  BY <1>27 DEF PoolConnected, PutInPool, StreamsCounted, Handshakes
<1>28. ASSUME NEW r \in Requests, PoolFailed(r) PROVE TypeOK'
  BY <1>28 DEF PoolFailed, NoFailure
<1>29. CASE CloseConnection
  <2>1. pool' \in BOOLEAN
    BY <1>29 DEF CloseConnection
  <2>2. closes' \in 0..MaxCloses
    BY <1>29 DEF CloseConnection
  <2>q. QED
    BY <1>29, <2>1, <2>2 DEF CloseConnection
<1>30. CASE DropStream
  BY <1>30 DEF DropStream, StreamsCounted, Handshakes
<1>31. CASE Tick
  BY <1>31 DEF Tick
<1>32. CASE UNCHANGED vars
  BY <1>32 DEF vars
<1>33. QED
  BY <1>1, <1>2, <1>3, <1>4, <1>5, <1>6, <1>7, <1>8, <1>9, <1>10, <1>11, <1>12, <1>13,
     <1>14, <1>15, <1>16, <1>17, <1>18, <1>19, <1>20, <1>21, <1>22, <1>23, <1>24, <1>25,
     <1>26, <1>27, <1>28, <1>29, <1>30, <1>31, <1>32
  DEF Next, RequestStep, TaskStep, NetworkStep, PoolStep

LEMMA TaskStepInv ==
  ASSUME TypeOK, TaskOfRequest, [Next]_vars
  PROVE  TaskOfRequest'
<1> USE DEF TypeOK, TaskOfRequest
<1>1. ASSUME NEW r \in Requests, Call(r) PROVE TaskOfRequest'
  BY <1>1 DEF Call
<1>2. ASSUME NEW r \in Requests, LoadPooled(r) PROVE TaskOfRequest'
  BY <1>2 DEF LoadPooled, Cold
<1>3. ASSUME NEW r \in Requests, LoadOpen(r) PROVE TaskOfRequest'
  BY <1>3 DEF LoadOpen, Cold
<1>4. ASSUME NEW r \in Requests, Register(r) PROVE TaskOfRequest'
  BY <1>4 DEF Register
<1>5. ASSUME NEW r \in Requests, LoadTurns(r) PROVE TaskOfRequest'
  BY <1>5 DEF LoadTurns
<1>6. ASSUME NEW r \in Requests, TakeTurn(r) PROVE TaskOfRequest'
  BY <1>6 DEF TakeTurn
<1>7. ASSUME NEW r \in Requests, LoseTurn(r) PROVE TaskOfRequest'
  BY <1>7 DEF LoseTurn
<1>8. ASSUME NEW r \in Requests, ReadClock(r) PROVE TaskOfRequest'
  BY <1>8 DEF ReadClock
<1>9. ASSUME NEW r \in Requests, Woken(r) PROVE TaskOfRequest'
  BY <1>9 DEF Woken, FailsWaiter, ExpiredBefore, Waited
<1>10. ASSUME NEW r \in Requests, Outcome(r) PROVE TaskOfRequest'
  <2>1. phase' = phase /\ chan' = chan /\ chan[r] # "open"
    BY <1>10 DEF Outcome
  <2>2. PICK to : pc[r] = "outcome" /\ pc' = [pc EXCEPT ![r] = to]
    BY <1>10 DEF Outcome
  <2>3. to = "failed" \/ chan[r] = "connected"
    BY <1>10, <2>2 DEF Outcome
  <2>4. \A q \in Requests : pc'[q] = IF q = r THEN to ELSE pc[q]
    BY <2>2
  <2>5. QED
    BY <2>1, <2>2, <2>3, <2>4
<1>11. ASSUME NEW r \in Requests, GiveUp(r) PROVE TaskOfRequest'
  BY <1>11 DEF GiveUp
<1>12. ASSUME NEW r \in Requests, OpenStart(r) PROVE TaskOfRequest'
  BY <1>12 DEF OpenStart, Sooner
<1>13. ASSUME NEW r \in Requests, ProbeCheckout(r) PROVE TaskOfRequest'
  BY <1>13 DEF ProbeCheckout
<1>14. ASSUME NEW r \in Requests, BeginConnect(r) PROVE TaskOfRequest'
  BY <1>14 DEF BeginConnect
<1>15. ASSUME NEW r \in Requests, StreamOpened(r) PROVE TaskOfRequest'
  BY <1>15 DEF StreamOpened
<1>16. ASSUME NEW r \in Requests, ConnectionPooled(r) PROVE TaskOfRequest'
  BY <1>16 DEF ConnectionPooled, PutInPool
<1>17. ASSUME NEW r \in Requests, ConnectError(r) PROVE TaskOfRequest'
  BY <1>17 DEF ConnectError, StopConnect
<1>18. ASSUME NEW r \in Requests, Abandon(r) PROVE TaskOfRequest'
  BY <1>18 DEF Abandon, StopConnect
<1>19. ASSUME NEW r \in Requests, RuntimeDrop(r) PROVE TaskOfRequest'
  BY <1>19 DEF RuntimeDrop, StopConnect
<1>20. ASSUME NEW r \in Requests, MarkPooled(r) PROVE TaskOfRequest'
  BY <1>20 DEF MarkPooled
<1>21. ASSUME NEW r \in Requests, RecordFailure(r) PROVE TaskOfRequest'
  BY <1>21 DEF RecordFailure, FailureOf
<1>22. ASSUME NEW r \in Requests, ReturnTurn(r) PROVE TaskOfRequest'
  BY <1>22 DEF ReturnTurn
<1>23. ASSUME NEW r \in Requests, NotifyWaiters(r) PROVE TaskOfRequest'
  BY <1>23 DEF NotifyWaiters
<1>24. ASSUME NEW r \in Requests, SendOutcome(r) PROVE TaskOfRequest'
  BY <1>24 DEF SendOutcome, Message
<1>25. ASSUME NEW r \in Requests, PoolCheckout(r) PROVE TaskOfRequest'
  BY <1>25 DEF PoolCheckout
<1>26. ASSUME NEW r \in Requests, PoolConnect(r) PROVE TaskOfRequest'
  BY <1>26 DEF PoolConnect
<1>27. ASSUME NEW r \in Requests, PoolConnected(r) PROVE TaskOfRequest'
  BY <1>27 DEF PoolConnected, PutInPool
<1>28. ASSUME NEW r \in Requests, PoolFailed(r) PROVE TaskOfRequest'
  BY <1>28 DEF PoolFailed, NoFailure
<1>29. CASE CloseConnection
  BY <1>29 DEF CloseConnection
<1>30. CASE DropStream
  BY <1>30 DEF DropStream
<1>31. CASE Tick
  BY <1>31 DEF Tick
<1>32. CASE UNCHANGED vars
  BY <1>32 DEF vars
<1>33. QED
  BY <1>1, <1>2, <1>3, <1>4, <1>5, <1>6, <1>7, <1>8, <1>9, <1>10, <1>11, <1>12, <1>13,
     <1>14, <1>15, <1>16, <1>17, <1>18, <1>19, <1>20, <1>21, <1>22, <1>23, <1>24, <1>25,
     <1>26, <1>27, <1>28, <1>29, <1>30, <1>31, <1>32
  DEF Next, RequestStep, TaskStep, NetworkStep, PoolStep

LEMMA OpenerStep ==
  ASSUME TypeOK, TaskOfRequest, OneOpener, [Next]_vars
  PROVE  OneOpener'
<1> USE DEF TypeOK, OneOpener
<1>1. ASSUME NEW r \in Requests, Call(r) PROVE OneOpener'
  BY <1>1 DEF Call
<1>2. ASSUME NEW r \in Requests, LoadPooled(r) PROVE OneOpener'
  BY <1>2 DEF LoadPooled, Cold
<1>3. ASSUME NEW r \in Requests, LoadOpen(r) PROVE OneOpener'
  BY <1>3 DEF LoadOpen, Cold
<1>4. ASSUME NEW r \in Requests, Register(r) PROVE OneOpener'
  BY <1>4 DEF Register
<1>5. ASSUME NEW r \in Requests, LoadTurns(r) PROVE OneOpener'
  BY <1>5 DEF LoadTurns
<1>6. ASSUME NEW r \in Requests, TakeTurn(r) PROVE OneOpener'
  BY <1>6 DEF TakeTurn, TaskOfRequest
<1>7. ASSUME NEW r \in Requests, LoseTurn(r) PROVE OneOpener'
  BY <1>7 DEF LoseTurn
<1>8. ASSUME NEW r \in Requests, ReadClock(r) PROVE OneOpener'
  BY <1>8 DEF ReadClock
<1>9. ASSUME NEW r \in Requests, Woken(r) PROVE OneOpener'
  BY <1>9 DEF Woken, FailsWaiter, ExpiredBefore, Waited
<1>10. ASSUME NEW r \in Requests, Outcome(r) PROVE OneOpener'
  BY <1>10 DEF Outcome, OwnTurn, Waited
<1>11. ASSUME NEW r \in Requests, GiveUp(r) PROVE OneOpener'
  BY <1>11 DEF GiveUp
<1>12. ASSUME NEW r \in Requests, OpenStart(r) PROVE OneOpener'
  BY <1>12 DEF OpenStart, Sooner
<1>13. ASSUME NEW r \in Requests, ProbeCheckout(r) PROVE OneOpener'
  BY <1>13 DEF ProbeCheckout
<1>14. ASSUME NEW r \in Requests, BeginConnect(r) PROVE OneOpener'
  BY <1>14 DEF BeginConnect
<1>15. ASSUME NEW r \in Requests, StreamOpened(r) PROVE OneOpener'
  BY <1>15 DEF StreamOpened
<1>16. ASSUME NEW r \in Requests, ConnectionPooled(r) PROVE OneOpener'
  BY <1>16 DEF ConnectionPooled, PutInPool
<1>17. ASSUME NEW r \in Requests, ConnectError(r) PROVE OneOpener'
  BY <1>17 DEF ConnectError, StopConnect
<1>18. ASSUME NEW r \in Requests, Abandon(r) PROVE OneOpener'
  BY <1>18 DEF Abandon, StopConnect
<1>19. ASSUME NEW r \in Requests, RuntimeDrop(r) PROVE OneOpener'
  BY <1>19 DEF RuntimeDrop, StopConnect
<1>20. ASSUME NEW r \in Requests, MarkPooled(r) PROVE OneOpener'
  BY <1>20 DEF MarkPooled
<1>21. ASSUME NEW r \in Requests, RecordFailure(r) PROVE OneOpener'
  BY <1>21 DEF RecordFailure, FailureOf
<1>22. ASSUME NEW r \in Requests, ReturnTurn(r) PROVE OneOpener'
  BY <1>22 DEF ReturnTurn
<1>23. ASSUME NEW r \in Requests, NotifyWaiters(r) PROVE OneOpener'
  BY <1>23 DEF NotifyWaiters
<1>24. ASSUME NEW r \in Requests, SendOutcome(r) PROVE OneOpener'
  BY <1>24 DEF SendOutcome, Message
<1>25. ASSUME NEW r \in Requests, PoolCheckout(r) PROVE OneOpener'
  BY <1>25 DEF PoolCheckout
<1>26. ASSUME NEW r \in Requests, PoolConnect(r) PROVE OneOpener'
  BY <1>26 DEF PoolConnect
<1>27. ASSUME NEW r \in Requests, PoolConnected(r) PROVE OneOpener'
  BY <1>27 DEF PoolConnected, PutInPool
<1>28. ASSUME NEW r \in Requests, PoolFailed(r) PROVE OneOpener'
  BY <1>28 DEF PoolFailed, NoFailure
<1>29. CASE CloseConnection
  BY <1>29 DEF CloseConnection
<1>30. CASE DropStream
  BY <1>30 DEF DropStream
<1>31. CASE Tick
  BY <1>31 DEF Tick
<1>32. CASE UNCHANGED vars
  BY <1>32 DEF vars
<1>33. QED
  BY <1>1, <1>2, <1>3, <1>4, <1>5, <1>6, <1>7, <1>8, <1>9, <1>10, <1>11, <1>12, <1>13,
     <1>14, <1>15, <1>16, <1>17, <1>18, <1>19, <1>20, <1>21, <1>22, <1>23, <1>24, <1>25,
     <1>26, <1>27, <1>28, <1>29, <1>30, <1>31, <1>32
  DEF Next, RequestStep, TaskStep, NetworkStep, PoolStep

LEMMA WakeupStep ==
  ASSUME TypeOK, TaskOfRequest, NoLostWakeup, [Next]_vars
  PROVE  NoLostWakeup'
<1> USE DEF TypeOK, NoLostWakeup
<1>1. ASSUME NEW r \in Requests, Call(r) PROVE NoLostWakeup'
  BY <1>1 DEF Call
<1>2. ASSUME NEW r \in Requests, LoadPooled(r) PROVE NoLostWakeup'
  BY <1>2 DEF LoadPooled, Cold
<1>3. ASSUME NEW r \in Requests, LoadOpen(r) PROVE NoLostWakeup'
  BY <1>3 DEF LoadOpen, Cold
<1>4. ASSUME NEW r \in Requests, Register(r) PROVE NoLostWakeup'
  BY <1>4 DEF Register
<1>5. ASSUME NEW r \in Requests, LoadTurns(r) PROVE NoLostWakeup'
  BY <1>5 DEF LoadTurns
<1>6. ASSUME NEW r \in Requests, TakeTurn(r) PROVE NoLostWakeup'
  BY <1>6 DEF TakeTurn, TaskOfRequest
<1>7. ASSUME NEW r \in Requests, LoseTurn(r) PROVE NoLostWakeup'
  BY <1>7 DEF LoseTurn
<1>8. ASSUME NEW r \in Requests, ReadClock(r) PROVE NoLostWakeup'
  BY <1>8 DEF ReadClock
<1>9. ASSUME NEW r \in Requests, Woken(r) PROVE NoLostWakeup'
  BY <1>9 DEF Woken, FailsWaiter, ExpiredBefore, Waited
<1>10. ASSUME NEW r \in Requests, Outcome(r) PROVE NoLostWakeup'
  BY <1>10 DEF Outcome, OwnTurn, Waited
<1>11. ASSUME NEW r \in Requests, GiveUp(r) PROVE NoLostWakeup'
  BY <1>11 DEF GiveUp
<1>12. ASSUME NEW r \in Requests, OpenStart(r) PROVE NoLostWakeup'
  BY <1>12 DEF OpenStart, Sooner
<1>13. ASSUME NEW r \in Requests, ProbeCheckout(r) PROVE NoLostWakeup'
  BY <1>13 DEF ProbeCheckout
<1>14. ASSUME NEW r \in Requests, BeginConnect(r) PROVE NoLostWakeup'
  BY <1>14 DEF BeginConnect
<1>15. ASSUME NEW r \in Requests, StreamOpened(r) PROVE NoLostWakeup'
  BY <1>15 DEF StreamOpened
<1>16. ASSUME NEW r \in Requests, ConnectionPooled(r) PROVE NoLostWakeup'
  BY <1>16 DEF ConnectionPooled, PutInPool
<1>17. ASSUME NEW r \in Requests, ConnectError(r) PROVE NoLostWakeup'
  BY <1>17 DEF ConnectError, StopConnect
<1>18. ASSUME NEW r \in Requests, Abandon(r) PROVE NoLostWakeup'
  BY <1>18 DEF Abandon, StopConnect
<1>19. ASSUME NEW r \in Requests, RuntimeDrop(r) PROVE NoLostWakeup'
  BY <1>19 DEF RuntimeDrop, StopConnect
<1>20. ASSUME NEW r \in Requests, MarkPooled(r) PROVE NoLostWakeup'
  BY <1>20 DEF MarkPooled
<1>21. ASSUME NEW r \in Requests, RecordFailure(r) PROVE NoLostWakeup'
  BY <1>21 DEF RecordFailure, FailureOf
<1>22. ASSUME NEW r \in Requests, ReturnTurn(r) PROVE NoLostWakeup'
  BY <1>22 DEF ReturnTurn
<1>23. ASSUME NEW r \in Requests, NotifyWaiters(r) PROVE NoLostWakeup'
  BY <1>23 DEF NotifyWaiters
<1>24. ASSUME NEW r \in Requests, SendOutcome(r) PROVE NoLostWakeup'
  BY <1>24 DEF SendOutcome, Message
<1>25. ASSUME NEW r \in Requests, PoolCheckout(r) PROVE NoLostWakeup'
  BY <1>25 DEF PoolCheckout
<1>26. ASSUME NEW r \in Requests, PoolConnect(r) PROVE NoLostWakeup'
  BY <1>26 DEF PoolConnect
<1>27. ASSUME NEW r \in Requests, PoolConnected(r) PROVE NoLostWakeup'
  BY <1>27 DEF PoolConnected, PutInPool
<1>28. ASSUME NEW r \in Requests, PoolFailed(r) PROVE NoLostWakeup'
  BY <1>28 DEF PoolFailed, NoFailure
<1>29. CASE CloseConnection
  BY <1>29 DEF CloseConnection
<1>30. CASE DropStream
  BY <1>30 DEF DropStream
<1>31. CASE Tick
  BY <1>31 DEF Tick
<1>32. CASE UNCHANGED vars
  BY <1>32 DEF vars
<1>33. QED
  BY <1>1, <1>2, <1>3, <1>4, <1>5, <1>6, <1>7, <1>8, <1>9, <1>10, <1>11, <1>12, <1>13,
     <1>14, <1>15, <1>16, <1>17, <1>18, <1>19, <1>20, <1>21, <1>22, <1>23, <1>24, <1>25,
     <1>26, <1>27, <1>28, <1>29, <1>30, <1>31, <1>32
  DEF Next, RequestStep, TaskStep, NetworkStep, PoolStep

LEMMA DialerStep ==
  ASSUME TypeOK, TaskOfRequest, OneDialer, [Next]_vars
  PROVE  OneDialer'
<1> USE DEF TypeOK, OneDialer
<1>1. ASSUME NEW r \in Requests, Call(r) PROVE OneDialer'
  BY <1>1 DEF Call
<1>2. ASSUME NEW r \in Requests, LoadPooled(r) PROVE OneDialer'
  BY <1>2 DEF LoadPooled, Cold
<1>3. ASSUME NEW r \in Requests, LoadOpen(r) PROVE OneDialer'
  BY <1>3 DEF LoadOpen, Cold
<1>4. ASSUME NEW r \in Requests, Register(r) PROVE OneDialer'
  BY <1>4 DEF Register
<1>5. ASSUME NEW r \in Requests, LoadTurns(r) PROVE OneDialer'
  BY <1>5 DEF LoadTurns
<1>6. ASSUME NEW r \in Requests, TakeTurn(r) PROVE OneDialer'
  BY <1>6 DEF TakeTurn, TaskOfRequest
<1>7. ASSUME NEW r \in Requests, LoseTurn(r) PROVE OneDialer'
  BY <1>7 DEF LoseTurn
<1>8. ASSUME NEW r \in Requests, ReadClock(r) PROVE OneDialer'
  BY <1>8 DEF ReadClock
<1>9. ASSUME NEW r \in Requests, Woken(r) PROVE OneDialer'
  BY <1>9 DEF Woken, FailsWaiter, ExpiredBefore, Waited
<1>10. ASSUME NEW r \in Requests, Outcome(r) PROVE OneDialer'
  BY <1>10 DEF Outcome, OwnTurn, Waited
<1>11. ASSUME NEW r \in Requests, GiveUp(r) PROVE OneDialer'
  <2> SUFFICES ASSUME NEW q \in Requests,
                      phase'[q] \in {"connecting", "handshaking"} \/ pc'[q] = "dialing"
               PROVE  dial' = q
    OBVIOUS
  <2>0. phase[r] \notin Idle => pc[r] \in {"outcome", "gone", "failed"}
    BY DEF TaskOfRequest
  <2>1. CASE q = r
    BY <1>11, <2>0, <2>1 DEF GiveUp
  <2>2. CASE q # r
    BY <1>11, <2>2 DEF GiveUp
  <2>q. QED
    BY <2>1, <2>2
<1>12. ASSUME NEW r \in Requests, OpenStart(r) PROVE OneDialer'
  BY <1>12 DEF OpenStart, Sooner
<1>13. ASSUME NEW r \in Requests, ProbeCheckout(r) PROVE OneDialer'
  BY <1>13 DEF ProbeCheckout
<1>14. ASSUME NEW r \in Requests, BeginConnect(r) PROVE OneDialer'
  BY <1>14 DEF BeginConnect, TaskOfRequest
<1>15. ASSUME NEW r \in Requests, StreamOpened(r) PROVE OneDialer'
  BY <1>15 DEF StreamOpened, TaskOfRequest
<1>16. ASSUME NEW r \in Requests, ConnectionPooled(r) PROVE OneDialer'
  <2> SUFFICES ASSUME NEW q \in Requests,
                      phase'[q] \in {"connecting", "handshaking"} \/ pc'[q] = "dialing"
               PROVE  dial' = q
    OBVIOUS
  <2>0. phase[r] \notin Idle => pc[r] \in {"outcome", "gone", "failed"}
    BY DEF TaskOfRequest
  <2>1. CASE q = r
    BY <1>16, <2>0, <2>1 DEF ConnectionPooled, PutInPool
  <2>2. CASE q # r
    BY <1>16, <2>2 DEF ConnectionPooled, PutInPool
  <2>q. QED
    BY <2>1, <2>2
<1>17. ASSUME NEW r \in Requests, ConnectError(r) PROVE OneDialer'
  <2> SUFFICES ASSUME NEW q \in Requests,
                      phase'[q] \in {"connecting", "handshaking"} \/ pc'[q] = "dialing"
               PROVE  dial' = q
    OBVIOUS
  <2>0. phase[r] \notin Idle => pc[r] \in {"outcome", "gone", "failed"}
    BY DEF TaskOfRequest
  <2>1. CASE q = r
    BY <1>17, <2>0, <2>1 DEF ConnectError, StopConnect
  <2>2. CASE q # r
    BY <1>17, <2>2 DEF ConnectError, StopConnect
  <2>q. QED
    BY <2>1, <2>2
<1>18. ASSUME NEW r \in Requests, Abandon(r) PROVE OneDialer'
  <2> SUFFICES ASSUME NEW q \in Requests,
                      phase'[q] \in {"connecting", "handshaking"} \/ pc'[q] = "dialing"
               PROVE  dial' = q
    OBVIOUS
  <2>0. phase[r] \notin Idle => pc[r] \in {"outcome", "gone", "failed"}
    BY DEF TaskOfRequest
  <2>1. CASE q = r
    BY <1>18, <2>0, <2>1 DEF Abandon, StopConnect
  <2>2. CASE q # r
    BY <1>18, <2>2 DEF Abandon, StopConnect
  <2>q. QED
    BY <2>1, <2>2
<1>19. ASSUME NEW r \in Requests, RuntimeDrop(r) PROVE OneDialer'
  <2> SUFFICES ASSUME NEW q \in Requests,
                      phase'[q] \in {"connecting", "handshaking"} \/ pc'[q] = "dialing"
               PROVE  dial' = q
    OBVIOUS
  <2>0. phase[r] \notin Idle => pc[r] \in {"outcome", "gone", "failed"}
    BY DEF TaskOfRequest
  <2>1. CASE q = r
    BY <1>19, <2>0, <2>1 DEF RuntimeDrop, StopConnect
  <2>2. CASE q # r
    BY <1>19, <2>2 DEF RuntimeDrop, StopConnect
  <2>q. QED
    BY <2>1, <2>2
<1>20. ASSUME NEW r \in Requests, MarkPooled(r) PROVE OneDialer'
  BY <1>20 DEF MarkPooled
<1>21. ASSUME NEW r \in Requests, RecordFailure(r) PROVE OneDialer'
  BY <1>21 DEF RecordFailure, FailureOf
<1>22. ASSUME NEW r \in Requests, ReturnTurn(r) PROVE OneDialer'
  BY <1>22 DEF ReturnTurn
<1>23. ASSUME NEW r \in Requests, NotifyWaiters(r) PROVE OneDialer'
  BY <1>23 DEF NotifyWaiters
<1>24. ASSUME NEW r \in Requests, SendOutcome(r) PROVE OneDialer'
  BY <1>24 DEF SendOutcome, Message
<1>25. ASSUME NEW r \in Requests, PoolCheckout(r) PROVE OneDialer'
  BY <1>25 DEF PoolCheckout
<1>26. ASSUME NEW r \in Requests, PoolConnect(r) PROVE OneDialer'
  BY <1>26 DEF PoolConnect, TaskOfRequest
<1>27. ASSUME NEW r \in Requests, PoolConnected(r) PROVE OneDialer'
  <2> SUFFICES ASSUME NEW q \in Requests,
                      phase'[q] \in {"connecting", "handshaking"} \/ pc'[q] = "dialing"
               PROVE  dial' = q
    OBVIOUS
  <2>0. phase[r] \notin Idle => pc[r] \in {"outcome", "gone", "failed"}
    BY DEF TaskOfRequest
  <2>1. CASE q = r
    BY <1>27, <2>0, <2>1 DEF PoolConnected, PutInPool
  <2>2. CASE q # r
    BY <1>27, <2>2 DEF PoolConnected, PutInPool
  <2>q. QED
    BY <2>1, <2>2
<1>28. ASSUME NEW r \in Requests, PoolFailed(r) PROVE OneDialer'
  <2> SUFFICES ASSUME NEW q \in Requests,
                      phase'[q] \in {"connecting", "handshaking"} \/ pc'[q] = "dialing"
               PROVE  dial' = q
    OBVIOUS
  <2>0. phase[r] \notin Idle => pc[r] \in {"outcome", "gone", "failed"}
    BY DEF TaskOfRequest
  <2>1. CASE q = r
    BY <1>28, <2>0, <2>1 DEF PoolFailed
  <2>2. CASE q # r
    BY <1>28, <2>2 DEF PoolFailed
  <2>q. QED
    BY <2>1, <2>2
<1>29. CASE CloseConnection
  BY <1>29 DEF CloseConnection
<1>30. CASE DropStream
  BY <1>30 DEF DropStream
<1>31. CASE Tick
  BY <1>31 DEF Tick
<1>32. CASE UNCHANGED vars
  BY <1>32 DEF vars
<1>33. QED
  BY <1>1, <1>2, <1>3, <1>4, <1>5, <1>6, <1>7, <1>8, <1>9, <1>10, <1>11, <1>12, <1>13,
     <1>14, <1>15, <1>16, <1>17, <1>18, <1>19, <1>20, <1>21, <1>22, <1>23, <1>24, <1>25,
     <1>26, <1>27, <1>28, <1>29, <1>30, <1>31, <1>32
  DEF Next, RequestStep, TaskStep, NetworkStep, PoolStep

LEMMA StreamsStep ==
  ASSUME TypeOK, TaskOfRequest, OneDialer, StreamsCounted, [Next]_vars
  PROVE  StreamsCounted'
<1> USE DEF TypeOK, StreamsCounted
<1>1. ASSUME NEW r \in Requests, Call(r) PROVE StreamsCounted'
  BY <1>1 DEF Call, Handshakes
<1>2. ASSUME NEW r \in Requests, LoadPooled(r) PROVE StreamsCounted'
  BY <1>2 DEF LoadPooled, Cold, Handshakes
<1>3. ASSUME NEW r \in Requests, LoadOpen(r) PROVE StreamsCounted'
  BY <1>3 DEF LoadOpen, Cold, Handshakes
<1>4. ASSUME NEW r \in Requests, Register(r) PROVE StreamsCounted'
  BY <1>4 DEF Register, Handshakes
<1>5. ASSUME NEW r \in Requests, LoadTurns(r) PROVE StreamsCounted'
  BY <1>5 DEF LoadTurns, Handshakes
<1>6. ASSUME NEW r \in Requests, TakeTurn(r) PROVE StreamsCounted'
  BY <1>6 DEF TakeTurn, Handshakes, TaskOfRequest, OneDialer
<1>7. ASSUME NEW r \in Requests, LoseTurn(r) PROVE StreamsCounted'
  BY <1>7 DEF LoseTurn, Handshakes
<1>8. ASSUME NEW r \in Requests, ReadClock(r) PROVE StreamsCounted'
  BY <1>8 DEF ReadClock, Handshakes
<1>9. ASSUME NEW r \in Requests, Woken(r) PROVE StreamsCounted'
  BY <1>9 DEF Woken, FailsWaiter, ExpiredBefore, Waited, Handshakes
<1>10. ASSUME NEW r \in Requests, Outcome(r) PROVE StreamsCounted'
  BY <1>10 DEF Outcome, OwnTurn, Waited, Handshakes
<1>11. ASSUME NEW r \in Requests, GiveUp(r) PROVE StreamsCounted'
  BY <1>11 DEF GiveUp, Handshakes
<1>12. ASSUME NEW r \in Requests, OpenStart(r) PROVE StreamsCounted'
  BY <1>12 DEF OpenStart, Sooner, Handshakes
<1>13. ASSUME NEW r \in Requests, ProbeCheckout(r) PROVE StreamsCounted'
  BY <1>13 DEF ProbeCheckout, Handshakes
<1>14. ASSUME NEW r \in Requests, BeginConnect(r) PROVE StreamsCounted'
  BY <1>14 DEF BeginConnect, Handshakes, TaskOfRequest, OneDialer
<1>15. ASSUME NEW r \in Requests, StreamOpened(r) PROVE StreamsCounted'
  BY <1>15 DEF StreamOpened, Handshakes, TaskOfRequest, OneDialer
<1>16. ASSUME NEW r \in Requests, ConnectionPooled(r) PROVE StreamsCounted'
  BY <1>16 DEF ConnectionPooled, PutInPool, Handshakes, TaskOfRequest, OneDialer
<1>17. ASSUME NEW r \in Requests, ConnectError(r) PROVE StreamsCounted'
  BY <1>17 DEF ConnectError, StopConnect, Handshakes, TaskOfRequest, OneDialer
<1>18. ASSUME NEW r \in Requests, Abandon(r) PROVE StreamsCounted'
  BY <1>18 DEF Abandon, StopConnect, Handshakes, TaskOfRequest, OneDialer
<1>19. ASSUME NEW r \in Requests, RuntimeDrop(r) PROVE StreamsCounted'
  BY <1>19 DEF RuntimeDrop, StopConnect, Handshakes, TaskOfRequest, OneDialer
<1>20. ASSUME NEW r \in Requests, MarkPooled(r) PROVE StreamsCounted'
  BY <1>20 DEF MarkPooled, Handshakes
<1>21. ASSUME NEW r \in Requests, RecordFailure(r) PROVE StreamsCounted'
  BY <1>21 DEF RecordFailure, FailureOf, Handshakes
<1>22. ASSUME NEW r \in Requests, ReturnTurn(r) PROVE StreamsCounted'
  BY <1>22 DEF ReturnTurn, Handshakes
<1>23. ASSUME NEW r \in Requests, NotifyWaiters(r) PROVE StreamsCounted'
  BY <1>23 DEF NotifyWaiters, Handshakes
<1>24. ASSUME NEW r \in Requests, SendOutcome(r) PROVE StreamsCounted'
  BY <1>24 DEF SendOutcome, Message, Handshakes
<1>25. ASSUME NEW r \in Requests, PoolCheckout(r) PROVE StreamsCounted'
  BY <1>25 DEF PoolCheckout, Handshakes
<1>26. ASSUME NEW r \in Requests, PoolConnect(r) PROVE StreamsCounted'
  BY <1>26 DEF PoolConnect, Handshakes
<1>27. ASSUME NEW r \in Requests, PoolConnected(r) PROVE StreamsCounted'
  BY <1>27 DEF PoolConnected, PutInPool, Handshakes, TaskOfRequest, OneDialer
<1>28. ASSUME NEW r \in Requests, PoolFailed(r) PROVE StreamsCounted'
  BY <1>28 DEF PoolFailed, NoFailure, Handshakes
<1>29. CASE CloseConnection
  BY <1>29 DEF CloseConnection, Handshakes
<1>30. CASE DropStream
  BY <1>30 DEF DropStream, Handshakes
<1>31. CASE Tick
  BY <1>31 DEF Tick, Handshakes
<1>32. CASE UNCHANGED vars
  BY <1>32 DEF vars, Handshakes
<1>33. QED
  BY <1>1, <1>2, <1>3, <1>4, <1>5, <1>6, <1>7, <1>8, <1>9, <1>10, <1>11, <1>12, <1>13,
     <1>14, <1>15, <1>16, <1>17, <1>18, <1>19, <1>20, <1>21, <1>22, <1>23, <1>24, <1>25,
     <1>26, <1>27, <1>28, <1>29, <1>30, <1>31, <1>32
  DEF Next, RequestStep, TaskStep, NetworkStep, PoolStep

LEMMA ColdStep ==
  ASSUME TypeOK, OneOpener, ColdWhileConnecting, [Next]_vars
  PROVE  ColdWhileConnecting'
<1> USE DEF TypeOK, ColdWhileConnecting
<1>1. ASSUME NEW r \in Requests, Call(r) PROVE ColdWhileConnecting'
  BY <1>1 DEF Call
<1>2. ASSUME NEW r \in Requests, LoadPooled(r) PROVE ColdWhileConnecting'
  BY <1>2 DEF LoadPooled, Cold
<1>3. ASSUME NEW r \in Requests, LoadOpen(r) PROVE ColdWhileConnecting'
  BY <1>3 DEF LoadOpen, Cold
<1>4. ASSUME NEW r \in Requests, Register(r) PROVE ColdWhileConnecting'
  BY <1>4 DEF Register
<1>5. ASSUME NEW r \in Requests, LoadTurns(r) PROVE ColdWhileConnecting'
  BY <1>5 DEF LoadTurns
<1>6. ASSUME NEW r \in Requests, TakeTurn(r) PROVE ColdWhileConnecting'
  BY <1>6 DEF TakeTurn
<1>7. ASSUME NEW r \in Requests, LoseTurn(r) PROVE ColdWhileConnecting'
  BY <1>7 DEF LoseTurn
<1>8. ASSUME NEW r \in Requests, ReadClock(r) PROVE ColdWhileConnecting'
  BY <1>8 DEF ReadClock
<1>9. ASSUME NEW r \in Requests, Woken(r) PROVE ColdWhileConnecting'
  BY <1>9 DEF Woken, FailsWaiter, ExpiredBefore, Waited
<1>10. ASSUME NEW r \in Requests, Outcome(r) PROVE ColdWhileConnecting'
  BY <1>10 DEF Outcome, OwnTurn, Waited
<1>11. ASSUME NEW r \in Requests, GiveUp(r) PROVE ColdWhileConnecting'
  BY <1>11 DEF GiveUp
<1>12. ASSUME NEW r \in Requests, OpenStart(r) PROVE ColdWhileConnecting'
  BY <1>12 DEF OpenStart, Sooner
<1>13. ASSUME NEW r \in Requests, ProbeCheckout(r) PROVE ColdWhileConnecting'
  BY <1>13 DEF ProbeCheckout
<1>14. ASSUME NEW r \in Requests, BeginConnect(r) PROVE ColdWhileConnecting'
  BY <1>14, ZenonT(60) DEF BeginConnect
<1>15. ASSUME NEW r \in Requests, StreamOpened(r) PROVE ColdWhileConnecting'
  BY <1>15 DEF StreamOpened
<1>16. ASSUME NEW r \in Requests, ConnectionPooled(r) PROVE ColdWhileConnecting'
  BY <1>16 DEF ConnectionPooled, PutInPool
<1>17. ASSUME NEW r \in Requests, ConnectError(r) PROVE ColdWhileConnecting'
  BY <1>17 DEF ConnectError, StopConnect
<1>18. ASSUME NEW r \in Requests, Abandon(r) PROVE ColdWhileConnecting'
  BY <1>18 DEF Abandon, StopConnect
<1>19. ASSUME NEW r \in Requests, RuntimeDrop(r) PROVE ColdWhileConnecting'
  BY <1>19 DEF RuntimeDrop, StopConnect
<1>20. ASSUME NEW r \in Requests, MarkPooled(r) PROVE ColdWhileConnecting'
  BY <1>20 DEF MarkPooled, OneOpener
<1>21. ASSUME NEW r \in Requests, RecordFailure(r) PROVE ColdWhileConnecting'
  BY <1>21 DEF RecordFailure, FailureOf
<1>22. ASSUME NEW r \in Requests, ReturnTurn(r) PROVE ColdWhileConnecting'
  BY <1>22 DEF ReturnTurn
<1>23. ASSUME NEW r \in Requests, NotifyWaiters(r) PROVE ColdWhileConnecting'
  BY <1>23 DEF NotifyWaiters
<1>24. ASSUME NEW r \in Requests, SendOutcome(r) PROVE ColdWhileConnecting'
  BY <1>24 DEF SendOutcome, Message
<1>25. ASSUME NEW r \in Requests, PoolCheckout(r) PROVE ColdWhileConnecting'
  BY <1>25 DEF PoolCheckout
<1>26. ASSUME NEW r \in Requests, PoolConnect(r) PROVE ColdWhileConnecting'
  BY <1>26 DEF PoolConnect
<1>27. ASSUME NEW r \in Requests, PoolConnected(r) PROVE ColdWhileConnecting'
  BY <1>27 DEF PoolConnected, PutInPool
<1>28. ASSUME NEW r \in Requests, PoolFailed(r) PROVE ColdWhileConnecting'
  BY <1>28 DEF PoolFailed, NoFailure
<1>29. CASE CloseConnection
  BY <1>29 DEF CloseConnection
<1>30. CASE DropStream
  BY <1>30 DEF DropStream
<1>31. CASE Tick
  BY <1>31 DEF Tick
<1>32. CASE UNCHANGED vars
  BY <1>32 DEF vars
<1>33. QED
  BY <1>1, <1>2, <1>3, <1>4, <1>5, <1>6, <1>7, <1>8, <1>9, <1>10, <1>11, <1>12, <1>13,
     <1>14, <1>15, <1>16, <1>17, <1>18, <1>19, <1>20, <1>21, <1>22, <1>23, <1>24, <1>25,
     <1>26, <1>27, <1>28, <1>29, <1>30, <1>31, <1>32
  DEF Next, RequestStep, TaskStep, NetworkStep, PoolStep

LEMMA ArrivalsStep ==
  ASSUME TypeOK, Arrivals, [Next]_vars
  PROVE  Arrivals'
<1> USE DEF TypeOK, Arrivals
<1>1. ASSUME NEW r \in Requests, Call(r) PROVE Arrivals'
  BY <1>1 DEF Call
<1>2. ASSUME NEW r \in Requests, LoadPooled(r) PROVE Arrivals'
  BY <1>2 DEF LoadPooled, Cold
<1>3. ASSUME NEW r \in Requests, LoadOpen(r) PROVE Arrivals'
  BY <1>3 DEF LoadOpen, Cold
<1>4. ASSUME NEW r \in Requests, Register(r) PROVE Arrivals'
  BY <1>4 DEF Register
<1>5. ASSUME NEW r \in Requests, LoadTurns(r) PROVE Arrivals'
  BY <1>5 DEF LoadTurns
<1>6. ASSUME NEW r \in Requests, TakeTurn(r) PROVE Arrivals'
  BY <1>6 DEF TakeTurn
<1>7. ASSUME NEW r \in Requests, LoseTurn(r) PROVE Arrivals'
  BY <1>7 DEF LoseTurn
<1>8. ASSUME NEW r \in Requests, ReadClock(r) PROVE Arrivals'
  BY <1>8 DEF ReadClock
<1>9. ASSUME NEW r \in Requests, Woken(r) PROVE Arrivals'
  BY <1>9 DEF Woken, FailsWaiter, ExpiredBefore, Waited
<1>10. ASSUME NEW r \in Requests, Outcome(r) PROVE Arrivals'
  BY <1>10 DEF Outcome, OwnTurn, Waited
<1>11. ASSUME NEW r \in Requests, GiveUp(r) PROVE Arrivals'
  BY <1>11 DEF GiveUp
<1>12. ASSUME NEW r \in Requests, OpenStart(r) PROVE Arrivals'
  BY <1>12 DEF OpenStart, Sooner
<1>13. ASSUME NEW r \in Requests, ProbeCheckout(r) PROVE Arrivals'
  BY <1>13 DEF ProbeCheckout
<1>14. ASSUME NEW r \in Requests, BeginConnect(r) PROVE Arrivals'
  BY <1>14 DEF BeginConnect
<1>15. ASSUME NEW r \in Requests, StreamOpened(r) PROVE Arrivals'
  BY <1>15 DEF StreamOpened
<1>16. ASSUME NEW r \in Requests, ConnectionPooled(r) PROVE Arrivals'
  BY <1>16 DEF ConnectionPooled, PutInPool
<1>17. ASSUME NEW r \in Requests, ConnectError(r) PROVE Arrivals'
  BY <1>17 DEF ConnectError, StopConnect
<1>18. ASSUME NEW r \in Requests, Abandon(r) PROVE Arrivals'
  BY <1>18 DEF Abandon, StopConnect
<1>19. ASSUME NEW r \in Requests, RuntimeDrop(r) PROVE Arrivals'
  BY <1>19 DEF RuntimeDrop, StopConnect
<1>20. ASSUME NEW r \in Requests, MarkPooled(r) PROVE Arrivals'
  BY <1>20 DEF MarkPooled
<1>21. ASSUME NEW r \in Requests, RecordFailure(r) PROVE Arrivals'
  BY <1>21 DEF RecordFailure, FailureOf
<1>22. ASSUME NEW r \in Requests, ReturnTurn(r) PROVE Arrivals'
  BY <1>22 DEF ReturnTurn
<1>23. ASSUME NEW r \in Requests, NotifyWaiters(r) PROVE Arrivals'
  BY <1>23 DEF NotifyWaiters
<1>24. ASSUME NEW r \in Requests, SendOutcome(r) PROVE Arrivals'
  BY <1>24 DEF SendOutcome, Message
<1>25. ASSUME NEW r \in Requests, PoolCheckout(r) PROVE Arrivals'
  BY <1>25 DEF PoolCheckout
<1>26. ASSUME NEW r \in Requests, PoolConnect(r) PROVE Arrivals'
  BY <1>26 DEF PoolConnect
<1>27. ASSUME NEW r \in Requests, PoolConnected(r) PROVE Arrivals'
  BY <1>27 DEF PoolConnected, PutInPool
<1>28. ASSUME NEW r \in Requests, PoolFailed(r) PROVE Arrivals'
  BY <1>28 DEF PoolFailed, NoFailure
<1>29. CASE CloseConnection
  BY <1>29 DEF CloseConnection
<1>30. CASE DropStream
  BY <1>30 DEF DropStream
<1>31. CASE Tick
  BY <1>31 DEF Tick
<1>32. CASE UNCHANGED vars
  BY <1>32 DEF vars
<1>33. QED
  BY <1>1, <1>2, <1>3, <1>4, <1>5, <1>6, <1>7, <1>8, <1>9, <1>10, <1>11, <1>12, <1>13,
     <1>14, <1>15, <1>16, <1>17, <1>18, <1>19, <1>20, <1>21, <1>22, <1>23, <1>24, <1>25,
     <1>26, <1>27, <1>28, <1>29, <1>30, <1>31, <1>32
  DEF Next, RequestStep, TaskStep, NetworkStep, PoolStep

LEMMA BoundStep ==
  ASSUME TypeOK, Arrivals, BoundSparesLater, [Next]_vars
  PROVE  BoundSparesLater'
<1> USE DEF TypeOK, BoundSparesLater
<1>1. ASSUME NEW r \in Requests, Call(r) PROVE BoundSparesLater'
  BY <1>1 DEF Call, Arrivals
<1>2. ASSUME NEW r \in Requests, LoadPooled(r) PROVE BoundSparesLater'
  BY <1>2 DEF LoadPooled, Cold
<1>3. ASSUME NEW r \in Requests, LoadOpen(r) PROVE BoundSparesLater'
  BY <1>3 DEF LoadOpen, Cold, Arrivals
<1>4. ASSUME NEW r \in Requests, Register(r) PROVE BoundSparesLater'
  BY <1>4 DEF Register
<1>5. ASSUME NEW r \in Requests, LoadTurns(r) PROVE BoundSparesLater'
  BY <1>5 DEF LoadTurns
<1>6. ASSUME NEW r \in Requests, TakeTurn(r) PROVE BoundSparesLater'
  BY <1>6 DEF TakeTurn
<1>7. ASSUME NEW r \in Requests, LoseTurn(r) PROVE BoundSparesLater'
  BY <1>7 DEF LoseTurn
<1>8. ASSUME NEW r \in Requests, ReadClock(r) PROVE BoundSparesLater'
  BY <1>8 DEF ReadClock
<1>9. ASSUME NEW r \in Requests, Woken(r) PROVE BoundSparesLater'
  BY <1>9 DEF Woken, FailsWaiter, ExpiredBefore, Waited, Arrivals
<1>10. ASSUME NEW r \in Requests, Outcome(r) PROVE BoundSparesLater'
  BY <1>10 DEF Outcome, OwnTurn, Waited, Arrivals
<1>11. ASSUME NEW r \in Requests, GiveUp(r) PROVE BoundSparesLater'
  BY <1>11 DEF GiveUp, Arrivals
<1>12. ASSUME NEW r \in Requests, OpenStart(r) PROVE BoundSparesLater'
  BY <1>12 DEF OpenStart, Sooner
<1>13. ASSUME NEW r \in Requests, ProbeCheckout(r) PROVE BoundSparesLater'
  BY <1>13 DEF ProbeCheckout
<1>14. ASSUME NEW r \in Requests, BeginConnect(r) PROVE BoundSparesLater'
  BY <1>14 DEF BeginConnect
<1>15. ASSUME NEW r \in Requests, StreamOpened(r) PROVE BoundSparesLater'
  BY <1>15 DEF StreamOpened
<1>16. ASSUME NEW r \in Requests, ConnectionPooled(r) PROVE BoundSparesLater'
  BY <1>16 DEF ConnectionPooled, PutInPool
<1>17. ASSUME NEW r \in Requests, ConnectError(r) PROVE BoundSparesLater'
  BY <1>17 DEF ConnectError, StopConnect
<1>18. ASSUME NEW r \in Requests, Abandon(r) PROVE BoundSparesLater'
  BY <1>18 DEF Abandon, StopConnect
<1>19. ASSUME NEW r \in Requests, RuntimeDrop(r) PROVE BoundSparesLater'
  BY <1>19 DEF RuntimeDrop, StopConnect
<1>20. ASSUME NEW r \in Requests, MarkPooled(r) PROVE BoundSparesLater'
  BY <1>20 DEF MarkPooled
<1>21. ASSUME NEW r \in Requests, RecordFailure(r) PROVE BoundSparesLater'
  BY <1>21 DEF RecordFailure, FailureOf
<1>22. ASSUME NEW r \in Requests, ReturnTurn(r) PROVE BoundSparesLater'
  BY <1>22 DEF ReturnTurn
<1>23. ASSUME NEW r \in Requests, NotifyWaiters(r) PROVE BoundSparesLater'
  BY <1>23 DEF NotifyWaiters
<1>24. ASSUME NEW r \in Requests, SendOutcome(r) PROVE BoundSparesLater'
  BY <1>24 DEF SendOutcome, Message
<1>25. ASSUME NEW r \in Requests, PoolCheckout(r) PROVE BoundSparesLater'
  BY <1>25 DEF PoolCheckout
<1>26. ASSUME NEW r \in Requests, PoolConnect(r) PROVE BoundSparesLater'
  BY <1>26 DEF PoolConnect
<1>27. ASSUME NEW r \in Requests, PoolConnected(r) PROVE BoundSparesLater'
  BY <1>27 DEF PoolConnected, PutInPool
<1>28. ASSUME NEW r \in Requests, PoolFailed(r) PROVE BoundSparesLater'
  BY <1>28 DEF PoolFailed, NoFailure, Arrivals
<1>29. CASE CloseConnection
  BY <1>29 DEF CloseConnection
<1>30. CASE DropStream
  BY <1>30 DEF DropStream
<1>31. CASE Tick
  BY <1>31 DEF Tick
<1>32. CASE UNCHANGED vars
  BY <1>32 DEF vars
<1>33. QED
  BY <1>1, <1>2, <1>3, <1>4, <1>5, <1>6, <1>7, <1>8, <1>9, <1>10, <1>11, <1>12, <1>13,
     <1>14, <1>15, <1>16, <1>17, <1>18, <1>19, <1>20, <1>21, <1>22, <1>23, <1>24, <1>25,
     <1>26, <1>27, <1>28, <1>29, <1>30, <1>31, <1>32
  DEF Next, RequestStep, TaskStep, NetworkStep, PoolStep

LEMMA RecordStep ==
  ASSUME TypeOK, TaskOfRequest, OneOpener, FailureOnRecord, [Next]_vars
  PROVE  FailureOnRecord'
<1> USE DEF TypeOK, FailureOnRecord
<1>1. ASSUME NEW r \in Requests, Call(r) PROVE FailureOnRecord'
  BY <1>1 DEF Call
<1>2. ASSUME NEW r \in Requests, LoadPooled(r) PROVE FailureOnRecord'
  BY <1>2 DEF LoadPooled, Cold
<1>3. ASSUME NEW r \in Requests, LoadOpen(r) PROVE FailureOnRecord'
  BY <1>3 DEF LoadOpen, Cold
<1>4. ASSUME NEW r \in Requests, Register(r) PROVE FailureOnRecord'
  BY <1>4 DEF Register
<1>5. ASSUME NEW r \in Requests, LoadTurns(r) PROVE FailureOnRecord'
  BY <1>5 DEF LoadTurns
<1>6. ASSUME NEW r \in Requests, TakeTurn(r) PROVE FailureOnRecord'
  BY <1>6 DEF TakeTurn, OneOpener, TaskOfRequest
<1>7. ASSUME NEW r \in Requests, LoseTurn(r) PROVE FailureOnRecord'
  BY <1>7 DEF LoseTurn
<1>8. ASSUME NEW r \in Requests, ReadClock(r) PROVE FailureOnRecord'
  BY <1>8 DEF ReadClock
<1>9. ASSUME NEW r \in Requests, Woken(r) PROVE FailureOnRecord'
  BY <1>9 DEF Woken, FailsWaiter, ExpiredBefore, Waited
<1>10. ASSUME NEW r \in Requests, Outcome(r) PROVE FailureOnRecord'
  BY <1>10 DEF Outcome, OwnTurn, Waited
<1>11. ASSUME NEW r \in Requests, GiveUp(r) PROVE FailureOnRecord'
  BY <1>11 DEF GiveUp
<1>12. ASSUME NEW r \in Requests, OpenStart(r) PROVE FailureOnRecord'
  BY <1>12 DEF OpenStart, Sooner
<1>13. ASSUME NEW r \in Requests, ProbeCheckout(r) PROVE FailureOnRecord'
  BY <1>13 DEF ProbeCheckout
<1>14. ASSUME NEW r \in Requests, BeginConnect(r) PROVE FailureOnRecord'
  BY <1>14 DEF BeginConnect
<1>15. ASSUME NEW r \in Requests, StreamOpened(r) PROVE FailureOnRecord'
  BY <1>15 DEF StreamOpened
<1>16. ASSUME NEW r \in Requests, ConnectionPooled(r) PROVE FailureOnRecord'
  BY <1>16 DEF ConnectionPooled, PutInPool
<1>17. ASSUME NEW r \in Requests, ConnectError(r) PROVE FailureOnRecord'
  BY <1>17 DEF ConnectError, StopConnect
<1>18. ASSUME NEW r \in Requests, Abandon(r) PROVE FailureOnRecord'
  BY <1>18 DEF Abandon, StopConnect
<1>19. ASSUME NEW r \in Requests, RuntimeDrop(r) PROVE FailureOnRecord'
  BY <1>19 DEF RuntimeDrop, StopConnect
<1>20. ASSUME NEW r \in Requests, MarkPooled(r) PROVE FailureOnRecord'
  BY <1>20 DEF MarkPooled, OneOpener, TaskOfRequest
<1>21. ASSUME NEW r \in Requests, RecordFailure(r) PROVE FailureOnRecord'
  BY <1>21 DEF RecordFailure, FailureOf, OneOpener, TaskOfRequest
<1>22. ASSUME NEW r \in Requests, ReturnTurn(r) PROVE FailureOnRecord'
  BY <1>22 DEF ReturnTurn, OneOpener, TaskOfRequest
<1>23. ASSUME NEW r \in Requests, NotifyWaiters(r) PROVE FailureOnRecord'
  BY <1>23 DEF NotifyWaiters
<1>24. ASSUME NEW r \in Requests, SendOutcome(r) PROVE FailureOnRecord'
  BY <1>24 DEF SendOutcome, Message, OneOpener, TaskOfRequest
<1>25. ASSUME NEW r \in Requests, PoolCheckout(r) PROVE FailureOnRecord'
  BY <1>25 DEF PoolCheckout
<1>26. ASSUME NEW r \in Requests, PoolConnect(r) PROVE FailureOnRecord'
  BY <1>26 DEF PoolConnect
<1>27. ASSUME NEW r \in Requests, PoolConnected(r) PROVE FailureOnRecord'
  BY <1>27 DEF PoolConnected, PutInPool
<1>28. ASSUME NEW r \in Requests, PoolFailed(r) PROVE FailureOnRecord'
  BY <1>28 DEF PoolFailed, NoFailure
<1>29. CASE CloseConnection
  BY <1>29 DEF CloseConnection
<1>30. CASE DropStream
  BY <1>30 DEF DropStream
<1>31. CASE Tick
  BY <1>31 DEF Tick
<1>32. CASE UNCHANGED vars
  BY <1>32 DEF vars
<1>33. QED
  BY <1>1, <1>2, <1>3, <1>4, <1>5, <1>6, <1>7, <1>8, <1>9, <1>10, <1>11, <1>12, <1>13,
     <1>14, <1>15, <1>16, <1>17, <1>18, <1>19, <1>20, <1>21, <1>22, <1>23, <1>24, <1>25,
     <1>26, <1>27, <1>28, <1>29, <1>30, <1>31, <1>32
  DEF Next, RequestStep, TaskStep, NetworkStep, PoolStep

LEMMA OwnTurnStep ==
  ASSUME TypeOK, TaskOfRequest, OneOpener, FailureOnRecord, OwnTurnLost, [Next]_vars
  PROVE  OwnTurnLost'
<1> USE DEF TypeOK, OneOpener, TaskOfRequest, FailureOnRecord, OwnTurnLost
<1>1. ASSUME NEW r \in Requests, Call(r) PROVE OwnTurnLost'
  BY <1>1 DEF Call
<1>2. ASSUME NEW r \in Requests, LoadPooled(r) PROVE OwnTurnLost'
  BY <1>2 DEF LoadPooled, Cold
<1>3. ASSUME NEW r \in Requests, LoadOpen(r) PROVE OwnTurnLost'
  BY <1>3 DEF LoadOpen, Cold
<1>4. ASSUME NEW r \in Requests, Register(r) PROVE OwnTurnLost'
  BY <1>4 DEF Register
<1>5. ASSUME NEW r \in Requests, LoadTurns(r) PROVE OwnTurnLost'
  BY <1>5 DEF LoadTurns
<1>6. ASSUME NEW r \in Requests, TakeTurn(r) PROVE OwnTurnLost'
  BY <1>6 DEF TakeTurn
<1>7. ASSUME NEW r \in Requests, LoseTurn(r) PROVE OwnTurnLost'
  BY <1>7 DEF LoseTurn
<1>8. ASSUME NEW r \in Requests, ReadClock(r) PROVE OwnTurnLost'
  BY <1>8 DEF ReadClock
<1>9. ASSUME NEW r \in Requests, Woken(r) PROVE OwnTurnLost'
  BY <1>9 DEF Woken, FailsWaiter, ExpiredBefore, Waited
<1>10. ASSUME NEW r \in Requests, Outcome(r) PROVE OwnTurnLost'
  BY <1>10 DEF Outcome, OwnTurn, Waited
<1>11. ASSUME NEW r \in Requests, GiveUp(r) PROVE OwnTurnLost'
  BY <1>11 DEF GiveUp
<1>12. ASSUME NEW r \in Requests, OpenStart(r) PROVE OwnTurnLost'
  BY <1>12 DEF OpenStart, Sooner
<1>13. ASSUME NEW r \in Requests, ProbeCheckout(r) PROVE OwnTurnLost'
  BY <1>13 DEF ProbeCheckout
<1>14. ASSUME NEW r \in Requests, BeginConnect(r) PROVE OwnTurnLost'
  BY <1>14 DEF BeginConnect
<1>15. ASSUME NEW r \in Requests, StreamOpened(r) PROVE OwnTurnLost'
  BY <1>15 DEF StreamOpened
<1>16. ASSUME NEW r \in Requests, ConnectionPooled(r) PROVE OwnTurnLost'
  BY <1>16 DEF ConnectionPooled, PutInPool
<1>17. ASSUME NEW r \in Requests, ConnectError(r) PROVE OwnTurnLost'
  BY <1>17 DEF ConnectError, StopConnect
<1>18. ASSUME NEW r \in Requests, Abandon(r) PROVE OwnTurnLost'
  BY <1>18 DEF Abandon, StopConnect
<1>19. ASSUME NEW r \in Requests, RuntimeDrop(r) PROVE OwnTurnLost'
  BY <1>19 DEF RuntimeDrop, StopConnect
<1>20. ASSUME NEW r \in Requests, MarkPooled(r) PROVE OwnTurnLost'
  BY <1>20 DEF MarkPooled
<1>21. ASSUME NEW r \in Requests, RecordFailure(r) PROVE OwnTurnLost'
  BY <1>21 DEF RecordFailure, FailureOf
<1>22. ASSUME NEW r \in Requests, ReturnTurn(r) PROVE OwnTurnLost'
  BY <1>22 DEF ReturnTurn
<1>23. ASSUME NEW r \in Requests, NotifyWaiters(r) PROVE OwnTurnLost'
  BY <1>23 DEF NotifyWaiters
<1>24. ASSUME NEW r \in Requests, SendOutcome(r) PROVE OwnTurnLost'
  BY <1>24 DEF SendOutcome, Message
<1>25. ASSUME NEW r \in Requests, PoolCheckout(r) PROVE OwnTurnLost'
  BY <1>25 DEF PoolCheckout
<1>26. ASSUME NEW r \in Requests, PoolConnect(r) PROVE OwnTurnLost'
  BY <1>26 DEF PoolConnect
<1>27. ASSUME NEW r \in Requests, PoolConnected(r) PROVE OwnTurnLost'
  BY <1>27 DEF PoolConnected, PutInPool
<1>28. ASSUME NEW r \in Requests, PoolFailed(r) PROVE OwnTurnLost'
  BY <1>28 DEF PoolFailed, NoFailure
<1>29. CASE CloseConnection
  BY <1>29 DEF CloseConnection
<1>30. CASE DropStream
  BY <1>30 DEF DropStream
<1>31. CASE Tick
  BY <1>31 DEF Tick
<1>32. CASE UNCHANGED vars
  BY <1>32 DEF vars
<1>33. QED
  BY <1>1, <1>2, <1>3, <1>4, <1>5, <1>6, <1>7, <1>8, <1>9, <1>10, <1>11, <1>12, <1>13,
     <1>14, <1>15, <1>16, <1>17, <1>18, <1>19, <1>20, <1>21, <1>22, <1>23, <1>24, <1>25,
     <1>26, <1>27, <1>28, <1>29, <1>30, <1>31, <1>32
  DEF Next, RequestStep, TaskStep, NetworkStep, PoolStep

LEMMA NoneLostStep ==
  ASSUME TypeOK, OneOpener, NoneLost, OneConnection, [Next]_vars
  PROVE  NoneLost'
<1> USE DEF TypeOK, NoneLost
<1>1. ASSUME NEW r \in Requests, Call(r) PROVE NoneLost'
  BY <1>1 DEF Call
<1>2. ASSUME NEW r \in Requests, LoadPooled(r) PROVE NoneLost'
  BY <1>2 DEF LoadPooled, Cold
<1>3. ASSUME NEW r \in Requests, LoadOpen(r) PROVE NoneLost'
  BY <1>3 DEF LoadOpen, Cold
<1>4. ASSUME NEW r \in Requests, Register(r) PROVE NoneLost'
  BY <1>4 DEF Register
<1>5. ASSUME NEW r \in Requests, LoadTurns(r) PROVE NoneLost'
  BY <1>5 DEF LoadTurns
<1>6. ASSUME NEW r \in Requests, TakeTurn(r) PROVE NoneLost'
  BY <1>6 DEF TakeTurn
<1>7. ASSUME NEW r \in Requests, LoseTurn(r) PROVE NoneLost'
  BY <1>7 DEF LoseTurn
<1>8. ASSUME NEW r \in Requests, ReadClock(r) PROVE NoneLost'
  BY <1>8 DEF ReadClock
<1>9. ASSUME NEW r \in Requests, Woken(r) PROVE NoneLost'
  BY <1>9 DEF Woken, FailsWaiter, ExpiredBefore, Waited
<1>10. ASSUME NEW r \in Requests, Outcome(r) PROVE NoneLost'
  BY <1>10 DEF Outcome, OwnTurn, Waited
<1>11. ASSUME NEW r \in Requests, GiveUp(r) PROVE NoneLost'
  BY <1>11 DEF GiveUp
<1>12. ASSUME NEW r \in Requests, OpenStart(r) PROVE NoneLost'
  BY <1>12 DEF OpenStart, Sooner
<1>13. ASSUME NEW r \in Requests, ProbeCheckout(r) PROVE NoneLost'
  BY <1>13 DEF ProbeCheckout, OneOpener, OneConnection
<1>14. ASSUME NEW r \in Requests, BeginConnect(r) PROVE NoneLost'
  BY <1>14 DEF BeginConnect, OneOpener, OneConnection
<1>15. ASSUME NEW r \in Requests, StreamOpened(r) PROVE NoneLost'
  BY <1>15 DEF StreamOpened, OneOpener, OneConnection
<1>16. ASSUME NEW r \in Requests, ConnectionPooled(r) PROVE NoneLost'
  BY <1>16 DEF ConnectionPooled, PutInPool, OneOpener, OneConnection
<1>17. ASSUME NEW r \in Requests, ConnectError(r) PROVE NoneLost'
  BY <1>17 DEF ConnectError, StopConnect
<1>18. ASSUME NEW r \in Requests, Abandon(r) PROVE NoneLost'
  BY <1>18 DEF Abandon, StopConnect
<1>19. ASSUME NEW r \in Requests, RuntimeDrop(r) PROVE NoneLost'
  BY <1>19 DEF RuntimeDrop, StopConnect
<1>20. ASSUME NEW r \in Requests, MarkPooled(r) PROVE NoneLost'
  BY <1>20 DEF MarkPooled
<1>21. ASSUME NEW r \in Requests, RecordFailure(r) PROVE NoneLost'
  BY <1>21 DEF RecordFailure, FailureOf
<1>22. ASSUME NEW r \in Requests, ReturnTurn(r) PROVE NoneLost'
  BY <1>22 DEF ReturnTurn
<1>23. ASSUME NEW r \in Requests, NotifyWaiters(r) PROVE NoneLost'
  BY <1>23 DEF NotifyWaiters
<1>24. ASSUME NEW r \in Requests, SendOutcome(r) PROVE NoneLost'
  BY <1>24 DEF SendOutcome, Message
<1>25. ASSUME NEW r \in Requests, PoolCheckout(r) PROVE NoneLost'
  BY <1>25 DEF PoolCheckout, OneOpener, OneConnection
<1>26. ASSUME NEW r \in Requests, PoolConnect(r) PROVE NoneLost'
  BY <1>26 DEF PoolConnect, OneOpener, OneConnection
<1>27. ASSUME NEW r \in Requests, PoolConnected(r) PROVE NoneLost'
  BY <1>27 DEF PoolConnected, PutInPool, OneOpener, OneConnection
<1>28. ASSUME NEW r \in Requests, PoolFailed(r) PROVE NoneLost'
  BY <1>28 DEF PoolFailed, NoFailure
<1>29. CASE CloseConnection
  BY <1>29 DEF CloseConnection
<1>30. CASE DropStream
  BY <1>30 DEF DropStream
<1>31. CASE Tick
  BY <1>31 DEF Tick
<1>32. CASE UNCHANGED vars
  BY <1>32 DEF vars
<1>33. QED
  BY <1>1, <1>2, <1>3, <1>4, <1>5, <1>6, <1>7, <1>8, <1>9, <1>10, <1>11, <1>12, <1>13,
     <1>14, <1>15, <1>16, <1>17, <1>18, <1>19, <1>20, <1>21, <1>22, <1>23, <1>24, <1>25,
     <1>26, <1>27, <1>28, <1>29, <1>30, <1>31, <1>32
  DEF Next, RequestStep, TaskStep, NetworkStep, PoolStep

LEMMA ConnectionStep ==
  ASSUME TypeOK, NoneLost, OneConnection, [Next]_vars
  PROVE  OneConnection'
<1> USE DEF TypeOK, OneConnection
<1>1. ASSUME NEW r \in Requests, Call(r) PROVE OneConnection'
  BY <1>1 DEF Call, NoneLost
<1>2. ASSUME NEW r \in Requests, LoadPooled(r) PROVE OneConnection'
  BY <1>2 DEF LoadPooled, Cold, NoneLost
<1>3. ASSUME NEW r \in Requests, LoadOpen(r) PROVE OneConnection'
  BY <1>3 DEF LoadOpen, Cold, NoneLost
<1>4. ASSUME NEW r \in Requests, Register(r) PROVE OneConnection'
  BY <1>4 DEF Register, NoneLost
<1>5. ASSUME NEW r \in Requests, LoadTurns(r) PROVE OneConnection'
  BY <1>5 DEF LoadTurns, NoneLost
<1>6. ASSUME NEW r \in Requests, TakeTurn(r) PROVE OneConnection'
  BY <1>6 DEF TakeTurn, NoneLost
<1>7. ASSUME NEW r \in Requests, LoseTurn(r) PROVE OneConnection'
  BY <1>7 DEF LoseTurn, NoneLost
<1>8. ASSUME NEW r \in Requests, ReadClock(r) PROVE OneConnection'
  BY <1>8 DEF ReadClock, NoneLost
<1>9. ASSUME NEW r \in Requests, Woken(r) PROVE OneConnection'
  BY <1>9 DEF Woken, FailsWaiter, ExpiredBefore, Waited, NoneLost
<1>10. ASSUME NEW r \in Requests, Outcome(r) PROVE OneConnection'
  BY <1>10 DEF Outcome, OwnTurn, Waited, NoneLost
<1>11. ASSUME NEW r \in Requests, GiveUp(r) PROVE OneConnection'
  BY <1>11 DEF GiveUp, NoneLost
<1>12. ASSUME NEW r \in Requests, OpenStart(r) PROVE OneConnection'
  BY <1>12 DEF OpenStart, Sooner, NoneLost
<1>13. ASSUME NEW r \in Requests, ProbeCheckout(r) PROVE OneConnection'
  BY <1>13 DEF ProbeCheckout, NoneLost
<1>14. ASSUME NEW r \in Requests, BeginConnect(r) PROVE OneConnection'
  BY <1>14 DEF BeginConnect, NoneLost
<1>15. ASSUME NEW r \in Requests, StreamOpened(r) PROVE OneConnection'
  BY <1>15 DEF StreamOpened, NoneLost
<1>16. ASSUME NEW r \in Requests, ConnectionPooled(r) PROVE OneConnection'
  BY <1>16 DEF ConnectionPooled, PutInPool, NoneLost
<1>17. ASSUME NEW r \in Requests, ConnectError(r) PROVE OneConnection'
  BY <1>17 DEF ConnectError, StopConnect, NoneLost
<1>18. ASSUME NEW r \in Requests, Abandon(r) PROVE OneConnection'
  BY <1>18 DEF Abandon, StopConnect, NoneLost
<1>19. ASSUME NEW r \in Requests, RuntimeDrop(r) PROVE OneConnection'
  BY <1>19 DEF RuntimeDrop, StopConnect, NoneLost
<1>20. ASSUME NEW r \in Requests, MarkPooled(r) PROVE OneConnection'
  BY <1>20 DEF MarkPooled, NoneLost
<1>21. ASSUME NEW r \in Requests, RecordFailure(r) PROVE OneConnection'
  BY <1>21 DEF RecordFailure, FailureOf, NoneLost
<1>22. ASSUME NEW r \in Requests, ReturnTurn(r) PROVE OneConnection'
  BY <1>22 DEF ReturnTurn, NoneLost
<1>23. ASSUME NEW r \in Requests, NotifyWaiters(r) PROVE OneConnection'
  BY <1>23 DEF NotifyWaiters, NoneLost
<1>24. ASSUME NEW r \in Requests, SendOutcome(r) PROVE OneConnection'
  BY <1>24 DEF SendOutcome, Message, NoneLost
<1>25. ASSUME NEW r \in Requests, PoolCheckout(r) PROVE OneConnection'
  BY <1>25 DEF PoolCheckout, NoneLost
<1>26. ASSUME NEW r \in Requests, PoolConnect(r) PROVE OneConnection'
  BY <1>26 DEF PoolConnect, NoneLost
<1>27. ASSUME NEW r \in Requests, PoolConnected(r) PROVE OneConnection'
  BY <1>27 DEF PoolConnected, PutInPool, NoneLost
<1>28. ASSUME NEW r \in Requests, PoolFailed(r) PROVE OneConnection'
  BY <1>28 DEF PoolFailed, NoFailure, NoneLost
<1>29. CASE CloseConnection
  BY <1>29 DEF CloseConnection, NoneLost
<1>30. CASE DropStream
  BY <1>30 DEF DropStream, NoneLost
<1>31. CASE Tick
  BY <1>31 DEF Tick, NoneLost
<1>32. CASE UNCHANGED vars
  BY <1>32 DEF vars
<1>33. QED
  BY <1>1, <1>2, <1>3, <1>4, <1>5, <1>6, <1>7, <1>8, <1>9, <1>10, <1>11, <1>12, <1>13,
     <1>14, <1>15, <1>16, <1>17, <1>18, <1>19, <1>20, <1>21, <1>22, <1>23, <1>24, <1>25,
     <1>26, <1>27, <1>28, <1>29, <1>30, <1>31, <1>32
  DEF Next, RequestStep, TaskStep, NetworkStep, PoolStep

-----------------------------------------------------------------------------
(* The theorems. *)

\* The invariant is inductive: it holds initially and every step keeps it.
LEMMA IInvInductive == Spec => []IInv
<1>1. IInv /\ [Next]_vars => IInv'
  <2> SUFFICES ASSUME IInv, [Next]_vars PROVE IInv'
    OBVIOUS
  <2>1. /\ TypeOK /\ TaskOfRequest /\ OneOpener /\ NoLostWakeup /\ OneDialer /\ StreamsCounted
        /\ ColdWhileConnecting /\ Arrivals /\ BoundSparesLater /\ FailureOnRecord
        /\ OwnTurnLost /\ NoneLost /\ OneConnection
    BY DEF IInv
  <2>2. TypeOK' /\ TaskOfRequest' /\ OneOpener' /\ NoLostWakeup'
    BY <2>1, TypeStep, TaskStepInv, OpenerStep, WakeupStep
  <2>3. OneDialer' /\ StreamsCounted' /\ ColdWhileConnecting' /\ Arrivals'
    BY <2>1, DialerStep, StreamsStep, ColdStep, ArrivalsStep
  <2>4. BoundSparesLater' /\ FailureOnRecord' /\ NoneLost' /\ OneConnection'
    BY <2>1, BoundStep, RecordStep, NoneLostStep, ConnectionStep
  <2>5. OwnTurnLost'
    BY <2>1, OwnTurnStep
  <2>6. QED
    BY <2>2, <2>3, <2>4, <2>5 DEF IInv
<1>2. QED
  BY InitIInv, <1>1, PTL DEF Spec

\* Every variable of the gate, the tasks and the requests keeps its type; in
\* particular the count of open streams, which the code decrements without a
\* check, never goes below zero.
THEOREM TypeCorrect == Spec => []TypeOK
<1>1. IInv => TypeOK
  BY DEF IInv
<1>2. QED
  BY IInvInductive, <1>1, PTL

\* However many requests race for the turn, one task at a time holds it, and
\* the HELD bit of `turns` says so.
THEOREM MutualExclusion == Spec => []OneOpener
<1>1. IInv => OneOpener
  BY DEF IInv
<1>2. QED
  BY IInvInductive, <1>1, PTL

\* No request sleeps on a turn that nobody holds: registering before the
\* state is read leaves no gap for `notify_waiters` to fall into.
THEOREM WaitersAreWoken == Spec => []NoLostWakeup
<1>1. IInv => NoLostWakeup
  BY DEF IInv
<1>2. QED
  BY IInvInductive, <1>1, PTL

\* `pooled` is false while the connect of a turn is in flight.
THEOREM ColdUntilConnected == Spec => []ColdWhileConnecting
<1>1. IInv => ColdWhileConnecting
  BY DEF IInv
<1>2. QED
  BY IInvInductive, <1>1, PTL

\* Any number of cold requests open one connection between them, and each of
\* them finds it in the pool, as long as no connection ends.
THEOREM ColdBurstOpensOne == Spec => []OneConnection
<1>1. IInv => OneConnection
  BY DEF IInv
<1>2. QED
  BY IInvInductive, <1>1, PTL

\* A request that arrives after the deadline of a bound is not failed by it.
THEOREM LateRequestsAreSpared == Spec => []BoundSparesLater
<1>1. IInv => BoundSparesLater
  BY DEF IInv
<1>2. QED
  BY IInvInductive, <1>1, PTL

\* A waiting request does not take over a turn that ended without a
\* connection: it fails with it, or the bound it ended at was over before.
THEOREM NobodyTakesOver == Spec => FailsWithItsTurn
<1> DEFINE Fails(r) == pc[r] = "wait" /\ pc'[r] = "register" /\ fate[r] = "failed" =>
                         failed.how = "Bound" /\ failed.deadline < since[r]
<1>1. IInv /\ [Next]_vars => [\A r \in Requests : Fails(r)]_vars
  <2> SUFFICES ASSUME IInv, Next, NEW q \in Requests,
                      pc[q] = "wait", pc'[q] = "register", fate[q] = "failed"
               PROVE  failed.how = "Bound" /\ failed.deadline < since[q]
    BY DEF vars
  <2>1. TypeOK /\ failed.turn > seen[q]
    BY DEF IInv, FailureOnRecord
  <2>2. Woken(q)
    <3>1. ASSUME NEW r \in Requests, Call(r) \/ GiveUp(r) PROVE FALSE
      <4>1. pc' = [pc EXCEPT ![r] = "pooled"] \/ pc' = [pc EXCEPT ![r] = "gone"]
        BY <3>1 DEF Call, GiveUp, Go
      <4>2. pc'[q] = pc[q] \/ pc'[q] \in {"pooled", "gone"}
        BY <2>1, <4>1, SMTT(60) DEF TypeOK
      <4>3. QED
        BY <4>2
    <3>2. ASSUME NEW r \in Requests, RequestStep(r) PROVE Woken(q)
      <4>1. Woken(r) \/ pc[r] # "wait"
        BY <3>2 DEF RequestStep, LoadPooled, LoadOpen, Register, LoadTurns, TakeTurn, LoseTurn,
                    ReadClock, Outcome, Go
      <4>2. \E to : pc' = [pc EXCEPT ![r] = to]
        BY <3>2 DEF RequestStep, LoadPooled, LoadOpen, Register, LoadTurns, TakeTurn, LoseTurn,
                    ReadClock, Woken, Outcome, Go
      <4>3. q = r
        BY <2>1, <4>2 DEF TypeOK
      <4>4. QED
        BY <4>1, <4>3
    <3>3. ASSUME NEW r \in Requests, TaskStep(r) PROVE FALSE
      BY <3>3 DEF TaskStep, OpenStart, ProbeCheckout, BeginConnect, Abandon, MarkPooled,
                  RecordFailure, ReturnTurn, NotifyWaiters, SendOutcome
    <3>4. ASSUME NEW r \in Requests, NetworkStep(r) PROVE FALSE
      BY <3>4 DEF NetworkStep, StreamOpened, ConnectionPooled, ConnectError, RuntimeDrop
    <3>5. ASSUME NEW r \in Requests, PoolStep(r) PROVE FALSE
      BY <2>1, <3>5 DEF TypeOK, PoolStep, PoolCheckout, PoolConnect, PoolConnected, PoolFailed, Go
    <3>6. QED
      BY <3>1, <3>2, <3>3, <3>4, <3>5 DEF Next, CloseConnection, DropStream, Tick
  <2>3. ~FailsWaiter(q)
    BY <2>1, <2>2 DEF Woken, TypeOK
  <2>4. QED
    BY <2>1, <2>3 DEF FailsWaiter, ExpiredBefore
<1>2. QED
  BY IInvInductive, <1>1, PTL DEF Spec, FailsWithItsTurn
-----------------------------------------------------------------------------
(* The kinds of error one turn is reported with. *)

\* The request that started a connect will be told that it failed.
Doomed(r) ==
  /\ pc[r] = "outcome"
  /\ \/ chan[r] \in {"dropped", "Connection", "Timeout"}
     \/ /\ chan[r] = "open" /\ ending[r] # "Connected"
        /\ phase[r] \in {"record", "store", "notify", "send"}

Told(r) ==
  IF chan[r] = "dropped" THEN "Connection" ELSE IF chan[r] = "open" THEN Message(r) ELSE chan[r]

\* Somebody holds that turn n failed with an error of kind k: the record, the
\* task about to write it, the request that started the connect or one that
\* has failed.
Known(n, k) ==
  \/ failed.turn = n /\ k = Waited(failed).kind
  \/ \E r \in Requests : phase[r] = "record" /\ n = ended + 1 /\ k = Waited(FailureOf(r)).kind
  \/ \E r \in Requests : Doomed(r) /\ n = seen[r] + 1 /\ k = Told(r)
  \/ \E r \in Requests : pc[r] = "failed" /\ err[r].by.turn = n /\ k = err[r].kind

\* All who know of a turn agree, and nobody knows how a turn fails that has
\* not ended or is about to.
Agreed ==
  \A n \in Nat \ {0} :
    /\ \A k, l \in {"none", "Connection", "Timeout"} : Known(n, k) /\ Known(n, l) => k = l
    /\ \A k \in {"none", "Connection", "Timeout"} : Known(n, k) =>
         \/ n <= ended
         \/ n = ended + 1 /\ \E r \in Requests : phase[r] \in {"record", "store"}

\* A task whose request still listens ends at its bound only when that is the
\* connect timeout, and one the runtime drops never does.
Listening ==
  \A r \in Requests :
    /\ pc[r] = "outcome" => chan[r] # "gone"
    /\ chan[r] = "open" /\ ending[r] = "Bound" => bound = "ConnectTimeout"
    /\ chan[r] = "dropped" => ending[r] # "Bound"

\* A step that moves no request into or out of these knows, ends no connect
\* and records nothing leaves what is known as it was.
LEMMA KnownKept ==
  ASSUME Agreed, UNCHANGED <<bound, failed, ended>>,
         \A q \in Requests : phase'[q] \in {"record", "store"} <=> phase[q] \in {"record", "store"},
         \A n \in Nat \ {0} : \A k \in {"none", "Connection", "Timeout"} : Known(n, k)' => Known(n, k)
  PROVE  Agreed'
<1>1. (\E r \in Requests : phase[r] \in {"record", "store"}) =>
        \E r \in Requests : phase'[r] \in {"record", "store"}
  OBVIOUS
<1>2. QED
  BY <1>1 DEF Agreed

\* What is known after a request failed was known before, if its error was.
LEMMA KnownBefore ==
  ASSUME UNCHANGED <<bound, failed, ended, phase, ending>>,
         \A q \in Requests : Doomed(q)' => Doomed(q) /\ Told(q)' = Told(q) /\ seen'[q] = seen[q],
         NEW n, NEW k, Known(n, k)',
         \A q \in Requests : pc'[q] = "failed" /\ err'[q].by.turn = n /\ k = err'[q].kind => Known(n, k)
  PROVE  Known(n, k)
<1>1. CASE failed'.turn = n /\ k = Waited(failed)'.kind
  BY <1>1 DEF Known, Waited
<1>2. CASE \E q \in Requests : phase'[q] = "record" /\ n = ended' + 1 /\ k = (Waited(FailureOf(q)).kind)'
  BY <1>2 DEF Known, Waited, FailureOf
<1>3. CASE \E q \in Requests : Doomed(q)' /\ n = seen'[q] + 1 /\ k = Told(q)'
  BY <1>3 DEF Known
<1>4. QED
  BY <1>1, <1>2, <1>3 DEF Known

LEMMA ListeningStep ==
  ASSUME TypeOK, TaskOfRequest, OwnTurnLost, Listening, [Next]_vars
  PROVE  Listening'
<1> USE DEF TypeOK, Listening
<1>1. ASSUME NEW r \in Requests,
             Call(r) \/ LoadPooled(r) \/ LoadOpen(r) \/ Register(r) \/ LoadTurns(r) \/ LoseTurn(r)
               \/ ReadClock(r) \/ PoolCheckout(r) \/ PoolConnect(r) \/ PoolConnected(r)
      PROVE  Listening'
  <2>1. \E to \in {"idle", "pooled", "open", "register", "turns", "cas", "since", "missed", "wait",
                   "pool", "dialing", "sent"} : pc' = [pc EXCEPT ![r] = to]
    BY <1>1 DEF Call, LoadPooled, LoadOpen, Register, LoadTurns, LoseTurn, ReadClock, PoolCheckout,
                PoolConnect, PoolConnected, Cold
  <2>2. UNCHANGED <<bound, chan, ending>>
    BY <1>1 DEF Call, LoadPooled, LoadOpen, Register, LoadTurns, LoseTurn, ReadClock, PoolCheckout,
                PoolConnect, PoolConnected
  <2>3. QED
    BY <2>1, <2>2
<1>2. ASSUME NEW r \in Requests, TakeTurn(r) PROVE Listening'
  BY <1>2 DEF TakeTurn
<1>3. ASSUME NEW r \in Requests, Woken(r) \/ PoolFailed(r) PROVE Listening'
  BY <1>3 DEF Woken, PoolFailed
<1>4. ASSUME NEW r \in Requests, Outcome(r) PROVE Listening'
  BY <1>4 DEF Outcome
<1>5. ASSUME NEW r \in Requests, GiveUp(r) PROVE Listening'
  BY <1>5 DEF GiveUp
<1>6. ASSUME NEW r \in Requests,
             OpenStart(r) \/ BeginConnect(r) \/ StreamOpened(r) \/ MarkPooled(r) \/ RecordFailure(r)
               \/ ReturnTurn(r) \/ NotifyWaiters(r)
      PROVE  Listening'
  <2>1. UNCHANGED <<bound, pc, chan, ending>>
    BY <1>6 DEF OpenStart, BeginConnect, StreamOpened, MarkPooled, RecordFailure, ReturnTurn,
                NotifyWaiters
  <2>2. QED
    BY <2>1
<1>7. ASSUME NEW r \in Requests, ProbeCheckout(r) \/ ConnectionPooled(r) PROVE Listening'
  BY <1>7 DEF ProbeCheckout, ConnectionPooled
<1>8. ASSUME NEW r \in Requests, ConnectError(r) PROVE Listening'
  BY <1>8 DEF ConnectError, OwnTurnLost
<1>9. ASSUME NEW r \in Requests, Abandon(r) PROVE Listening'
  BY <1>9 DEF Abandon
<1>10. ASSUME NEW r \in Requests, RuntimeDrop(r) PROVE Listening'
  BY <1>10 DEF RuntimeDrop, OwnTurnLost
<1>11. ASSUME NEW r \in Requests, SendOutcome(r) PROVE Listening'
  BY <1>11 DEF SendOutcome, Message
<1>12. CASE CloseConnection \/ DropStream \/ Tick \/ UNCHANGED vars
  BY <1>12 DEF CloseConnection, DropStream, Tick, vars
<1>13. QED
  BY <1>1, <1>2, <1>3, <1>4, <1>5, <1>6, <1>7, <1>8, <1>9, <1>10, <1>11, <1>12
  DEF Next, RequestStep, TaskStep, NetworkStep, PoolStep

\* The end of a connect is known to its task, and to the request that listens
\* to it, as one kind of error; to nobody before.
LEMMA LosesAlike ==
  ASSUME TypeOK, TaskOfRequest, OneOpener, OwnTurnLost, Agreed, Listening, Listening',
         NEW r \in Requests, phase[r] \in {"spawned", "probing", "missed", "connecting", "handshaking"},
         ConnectError(r) \/ Abandon(r) \/ RuntimeDrop(r)
  PROVE  Agreed'
<1> USE DEF TypeOK
<1>1. /\ UNCHANGED <<bound, failed, ended, pc, seen, err>>
      /\ phase' = [phase EXCEPT ![r] = "record"]
      /\ \A q \in Requests \ {r} : chan'[q] = chan[q] /\ ending'[q] = ending[q]
  BY DEF ConnectError, Abandon, RuntimeDrop, StopConnect
<1>2. \A q \in Requests : phase[q] \in {"record", "store"} => q = r
  BY DEF OneOpener
<1>3. \A q \in Requests : phase[q] \notin {"record", "store"}
  BY <1>2
<1> DEFINE kind == (Waited(FailureOf(r)).kind)'
<1>4. chan[r] \in {"open", "gone"} /\ ending[r] = "Pending"
  BY DEF TaskOfRequest, OwnTurnLost
<1>5. ASSUME pc[r] = "outcome" PROVE seen[r] = ended /\ Told(r)' = kind
  <2>1. chan[r] = "open" /\ seen[r] = ended
    BY <1>4, <1>5 DEF Listening, OwnTurnLost
  <2>2. CASE ConnectError(r)
    <3>1. chan'[r] = "open" /\ bound' = bound
      BY <2>1, <2>2 DEF ConnectError
    <3>2. \/ ending'[r] = "ConnectFailed"
          \/ ending'[r] = "Bound" /\ bound = "ConnectTimeout"
      BY <2>2 DEF ConnectError
    <3>3. (FailureOf(r).how)' = IF ending'[r] = "Bound" THEN "Bound" ELSE "Connect"
      BY <3>2 DEF FailureOf
    <3>4. kind = IF ending'[r] = "Bound" THEN "Timeout" ELSE "Connection"
      BY <3>1, <3>2, <3>3 DEF Waited
    <3>5. Told(r)' = IF ending'[r] = "Bound" THEN "Timeout" ELSE "Connection"
      BY <3>1, <3>2 DEF Told, Message
    <3> HIDE DEF kind
    <3>6. QED
      BY <2>1, <3>4, <3>5
  <2>3. CASE RuntimeDrop(r)
    <3>1. chan'[r] = "dropped" /\ ending'[r] = "Pending"
      BY <1>4, <2>1, <2>3 DEF RuntimeDrop
    <3>2. (FailureOf(r).how)' = "GivenUp"
      BY <3>1 DEF FailureOf
    <3>3. kind = "Connection"
      BY <3>2 DEF Waited
    <3>4. Told(r)' = "Connection"
      BY <3>1 DEF Told
    <3> HIDE DEF kind
    <3>5. QED
      BY <2>1, <3>3, <3>4
  <2>4. QED
    BY <2>1, <2>2, <2>3 DEF Abandon
<1> HIDE DEF kind
<1>6. ASSUME NEW n \in Nat \ {0}, NEW k \in {"none", "Connection", "Timeout"}, Known(n, k)'
      PROVE  Known(n, k) \/ (n = ended + 1 /\ k = kind)
  <2>1. CASE failed'.turn = n /\ k = Waited(failed)'.kind
    BY <1>1, <2>1 DEF Known, Waited
  <2>2. CASE \E q \in Requests : phase'[q] = "record" /\ n = ended' + 1 /\ k = (Waited(FailureOf(q)).kind)'
    <3>1. PICK q \in Requests : phase'[q] = "record" /\ n = ended' + 1 /\ k = (Waited(FailureOf(q)).kind)'
      BY <2>2
    <3>2. q = r
      BY <1>1, <1>3, <3>1
    <3>3. QED
      BY <1>1, <3>1, <3>2 DEF kind
  <2>3. CASE \E q \in Requests : Doomed(q)' /\ n = seen'[q] + 1 /\ k = Told(q)'
    <3>1. PICK q \in Requests : Doomed(q)' /\ n = seen'[q] + 1 /\ k = Told(q)'
      BY <2>3
    <3>2. CASE q = r
      BY <1>1, <1>5, <3>1, <3>2 DEF Doomed
    <3>3. CASE q # r
      <4>1. phase'[q] = phase[q] /\ chan'[q] = chan[q] /\ ending'[q] = ending[q]
        BY <1>1, <3>3
      <4>2. Doomed(q) /\ Told(q)' = Told(q)
        BY <1>1, <3>1, <4>1 DEF Doomed, Told, Message
      <4>3. QED
        BY <1>1, <3>1, <4>2 DEF Known
    <3>4. QED
      BY <3>2, <3>3
  <2>4. CASE \E q \in Requests : pc'[q] = "failed" /\ err'[q].by.turn = n /\ k = err'[q].kind
    BY <1>1, <2>4 DEF Known
  <2>5. QED
    BY <1>6, <2>1, <2>2, <2>3, <2>4 DEF Known
<1>7. \A n \in Nat \ {0} : \A k \in {"none", "Connection", "Timeout"} : Known(n, k) => n <= ended
  BY <1>3 DEF Agreed
<1>8. ended' = ended /\ ended \in Nat /\ phase'[r] = "record"
  BY <1>1
<1>9. QED
  <2>1. ASSUME NEW n \in Nat \ {0}, NEW k \in {"none", "Connection", "Timeout"},
               NEW l \in {"none", "Connection", "Timeout"}, Known(n, k)', Known(n, l)'
        PROVE  k = l
    <3>1. (Known(n, k) \/ (n = ended + 1 /\ k = kind)) /\ (Known(n, l) \/ (n = ended + 1 /\ l = kind))
      BY <1>6, <2>1
    <3>2. Known(n, k) /\ Known(n, l) => k = l
      BY DEF Agreed
    <3>3. QED
      BY <1>7, <1>8, <3>1, <3>2
  <2>2. ASSUME NEW n \in Nat \ {0}, NEW k \in {"none", "Connection", "Timeout"}, Known(n, k)'
        PROVE  n <= ended' \/ (n = ended' + 1 /\ \E q \in Requests : phase'[q] \in {"record", "store"})
    BY <1>6, <1>7, <1>8, <2>2
  <2>3. QED
    BY <2>1, <2>2 DEF Agreed

LEMMA AgreedStep ==
  ASSUME TypeOK, TaskOfRequest, OneOpener, FailureOnRecord, OwnTurnLost, Agreed, Listening,
         Listening', [Next]_vars
  PROVE  Agreed'
<1> USE DEF TypeOK
<1>1. ASSUME NEW r \in Requests,
             Call(r) \/ LoadPooled(r) \/ LoadOpen(r) \/ Register(r) \/ LoadTurns(r) \/ LoseTurn(r)
               \/ ReadClock(r) \/ PoolCheckout(r) \/ PoolConnect(r) \/ PoolConnected(r)
      PROVE  Agreed'
  <2>1. \E to \in {"idle", "pooled", "open", "register", "turns", "cas", "since", "missed", "wait",
                   "pool", "dialing", "sent"} : pc' = [pc EXCEPT ![r] = to]
    BY <1>1 DEF Call, LoadPooled, LoadOpen, Register, LoadTurns, LoseTurn, ReadClock, PoolCheckout,
                PoolConnect, PoolConnected, Cold
  <2>2. UNCHANGED <<bound, chan, ending, phase, failed, ended, err>>
    BY <1>1 DEF Call, LoadPooled, LoadOpen, Register, LoadTurns, LoseTurn, ReadClock, PoolCheckout,
                PoolConnect, PoolConnected
  <2>3. pc[r] # "outcome" /\ \A q \in Requests \ {r} : seen'[q] = seen[q]
    BY <1>1 DEF Call, LoadPooled, LoadOpen, Register, LoadTurns, LoseTurn, ReadClock, PoolCheckout,
                PoolConnect, PoolConnected
  <2>4. \A q \in Requests : pc'[q] \in {"outcome", "failed"} => pc'[q] = pc[q] /\ seen'[q] = seen[q]
    BY <2>1, <2>3
  <2>5. \A n \in Nat \ {0} : \A k \in {"none", "Connection", "Timeout"} : Known(n, k)' => Known(n, k)
    BY <2>2, <2>4 DEF Known, Doomed, Told, Message, FailureOf, Waited
  <2>6. QED
    BY <2>2, <2>5, KnownKept
<1>2. ASSUME NEW r \in Requests, TakeTurn(r) PROVE Agreed'
  <2>1. /\ UNCHANGED <<bound, failed, ended, err, seen>>
        /\ pc'[r] = "outcome" /\ phase'[r] = "spawned" /\ chan'[r] = "open"
        /\ \A q \in Requests \ {r} : /\ pc'[q] = pc[q] /\ phase'[q] = phase[q]
                                     /\ chan'[q] = chan[q] /\ ending'[q] = ending[q]
    BY <1>2 DEF TakeTurn
  <2>2. phase[r] \in Idle
    BY <1>2 DEF TakeTurn, TaskOfRequest
  <2>3. \A q \in Requests : Doomed(q)' => q # r /\ Doomed(q) /\ Told(q)' = Told(q)
    BY <2>1 DEF Doomed, Told, Message
  <2>4. \A n \in Nat \ {0} : \A k \in {"none", "Connection", "Timeout"} : Known(n, k)' => Known(n, k)
    BY <2>1, <2>3 DEF Known, FailureOf, Waited
  <2>5. QED
    BY <2>1, <2>2, <2>4, KnownKept
<1>3. ASSUME NEW r \in Requests, Woken(r) PROVE Agreed'
  <2>1. /\ UNCHANGED <<bound, failed, ended, phase, chan, ending>>
        /\ \A q \in Requests \ {r} : pc'[q] = pc[q] /\ seen'[q] = seen[q] /\ err'[q] = err[q]
        /\ pc'[r] # "outcome"
        /\ pc'[r] = "failed" => err'[r] = Waited(failed)
    BY <1>3 DEF Woken
  <2>2. \A q \in Requests : Doomed(q)' => q # r /\ Doomed(q) /\ Told(q)' = Told(q)
    BY <2>1 DEF Doomed, Told, Message
  <2>3. Waited(failed).by.turn = failed.turn
    BY DEF Waited
  <2>4. \A n \in Nat \ {0} : \A k \in {"none", "Connection", "Timeout"} : Known(n, k)' => Known(n, k)
    BY <2>1, <2>2, <2>3 DEF Known, FailureOf, Waited
  <2>5. QED
    BY <2>1, <2>4, KnownKept
<1>4. ASSUME NEW r \in Requests, Outcome(r) PROVE Agreed'
  <2>1. /\ UNCHANGED <<bound, failed, ended, phase, chan, ending>>
        /\ \A q \in Requests \ {r} : pc'[q] = pc[q] /\ seen'[q] = seen[q] /\ err'[q] = err[q]
        /\ pc'[r] # "outcome"
    BY <1>4 DEF Outcome
  <2>2. \A q \in Requests : Doomed(q)' => q # r /\ Doomed(q) /\ Told(q)' = Told(q)
    BY <2>1 DEF Doomed, Told, Message
  <2>3. pc'[r] = "failed" => /\ Doomed(r) /\ err'[r].by.turn = seen[r] + 1
                             /\ err'[r].kind = Told(r)
    <3>1. CASE chan[r] = "connected"
      BY <1>4, <3>1 DEF Outcome
    <3>2. CASE chan[r] = "dropped"
      BY <1>4, <3>2 DEF Outcome, Doomed, Told, OwnTurn, Waited
    <3>3. CASE chan[r] \in {"Connection", "Timeout"}
      BY <1>4, <3>3 DEF Outcome, Doomed, Told, OwnTurn
    <3>4. QED
      BY <1>4, <3>1, <3>2, <3>3 DEF Outcome
  <2>4. ASSUME NEW n \in Nat \ {0}, NEW k \in {"none", "Connection", "Timeout"}, Known(n, k)'
        PROVE  Known(n, k)
    <3>1. \A q \in Requests : pc'[q] = "failed" /\ err'[q].by.turn = n /\ k = err'[q].kind => Known(n, k)
      BY <2>1, <2>3 DEF Known
    <3>2. \A q \in Requests : Doomed(q)' => Doomed(q) /\ Told(q)' = Told(q) /\ seen'[q] = seen[q]
      BY <2>1, <2>2
    <3>3. QED
      BY <2>1, <2>4, <3>1, <3>2, KnownBefore
  <2>5. QED
    BY <2>1, <2>4, KnownKept
<1>5. ASSUME NEW r \in Requests, GiveUp(r) PROVE Agreed'
  <2>1. /\ UNCHANGED <<bound, failed, ended, phase, err, ending>>
        /\ \A q \in Requests \ {r} : pc'[q] = pc[q] /\ seen'[q] = seen[q] /\ chan'[q] = chan[q]
        /\ pc'[r] = "gone"
    BY <1>5 DEF GiveUp
  <2>2. \A q \in Requests : Doomed(q)' => q # r /\ Doomed(q) /\ Told(q)' = Told(q)
    BY <2>1 DEF Doomed, Told, Message
  <2>3. \A n \in Nat \ {0} : \A k \in {"none", "Connection", "Timeout"} : Known(n, k)' => Known(n, k)
    BY <2>1, <2>2 DEF Known, FailureOf, Waited
  <2>4. QED
    BY <2>1, <2>3, KnownKept
<1>6. ASSUME NEW r \in Requests, PoolFailed(r) PROVE Agreed'
  <2>1. /\ UNCHANGED <<bound, failed, ended, phase, chan, ending, seen>>
        /\ \A q \in Requests \ {r} : pc'[q] = pc[q] /\ err'[q] = err[q]
        /\ pc'[r] = "failed" /\ err'[r].by.turn = 0
    BY <1>6 DEF PoolFailed, NoFailure
  <2>2. \A q \in Requests : Doomed(q)' => q # r /\ Doomed(q) /\ Told(q)' = Told(q)
    BY <2>1 DEF Doomed, Told, Message
  <2>3. ASSUME NEW n \in Nat \ {0}, NEW k \in {"none", "Connection", "Timeout"}, Known(n, k)'
        PROVE  Known(n, k)
    <3>1. \A q \in Requests : pc'[q] = "failed" /\ err'[q].by.turn = n /\ k = err'[q].kind => Known(n, k)
      BY <2>1 DEF Known
    <3>2. QED
      BY <2>1, <2>2, <2>3, <3>1, KnownBefore
  <2>4. QED
    BY <2>1, <2>3, KnownKept
<1>7. ASSUME NEW r \in Requests,
             OpenStart(r) \/ ProbeCheckout(r) \/ BeginConnect(r) \/ StreamOpened(r)
               \/ ConnectionPooled(r) \/ MarkPooled(r) \/ NotifyWaiters(r)
      PROVE  Agreed'
  <2>1. /\ UNCHANGED <<bound, failed, ended, pc, seen, err, chan>>
        /\ \A q \in Requests \ {r} : phase'[q] = phase[q] /\ ending'[q] = ending[q]
    BY <1>7 DEF OpenStart, ProbeCheckout, BeginConnect, StreamOpened, ConnectionPooled, MarkPooled,
                NotifyWaiters
  <2>2. \/ phase[r] # "record" /\ phase'[r] \notin {"record", "store", "notify", "send"}
        \/ phase[r] = "mark" /\ phase'[r] = "store" /\ ending'[r] = ending[r]
        \/ phase[r] = "notify" /\ phase'[r] = "send" /\ ending'[r] = ending[r]
    BY <1>7 DEF OpenStart, ProbeCheckout, BeginConnect, StreamOpened, ConnectionPooled, MarkPooled,
                NotifyWaiters
  <2>3. \A q \in Requests : Doomed(q)' => Doomed(q) /\ Told(q)' = Told(q)
    BY <2>1, <2>2 DEF Doomed, Told, Message, FailureOnRecord
  <2>4. \A q \in Requests : phase'[q] = "record" => phase[q] = "record" /\ ending'[q] = ending[q]
    BY <2>1, <2>2
  <2>5. ASSUME NEW n \in Nat \ {0}, NEW k \in {"none", "Connection", "Timeout"}, Known(n, k)'
        PROVE  Known(n, k)
    BY <2>1, <2>3, <2>4, <2>5 DEF Known, FailureOf, Waited
  <2>6. CASE phase[r] # "mark"
    <3>1. \A q \in Requests : phase'[q] \in {"record", "store"} => phase[q] \in {"record", "store"}
      BY <2>1, <2>2, <2>6
    <3>2. \A q \in Requests : phase[q] \in {"record", "store"} => phase'[q] \in {"record", "store"}
      BY <1>7, <2>1 DEF OpenStart, ProbeCheckout, BeginConnect, StreamOpened, ConnectionPooled,
                        MarkPooled, NotifyWaiters
    <3>3. QED
      BY <2>1, <2>5, <3>1, <3>2, KnownKept
  <2>7. CASE phase[r] = "mark"
    <3>1. \A q \in Requests : phase[q] \notin {"record", "store"}
      BY <2>7 DEF OneOpener
    <3>2. \A n \in Nat \ {0} : \A k \in {"none", "Connection", "Timeout"} : Known(n, k) => n <= ended
      BY <3>1 DEF Agreed
    <3>3. QED
      BY <2>1, <2>5, <3>2 DEF Agreed
  <2>8. QED
    BY <2>6, <2>7
<1>8. ASSUME NEW r \in Requests, ConnectError(r) \/ Abandon(r) \/ RuntimeDrop(r) PROVE Agreed'
  <2>1. phase[r] \in {"spawned", "probing", "missed", "connecting", "handshaking"}
    BY <1>8 DEF ConnectError, Abandon, RuntimeDrop
  <2>2. QED
    BY <1>8, <2>1, LosesAlike
<1>9. ASSUME NEW r \in Requests, RecordFailure(r) PROVE Agreed'
  <2>1. /\ UNCHANGED <<bound, ended, pc, seen, err, chan, ending>>
        /\ phase[r] = "record" /\ phase'[r] = "store" /\ failed' = FailureOf(r)
        /\ \A q \in Requests \ {r} : phase'[q] = phase[q]
    BY <1>9 DEF RecordFailure
  <2>2. \A q \in Requests : Doomed(q)' => Doomed(q) /\ Told(q)' = Told(q)
    BY <2>1 DEF Doomed, Told, Message
  <2>3. \A q \in Requests : phase'[q] # "record"
    BY <2>1, SMTT(60) DEF OneOpener
  <2>4. failed'.turn = ended + 1 /\ Waited(failed)'.kind = Waited(FailureOf(r)).kind
    BY <2>1 DEF FailureOf, Waited
  <2>5. ASSUME NEW n \in Nat \ {0}, NEW k \in {"none", "Connection", "Timeout"}, Known(n, k)'
        PROVE  Known(n, k)
    BY <2>1, <2>2, <2>3, <2>4, <2>5 DEF Known
  <2>6. \E q \in Requests : phase'[q] \in {"record", "store"}
    BY <2>1
  <2>7. QED
    BY <2>1, <2>5, <2>6 DEF Agreed
<1>10. ASSUME NEW r \in Requests, ReturnTurn(r) PROVE Agreed'
  <2>1. /\ UNCHANGED <<bound, failed, pc, seen, err, chan, ending>>
        /\ phase[r] = "store" /\ phase'[r] = "notify" /\ ended' = ended + 1
        /\ \A q \in Requests \ {r} : phase'[q] = phase[q]
    BY <1>10 DEF ReturnTurn
  <2>2. \A q \in Requests : Doomed(q)' => Doomed(q) /\ Told(q)' = Told(q)
    BY <2>1 DEF Doomed, Told, Message
  <2>3. \A q \in Requests : phase'[q] # "record"
    <3>1. \A q \in Requests \ {r} : phase[q] # "record"
      BY <2>1 DEF OneOpener
    <3>2. QED
      BY <2>1, <3>1, SMTT(60)
  <2>4. Waited(failed)' = Waited(failed)
    BY <2>1 DEF Waited
  <2>5. ASSUME NEW n \in Nat \ {0}, NEW k \in {"none", "Connection", "Timeout"}, Known(n, k)'
        PROVE  Known(n, k)
    BY <2>1, <2>2, <2>3, <2>4, <2>5 DEF Known
  <2>6. ASSUME NEW n \in Nat \ {0}, NEW k \in {"none", "Connection", "Timeout"}, Known(n, k)'
        PROVE  n <= ended'
    <3>1. n <= ended \/ n = ended + 1
      BY <2>5, <2>6 DEF Agreed
    <3>2. QED
      BY <2>1, <3>1
  <2>7. QED
    BY <2>5, <2>6 DEF Agreed
<1>11. ASSUME NEW r \in Requests, SendOutcome(r) PROVE Agreed'
  <2>1. /\ UNCHANGED <<bound, failed, ended, pc, seen, err>>
        /\ phase[r] = "send" /\ phase'[r] = "done"
        /\ chan'[r] = IF chan[r] = "open" THEN Message(r) ELSE chan[r]
        /\ \A q \in Requests \ {r} : /\ phase'[q] = phase[q] /\ chan'[q] = chan[q]
                                     /\ ending'[q] = ending[q]
    BY <1>11 DEF SendOutcome
  <2>2. ASSUME Doomed(r)' PROVE Doomed(r) /\ Told(r)' = Told(r)
    BY <2>1, <2>2 DEF Doomed, Told, Message
  <2>3. \A q \in Requests : Doomed(q)' => Doomed(q) /\ Told(q)' = Told(q)
    BY <2>1, <2>2 DEF Doomed, Told, Message
  <2>4. \A q \in Requests : phase'[q] = "record" => phase[q] = "record" /\ ending'[q] = ending[q]
    BY <2>1
  <2>5. ASSUME NEW n \in Nat \ {0}, NEW k \in {"none", "Connection", "Timeout"}, Known(n, k)'
        PROVE  Known(n, k)
    BY <2>1, <2>3, <2>4, <2>5 DEF Known, FailureOf, Waited
  <2>6. QED
    BY <2>1, <2>5, KnownKept
<1>12. CASE CloseConnection \/ DropStream \/ Tick \/ UNCHANGED vars
  <2>1. UNCHANGED <<bound, failed, ended, pc, seen, err, phase, chan, ending>>
    BY <1>12 DEF CloseConnection, DropStream, Tick, vars
  <2>2. \A n \in Nat \ {0} : \A k \in {"none", "Connection", "Timeout"} : Known(n, k)' => Known(n, k)
    BY <2>1 DEF Known, Doomed, Told, Message, FailureOf, Waited
  <2>3. QED
    BY <2>1, <2>2, KnownKept
<1>13. QED
  BY <1>1, <1>2, <1>3, <1>4, <1>5, <1>6, <1>7, <1>8, <1>9, <1>10, <1>11, <1>12
  DEF Next, RequestStep, TaskStep, NetworkStep, PoolStep

\* The request that started a connect and the requests its end failed report
\* one kind of error, in whatever order they learn of it and however much
\* later a task records it.
THEOREM ErrorsAreAlike == Spec => []AlikeErrors
<1>1. Init => Agreed /\ Listening
  BY DEF Init, Agreed, Listening, Known, Doomed, NoFailure, NoError
<1>2. IInv /\ Agreed /\ Listening /\ [Next]_vars => Agreed' /\ Listening'
  BY AgreedStep, ListeningStep DEF IInv
<1>3. IInv /\ Agreed => AlikeErrors
  <2> SUFFICES ASSUME IInv, Agreed, NEW r \in Requests, NEW s \in Requests,
                      pc[r] = "failed", pc[s] = "failed", err[r].by.turn = err[s].by.turn,
                      err[r].by.turn > 0
               PROVE  err[r].kind = err[s].kind
    BY DEF AlikeErrors
  <2>1. /\ err[r].by.turn \in Nat \ {0}
        /\ err[r].kind \in {"none", "Connection", "Timeout"}
        /\ err[s].kind \in {"none", "Connection", "Timeout"}
    BY DEF IInv, TypeOK
  <2>2. Known(err[r].by.turn, err[r].kind) /\ Known(err[r].by.turn, err[s].kind)
    BY DEF Known
  <2>3. QED
    BY <2>1, <2>2 DEF Agreed
<1>4. QED
  BY IInvInductive, <1>1, <1>2, <1>3, PTL DEF Spec

-----------------------------------------------------------------------------
(* The refinement. *)

\* Every step of the gate is a step of Turn or changes nothing Turn sees.
LEMMA TurnStep ==
  ASSUME TypeOK, TaskOfRequest, OneOpener, FailureOnRecord, OwnTurnLost, [Next]_vars
  PROVE  [T!Next]_(T!turnVars)
<1> DEFINE Same == UNCHANGED T!turnVars
<1>1. ASSUME NEW r \in Requests, LoadPooled(r) PROVE Same
  BY <1>1 DEF TypeOK, Holders, Looked, Stage, T!turnVars, LoadPooled, Cold
<1>2. ASSUME NEW r \in Requests, Register(r) PROVE Same
  BY <1>2 DEF TypeOK, Holders, Looked, Stage, T!turnVars, Register
<1>3. ASSUME NEW r \in Requests, ReadClock(r) PROVE Same
  BY <1>3 DEF TypeOK, Holders, Looked, Stage, T!turnVars, ReadClock
<1>4. ASSUME NEW r \in Requests, OpenStart(r) PROVE Same
  BY <1>4 DEF TypeOK, Holders, Looked, Stage, T!turnVars, OpenStart
<1>5. ASSUME NEW r \in Requests, ProbeCheckout(r) PROVE Same
  BY <1>5 DEF TypeOK, Holders, Looked, Stage, T!turnVars, ProbeCheckout
<1>6. ASSUME NEW r \in Requests, BeginConnect(r) PROVE Same
  BY <1>6 DEF TypeOK, Holders, Looked, Stage, T!turnVars, BeginConnect
<1>7. ASSUME NEW r \in Requests, StreamOpened(r) PROVE Same
  BY <1>7 DEF TypeOK, Holders, Looked, Stage, T!turnVars, StreamOpened
<1>8. ASSUME NEW r \in Requests, ConnectionPooled(r) PROVE Same
  BY <1>8 DEF TypeOK, Holders, Looked, Stage, T!turnVars, ConnectionPooled
<1>9. ASSUME NEW r \in Requests, ConnectError(r) PROVE Same
  BY <1>9 DEF TypeOK, Holders, Looked, Stage, T!turnVars, ConnectError, StopConnect
<1>10. ASSUME NEW r \in Requests, Abandon(r) PROVE Same
  BY <1>10 DEF TypeOK, Holders, Looked, Stage, T!turnVars, Abandon, StopConnect
<1>11. ASSUME NEW r \in Requests, RuntimeDrop(r) PROVE Same
  BY <1>11 DEF TypeOK, Holders, Looked, Stage, T!turnVars, RuntimeDrop, StopConnect
<1>12. ASSUME NEW r \in Requests, MarkPooled(r) PROVE Same
  BY <1>12 DEF TypeOK, Holders, Looked, Stage, T!turnVars, MarkPooled
<1>13. ASSUME NEW r \in Requests, NotifyWaiters(r) PROVE Same
  BY <1>13 DEF TypeOK, Holders, Looked, Stage, T!turnVars, NotifyWaiters
<1>14. ASSUME NEW r \in Requests, SendOutcome(r) PROVE Same
  BY <1>14 DEF TypeOK, Holders, Looked, Stage, T!turnVars, SendOutcome
<1>15. ASSUME NEW r \in Requests, PoolCheckout(r) PROVE Same
  BY <1>15 DEF TypeOK, Holders, Looked, Stage, T!turnVars, PoolCheckout
<1>16. ASSUME NEW r \in Requests, PoolConnect(r) PROVE Same
  BY <1>16 DEF TypeOK, Holders, Looked, Stage, T!turnVars, PoolConnect
<1>17. ASSUME NEW r \in Requests, PoolConnected(r) PROVE Same
  BY <1>17 DEF TypeOK, Holders, Looked, Stage, T!turnVars, PoolConnected
<1>18. ASSUME NEW r \in Requests, PoolFailed(r) PROVE Same
  <2>0. ASSUME NEW q \in Requests, q # r
        PROVE  pc'[q] = pc[q] /\ seen'[q] = seen[q] /\ err'[q] = err[q]
    BY <1>18, <2>0 DEF TypeOK, PoolFailed, NoFailure
  <2>1. ASSUME NEW q \in Requests, q # r
        PROVE  /\ Stage(q)' = Stage(q) /\ Looked(q)' = Looked(q)
               /\ seen'[q] = seen[q] /\ err'[q] = err[q]
    BY <2>0, <2>1 DEF Stage, Looked
  <2>2. Stage(r) = "passed" /\ Stage(r)' = "passed" /\ ~Looked(r) /\ ~Looked(r)'
        /\ err'[r].by.turn = err[r].by.turn
    BY <1>18 DEF TypeOK, Stage, Looked, Holders, PoolFailed, NoFailure, OwnTurnLost
  <2>3. UNCHANGED <<Holders, ended, failed>>
    BY <1>18 DEF Holders, PoolFailed, NoFailure
  <2>4. QED
    BY <2>1, <2>2, <2>3 DEF T!turnVars, Holders
<1>19. ASSUME NEW r \in Requests, Call(r) PROVE T!Enter(r)
  <2>0. ASSUME NEW q \in Requests, q # r
        PROVE  pc'[q] = pc[q] /\ seen'[q] = seen[q] /\ err'[q] = err[q]
    BY <1>19, <2>0 DEF TypeOK, Call
  <2>1. ASSUME NEW q \in Requests, q # r
        PROVE  /\ Stage(q)' = Stage(q) /\ Looked(q)' = Looked(q)
               /\ seen'[q] = seen[q] /\ err'[q] = err[q]
    BY <2>0, <2>1 DEF Stage, Looked
  <2>2. Stage(r) = "idle" /\ Stage(r)' = "asking" /\ ~Looked(r) /\ ~Looked(r)'
        /\ err'[r] = err[r]
    BY <1>19 DEF TypeOK, Stage, Looked, Holders, Call
  <2>3. UNCHANGED <<Holders, ended, failed>>
    BY <1>19 DEF Holders, Call
  <2>4. QED
    BY <2>1, <2>2, <2>3 DEF T!turnVars, T!Enter, T!Moves
<1>20. ASSUME NEW r \in Requests, LoadOpen(r) PROVE T!Pass(r) \/ Same
  <2>0. ASSUME NEW q \in Requests, q # r
        PROVE  pc'[q] = pc[q] /\ seen'[q] = seen[q] /\ err'[q] = err[q]
    BY <1>20, <2>0 DEF TypeOK, LoadOpen, Cold
  <2>1. ASSUME NEW q \in Requests, q # r
        PROVE  /\ Stage(q)' = Stage(q) /\ Looked(q)' = Looked(q)
               /\ seen'[q] = seen[q] /\ err'[q] = err[q]
    BY <2>0, <2>1 DEF Stage, Looked
  <2>2. Stage(r) = "asking" /\ Stage(r)' \in {"asking", "passed"} /\ ~Looked(r) /\ ~Looked(r)'
        /\ err'[r] = err[r]
    BY <1>20 DEF TypeOK, Stage, Looked, Holders, LoadOpen, Cold
  <2>3. UNCHANGED <<Holders, ended, failed>>
    BY <1>20 DEF Holders, LoadOpen, Cold
  <2>4. QED
    BY <2>1, <2>2, <2>3 DEF T!turnVars, T!Pass, T!Moves
<1>21. ASSUME NEW r \in Requests, LoadTurns(r) PROVE T!Look(r)
  <2>0. ASSUME NEW q \in Requests, q # r
        PROVE  pc'[q] = pc[q] /\ seen'[q] = seen[q] /\ err'[q] = err[q]
    BY <1>21, <2>0 DEF TypeOK, LoadTurns
  <2>1. ASSUME NEW q \in Requests, q # r
        PROVE  /\ Stage(q)' = Stage(q) /\ Looked(q)' = Looked(q)
               /\ seen'[q] = seen[q] /\ err'[q] = err[q]
    BY <2>0, <2>1 DEF Stage, Looked
  <2>2. Stage(r) = "asking" /\ Stage(r)' = "looked" /\ Looked(r)' /\ seen'[r] = ended
        /\ err'[r] = err[r]
    BY <1>21 DEF TypeOK, Stage, Looked, Holders, LoadTurns
  <2>3. UNCHANGED <<Holders, ended, failed>>
    BY <1>21 DEF Holders, LoadTurns
  <2>4. QED
    BY <2>1, <2>2, <2>3 DEF T!turnVars, T!Look, T!Moves
<1>22. ASSUME NEW r \in Requests, TakeTurn(r) PROVE T!Take(r)
  BY <1>22 DEF TypeOK, Holders, Looked, Stage, T!turnVars, TakeTurn, OneOpener, TaskOfRequest,
               T!Moves, T!Take
<1>23. ASSUME NEW r \in Requests, LoseTurn(r) PROVE T!Look(r) \/ T!Again(r)
  <2>0. ASSUME NEW q \in Requests, q # r
        PROVE  pc'[q] = pc[q] /\ seen'[q] = seen[q] /\ err'[q] = err[q]
    BY <1>23, <2>0 DEF TypeOK, LoseTurn
  <2>1. ASSUME NEW q \in Requests, q # r
        PROVE  /\ Stage(q)' = Stage(q) /\ Looked(q)' = Looked(q)
               /\ seen'[q] = seen[q] /\ err'[q] = err[q]
    BY <2>0, <2>1 DEF Stage, Looked
  <2>2. /\ Stage(r) = "looked" /\ Looked(r) /\ err'[r] = err[r]
        /\ \/ Stage(r)' = "looked" /\ Looked(r)' /\ seen'[r] = ended
           \/ Stage(r)' = "asking" /\ ~Looked(r)'
    BY <1>23 DEF TypeOK, Stage, Looked, Holders, LoseTurn
  <2>3. UNCHANGED <<Holders, ended, failed>>
    BY <1>23 DEF Holders, LoseTurn
  <2>4. QED
    BY <2>1, <2>2, <2>3 DEF T!turnVars, T!Look, T!Again, T!Moves
<1>24. ASSUME NEW r \in Requests, Woken(r) PROVE T!Fail(r) \/ T!Again(r)
  <2>0. ASSUME NEW q \in Requests, q # r
        PROVE  pc'[q] = pc[q] /\ seen'[q] = seen[q] /\ err'[q] = err[q]
    BY <1>24, <2>0 DEF TypeOK, Woken, FailsWaiter, Waited
  <2>1. ASSUME NEW q \in Requests, q # r
        PROVE  /\ Stage(q)' = Stage(q) /\ Looked(q)' = Looked(q)
               /\ seen'[q] = seen[q] /\ err'[q] = err[q]
    BY <2>0, <2>1 DEF Stage, Looked
  <2>2. /\ Stage(r) = "looked" /\ Looked(r) /\ ~Looked(r)'
        /\ \/ Stage(r)' = "asking" /\ err'[r] = err[r]
           \/ /\ Stage(r)' = "failed"
              /\ err'[r].by.turn \in {seen[r] + 1, failed.turn}
              /\ err'[r].by.turn > seen[r]
              /\ err'[r].by.turn <= failed.turn \/ Holders = {r}
    BY <1>24 DEF TypeOK, Stage, Looked, Holders, Woken, FailsWaiter, Waited
  <2>3. UNCHANGED <<Holders, ended, failed>>
    BY <1>24 DEF Holders, Woken, FailsWaiter, Waited
  <2>7. CASE Stage(r)' = "asking" /\ err'[r] = err[r]
    BY <2>1, <2>2, <2>3, <2>7 DEF T!Again, T!Moves
  <2>8. CASE Stage(r)' = "failed"
    <3> DEFINE turn == err'[r].by.turn
    <3>1. turn \in {seen[r] + 1, failed.turn} /\ turn > seen[r]
          /\ (turn <= failed.turn \/ Holders = {r})
      BY <2>2, <2>8
    <3>2. [q \in Requests |-> err[q].by.turn]' = [[q \in Requests |-> err[q].by.turn] EXCEPT ![r] = turn]
      BY <2>1
    <3>3. [q \in Requests |-> Stage(q)]' = [[q \in Requests |-> Stage(q)] EXCEPT ![r] = "failed"]
      BY <2>1, <2>8
    <3>4. [q \in Requests |-> IF Looked(q) THEN seen[q] ELSE 0]'
            = [[q \in Requests |-> IF Looked(q) THEN seen[q] ELSE 0] EXCEPT ![r] = 0]
      BY <2>1, <2>2
    <3> HIDE DEF turn
    <3>5. QED
      BY <2>2, <2>3, <3>1, <3>2, <3>3, <3>4 DEF T!Fail, T!Moves
  <2>9. QED
    BY <2>2, <2>7, <2>8
<1>25. ASSUME NEW r \in Requests, Outcome(r) PROVE T!Fail(r) \/ T!Again(r)
  <2>0. ASSUME NEW q \in Requests, q # r
        PROVE  pc'[q] = pc[q] /\ seen'[q] = seen[q] /\ err'[q] = err[q]
    BY <1>25, <2>0 DEF TypeOK, Outcome, OwnTurn, Waited
  <2>1. ASSUME NEW q \in Requests, q # r
        PROVE  /\ Stage(q)' = Stage(q) /\ Looked(q)' = Looked(q)
               /\ seen'[q] = seen[q] /\ err'[q] = err[q]
    BY <2>0, <2>1 DEF Stage, Looked
  <2>5. chan[r] \in {"dropped", "Connection", "Timeout"} => failed.turn > seen[r] \/ Holders = {r}
    <3>1. CASE phase[r] \in Idle
      BY <1>25, <3>1 DEF Outcome, OwnTurnLost
    <3>2. CASE phase[r] \in Holding
      BY <3>2 DEF Holders, OneOpener
    <3>3. CASE phase[r] \in {"notify", "send"}
      BY <1>25, <3>3 DEF Outcome, OwnTurnLost, TaskOfRequest
    <3>4. QED
      BY <3>1, <3>2, <3>3 DEF TypeOK
  <2>6. seen[r] \in Nat /\ failed.turn \in Nat
    BY DEF TypeOK
  <2>2. /\ Stage(r) = "looked" /\ Looked(r) /\ ~Looked(r)'
        /\ \/ Stage(r)' = "asking" /\ err'[r] = err[r]
           \/ /\ Stage(r)' = "failed"
              /\ err'[r].by.turn \in {seen[r] + 1, failed.turn}
              /\ err'[r].by.turn > seen[r]
              /\ err'[r].by.turn <= failed.turn \/ Holders = {r}
    BY <1>25, <2>5, <2>6 DEF TypeOK, Stage, Looked, Holders, Outcome, OwnTurn, Waited
  <2>3. UNCHANGED <<Holders, ended, failed>>
    BY <1>25 DEF Holders, Outcome, OwnTurn, Waited
  <2>7. CASE Stage(r)' = "asking" /\ err'[r] = err[r]
    BY <2>1, <2>2, <2>3, <2>7 DEF T!Again, T!Moves
  <2>8. CASE Stage(r)' = "failed"
    <3> DEFINE turn == err'[r].by.turn
    <3>1. turn \in {seen[r] + 1, failed.turn} /\ turn > seen[r]
          /\ (turn <= failed.turn \/ Holders = {r})
      BY <2>2, <2>8
    <3>2. [q \in Requests |-> err[q].by.turn]' = [[q \in Requests |-> err[q].by.turn] EXCEPT ![r] = turn]
      BY <2>1
    <3>3. [q \in Requests |-> Stage(q)]' = [[q \in Requests |-> Stage(q)] EXCEPT ![r] = "failed"]
      BY <2>1, <2>8
    <3>4. [q \in Requests |-> IF Looked(q) THEN seen[q] ELSE 0]'
            = [[q \in Requests |-> IF Looked(q) THEN seen[q] ELSE 0] EXCEPT ![r] = 0]
      BY <2>1, <2>2
    <3> HIDE DEF turn
    <3>5. QED
      BY <2>2, <2>3, <3>1, <3>2, <3>3, <3>4 DEF T!Fail, T!Moves
  <2>9. QED
    BY <2>2, <2>7, <2>8
<1>26. ASSUME NEW r \in Requests, GiveUp(r) PROVE T!Leave(r)
  <2>0. ASSUME NEW q \in Requests, q # r
        PROVE  pc'[q] = pc[q] /\ seen'[q] = seen[q] /\ err'[q] = err[q]
    BY <1>26, <2>0 DEF TypeOK, GiveUp
  <2>1. ASSUME NEW q \in Requests, q # r
        PROVE  /\ Stage(q)' = Stage(q) /\ Looked(q)' = Looked(q)
               /\ seen'[q] = seen[q] /\ err'[q] = err[q]
    BY <2>0, <2>1 DEF Stage, Looked
  <2>2. Stage(r) \in {"looked", "passed"} /\ Stage(r)' = "left" /\ ~Looked(r)'
        /\ err'[r] = err[r]
    BY <1>26 DEF TypeOK, Stage, Looked, Holders, GiveUp
  <2>3. UNCHANGED <<Holders, ended, failed>>
    BY <1>26 DEF Holders, GiveUp
  <2>4. QED
    BY <2>1, <2>2, <2>3 DEF T!turnVars, T!Leave, T!Moves
<1>27. ASSUME NEW r \in Requests, RecordFailure(r) PROVE T!Lose
  BY <1>27 DEF TypeOK, Holders, Looked, Stage, T!turnVars, RecordFailure, FailureOf, T!Moves, T!Lose
<1>28. ASSUME NEW r \in Requests, ReturnTurn(r) PROVE T!Return
  BY <1>28 DEF TypeOK, Holders, Looked, Stage, T!turnVars, ReturnTurn, OneOpener, T!Moves, T!Return
<1>29. CASE CloseConnection
  BY <1>29 DEF Holders, Looked, Stage, T!turnVars, CloseConnection
<1>30. CASE DropStream
  BY <1>30 DEF Holders, Looked, Stage, T!turnVars, DropStream
<1>31. CASE Tick
  BY <1>31 DEF Holders, Looked, Stage, T!turnVars, Tick
<1>32. CASE UNCHANGED vars
  BY <1>32 DEF Holders, Looked, Stage, T!turnVars, vars
<1>33. QED
  BY <1>1, <1>2, <1>3, <1>4, <1>5, <1>6, <1>7, <1>8, <1>9, <1>10, <1>11, <1>12, <1>13, <1>14,
     <1>15, <1>16, <1>17, <1>18, <1>19, <1>20, <1>21, <1>22, <1>23, <1>24, <1>25, <1>26,
     <1>27, <1>28, <1>29, <1>30, <1>31, <1>32
  DEF Next, RequestStep, TaskStep, NetworkStep, PoolStep, T!Next

\* The gate implements Turn, whatever the number of requests: each turn is
\* taken by one request that found it free, ends once, and fails only
\* requests that looked before it ended.
THEOREM GateImplementsTurn == Spec => TakesTurns
<1>1. Init => T!Init
  BY DEF Init, T!Init, Holders, Stage, Looked, NoFailure, NoError
<1>2. IInv /\ [Next]_vars => [T!Next]_(T!turnVars)
  BY TurnStep DEF IInv
<1>3. QED
  BY <1>1, <1>2, IInvInductive, PTL DEF Spec, TakesTurns, T!Spec
===========================================================================
