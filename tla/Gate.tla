-------------------------------- MODULE Gate --------------------------------
(***************************************************************************)
(* The gate in front of the HTTP/2 pool of the SDK's default transport     *)
(* (crates/sdk/src/transport/gate.rs, hyper.rs): while the pool holds no   *)
(* connection, one task opens it and every request waits for that task.    *)
(*                                                                         *)
(* Each step of a request or of a task is one access to shared state, so   *)
(* the steps of different threads interleave as the atomics, the lock and  *)
(* tokio's Notify let them.  hyper-util's pool is external: it holds at    *)
(* most one connection, lets one actor at a time connect, and may lose its *)
(* connection at any time.                                                 *)
(***************************************************************************)
EXTENDS Naturals, FiniteSets

CONSTANTS
  Requests,      \* the requests sent through one transport
  BoundKinds,    \* which settings the gate may have been built from
  BoundTicks,    \* the duration of the bound
  MaxTime,       \* horizon of the clock: its last tick lasts as long as needed
  MaxCloses,     \* how many connections may end
  RuntimeDrops,  \* whether the runtime may drop the task that connects
  NoOne          \* stands for "no actor" as the holder of hyper-util's lock

ASSUME ConstantsAssumption ==
  /\ BoundKinds \subseteq {"ConnectTimeout", "AttemptDeadline", "None"}
  /\ BoundTicks \in Nat
  /\ MaxTime \in Nat
  /\ MaxCloses \in Nat
  /\ RuntimeDrops \in BOOLEAN
  /\ NoOne \notin Requests

VARIABLES
  bound,     \* Gate.bound: the setting that bounds an abandoned connect
  held,      \* the HELD bit of Gate.turns
  ended,     \* the bits above it: how many turns have ended
  failed,    \* Gate.failed: the last turn that ended without a connection
  pooled,    \* Gate.pooled
  open,      \* Gate.open: streams handed to hyper that are not dropped
  pc,        \* where each request is
  changed,   \* each request's Notified future
  seen,      \* the local `ended` of each request in Gate::enter
  since,     \* the local `waiting_since`
  err,       \* the error a request failed with
  phase,     \* where the task that connects for a request is
  ending,    \* its Opener.ending
  deadline,  \* its bound's deadline
  chan,      \* the oneshot from the task to the request that started it
  now,       \* the clock
  pool,      \* external: hyper-util's pool holds a connection
  dial,      \* external: who holds hyper-util's lock to connect
  closing,   \* external: streams of ended connections, not dropped yet
  closes,    \* history: connections that ended
  spare,     \* history: connections opened while the pool held one
  arrived,   \* history: when each request was called
  fate       \* history: how the turn a request waits for ended

gateVars  == <<held, ended, failed, pooled>>
localVars == <<seen, since, fate>>
taskVars  == <<phase, ending, deadline, chan>>
hyperVars == <<pool, dial, closing, closes, spare>>
vars == <<bound, gateVars, open, pc, changed, localVars, err, taskVars, now,
          hyperVars, arrived>>

NoFailure == [turn |-> 0, how |-> "none", deadline |-> 0]
NoError   == [kind |-> "none", by |-> NoFailure]

\* Where a request's future can be dropped: it is suspended at an await.
Suspended == {"wait", "outcome", "pool", "dialing"}
Final     == {"sent", "failed", "gone"}
\* The phases of a task that owns the Opener, so the turn.
Holding   == {"spawned", "probing", "missed", "connecting", "handshaking",
              "mark", "record", "store"}
Idle      == {"none", "done"}

TypeOK ==
  /\ bound \in BoundKinds
  /\ held \in BOOLEAN /\ ended \in Nat
  /\ failed \in [turn: Nat, how: {"none", "Connect", "GivenUp", "Bound"}, deadline: Nat]
  /\ pooled \in BOOLEAN /\ open \in Nat
  /\ pc \in [Requests -> {"idle", "pooled", "open", "register", "turns", "cas", "since",
                          "missed"} \cup Suspended \cup Final]
  /\ changed \in [Requests -> {"none", "waiting", "notified"}]
  /\ seen \in [Requests -> Nat] /\ since \in [Requests -> Nat]
  /\ err \in [Requests -> [kind: {"none", "Connection", "Timeout"},
                           by: [turn: Nat, how: {"none", "Connect", "GivenUp", "Bound"},
                                deadline: Nat]]]
  /\ phase \in [Requests -> Holding \cup Idle \cup {"notify", "send"}]
  /\ ending \in [Requests -> {"Pending", "ConnectFailed", "Connected", "Bound"}]
  /\ deadline \in [Requests -> Nat]
  /\ chan \in [Requests -> {"open", "gone", "dropped", "connected", "Connection", "Timeout"}]
  /\ now \in 0..MaxTime
  /\ pool \in BOOLEAN /\ dial \in Requests \cup {NoOne}
  /\ closing \in Nat /\ closes \in 0..MaxCloses /\ spare \in Nat
  /\ arrived \in [Requests -> Nat]
  /\ fate \in [Requests -> {"pending", "connected", "failed"}]

\* Gate::new; HyperTransport::new prefers the connect timeout, then the
\* attempt deadline, then no bound.
Init ==
  /\ bound \in BoundKinds
  /\ held = FALSE /\ ended = 0 /\ failed = NoFailure
  /\ pooled = FALSE /\ open = 0
  /\ pc = [r \in Requests |-> "idle"]
  /\ changed = [r \in Requests |-> "none"]
  /\ seen = [r \in Requests |-> 0]
  /\ since = [r \in Requests |-> 0]
  /\ err = [r \in Requests |-> NoError]
  /\ phase = [r \in Requests |-> "none"]
  /\ ending = [r \in Requests |-> "Pending"]
  /\ deadline = [r \in Requests |-> 0]
  /\ chan = [r \in Requests |-> "open"]
  /\ now = 0
  /\ pool = FALSE /\ dial = NoOne /\ closing = 0 /\ closes = 0 /\ spare = 0
  /\ arrived = [r \in Requests |-> 0]
  /\ fate = [r \in Requests |-> "pending"]

\* A request's future or a round of its loop ends, and its locals with it.
Forget(r) ==
  /\ seen' = [seen EXCEPT ![r] = 0]
  /\ since' = [since EXCEPT ![r] = 0]

Go(r, from, to) == pc[r] = from /\ pc' = [pc EXCEPT ![r] = to]
Run(r, from, to) == phase[r] = from /\ phase' = [phase EXCEPT ![r] = to]

-----------------------------------------------------------------------------
(* Requests: HyperTransport::call, Gate::enter, send. *)

\* A call of the transport reads is_warm, as each round of Gate::enter does.
Call(r) ==
  /\ Go(r, "idle", "pooled")
  /\ arrived' = [arrived EXCEPT ![r] = now]
  /\ UNCHANGED <<bound, gateVars, open, changed, localVars, err, taskVars, now, hyperVars>>

\* Where a request goes that finds the gate cold: into the gate from `call`,
\* which holds no Notified yet, and on to the turns inside a round.
Cold(r) == IF changed[r] = "none" THEN "register" ELSE "turns"

\* Mutant: is_warm looks at the streams alone.
LoadPooledSkipped(r) ==
  /\ Go(r, "pooled", "open")
  /\ UNCHANGED <<bound, gateVars, open, changed, localVars, err, taskVars, now, hyperVars,
                 arrived>>

\* The first load of is_warm.
LoadPooled(r) ==
  /\ Go(r, "pooled", IF pooled THEN "open" ELSE Cold(r))
  /\ UNCHANGED <<bound, gateVars, open, changed, localVars, err, taskVars, now, hyperVars,
                 arrived>>

\* The second load; a warm gate sends the request to the pool.
LoadOpen(r) ==
  /\ Go(r, "open", IF open > 0 THEN "pool" ELSE Cold(r))
  /\ changed' = IF open > 0 THEN [changed EXCEPT ![r] = "none"] ELSE changed
  /\ arrived' = IF open > 0 THEN [arrived EXCEPT ![r] = 0] ELSE arrived
  /\ UNCHANGED <<bound, gateVars, open, localVars, err, taskVars, now, hyperVars>>

\* `notified()` and `enable()`, before the state is read.
Register(r) ==
  /\ Go(r, "register", "pooled")
  /\ changed' = [changed EXCEPT ![r] = "waiting"]
  /\ UNCHANGED <<bound, gateVars, open, localVars, err, taskVars, now, hyperVars, arrived>>

\* `ended` is the count of turns that had ended when `turns` was loaded: a
\* request that finds the turn held waits for the one that ends next.
LoadTurns(r) ==
  /\ Go(r, "turns", IF held THEN "since" ELSE "cas")
  /\ seen' = [seen EXCEPT ![r] = ended]
  /\ fate' = [fate EXCEPT ![r] = "pending"]
  /\ UNCHANGED <<bound, gateVars, open, changed, since, err, taskVars, now, hyperVars, arrived>>

\* Mutant: the turn is stored, not compared and exchanged.
TakeTurnStored(r) ==
  /\ Go(r, "cas", "outcome")
  /\ held' = TRUE
  /\ changed' = [changed EXCEPT ![r] = "none"]
  /\ phase' = [phase EXCEPT ![r] = "spawned"]
  /\ ending' = [ending EXCEPT ![r] = "Pending"]
  /\ chan' = [chan EXCEPT ![r] = "open"]
  /\ fate' = [fate EXCEPT ![r] = "pending"]
  /\ UNCHANGED <<bound, ended, failed, pooled, open, seen, since, err, deadline, now,
                 hyperVars, arrived>>

\* The compare-exchange took the turn: `send` spawns the task that connects.
TakeTurn(r) ==
  /\ ~held /\ ended = seen[r]
  /\ Go(r, "cas", "outcome")
  /\ held' = TRUE
  /\ changed' = [changed EXCEPT ![r] = "none"]
  /\ phase' = [phase EXCEPT ![r] = "spawned"]
  /\ ending' = [ending EXCEPT ![r] = "Pending"]
  /\ chan' = [chan EXCEPT ![r] = "open"]
  /\ fate' = [fate EXCEPT ![r] = "pending"]
  /\ UNCHANGED <<bound, ended, failed, pooled, open, seen, since, err, deadline, now,
                 hyperVars, arrived>>

\* It failed: another request holds the turn, and this one waits for it, or
\* a whole turn went by.
LoseTurn(r) ==
  /\ held \/ ended # seen[r]
  /\ Go(r, "cas", IF held THEN "since" ELSE "register")
  /\ seen' = [seen EXCEPT ![r] = IF held THEN ended ELSE 0]
  /\ changed' = [changed EXCEPT ![r] = IF held THEN changed[r] ELSE "none"]
  /\ UNCHANGED <<bound, gateVars, open, since, fate, err, taskVars, now, hyperVars, arrived>>

ReadClock(r) ==
  /\ Go(r, "since", "wait")
  /\ since' = [since EXCEPT ![r] = now]
  /\ UNCHANGED <<bound, gateVars, open, changed, seen, fate, err, taskVars, now, hyperVars,
                 arrived>>

\* Mutant: the bound's deadline is not looked at.
NeverExpired(failure, instant) == FALSE

\* Failure::expired_before
ExpiredBefore(failure, instant) == failure.how = "Bound" /\ failure.deadline < instant

\* Mutant: the error of a waiting request is always a connection error.
WaitedAsConnection(failure) == [kind |-> "Connection", by |-> failure]

\* What a waiting request fails with: `waited` makes a connect timeout of the
\* bound a timeout.
Waited(failure) ==
  [kind |-> IF failure.how = "Bound" /\ bound = "ConnectTimeout"
              THEN "Timeout" ELSE "Connection",
   by |-> failure]

\* Mutant: a turn that had ended when the request looked fails it too.
FailsWaiterAlike(r) == failed.turn >= seen[r] /\ ~ExpiredBefore(failed, since[r])

\* failed_after, and the test of the bound's deadline.
FailsWaiter(r) == failed.turn > seen[r] /\ ~ExpiredBefore(failed, since[r])

\* The request was woken: it fails with the turn, or goes round again.
Woken(r) ==
  /\ changed[r] = "notified"
  /\ Go(r, "wait", IF FailsWaiter(r) THEN "failed" ELSE "register")
  /\ err' = IF FailsWaiter(r) THEN [err EXCEPT ![r] = Waited(failed)] ELSE err
  /\ changed' = [changed EXCEPT ![r] = "none"]
  /\ Forget(r)
  /\ fate' = IF FailsWaiter(r) THEN fate ELSE [fate EXCEPT ![r] = "pending"]
  /\ UNCHANGED <<bound, gateVars, open, taskVars, now, hyperVars, arrived>>

\* The turn a request took, as its own error quotes it.
OwnTurn(r, how) == [turn |-> seen[r] + 1, how |-> how, deadline |-> 0]

\* The request that started the connect learns how it ended.
Outcome(r) ==
  /\ \/ chan[r] = "connected" /\ Go(r, "outcome", "register") /\ UNCHANGED err
     \/ /\ chan[r] \in {"Connection", "Timeout", "dropped"}
        /\ Go(r, "outcome", "failed")
        /\ err' = [err EXCEPT ![r] =
                     IF chan[r] = "dropped"
                       THEN Waited(OwnTurn(r, "GivenUp"))
                       ELSE [kind |-> chan[r], by |-> OwnTurn(r, "Connect")]]
  /\ Forget(r)
  /\ UNCHANGED <<bound, gateVars, open, changed, fate, taskVars, now, hyperVars, arrived>>

\* The request's future is dropped: its deadline passed or its task ended.
GiveUp(r) ==
  /\ pc[r] \in Suspended
  /\ pc' = [pc EXCEPT ![r] = "gone"]
  /\ changed' = [changed EXCEPT ![r] = "none"]
  /\ chan' = IF pc[r] = "outcome" THEN [chan EXCEPT ![r] = "gone"] ELSE chan
  /\ dial' = IF pc[r] = "dialing" THEN NoOne ELSE dial
  /\ Forget(r)
  /\ fate' = [fate EXCEPT ![r] = "pending"]
  /\ arrived' = [arrived EXCEPT ![r] = 0]
  /\ UNCHANGED <<bound, gateVars, open, err, phase, ending, deadline, now, pool, closing,
                 closes, spare>>

-----------------------------------------------------------------------------
(* The task that holds a turn: open, Opener::drop. *)

Sooner(t) == IF t < MaxTime THEN t ELSE MaxTime

\* The bound's deadline is fixed before the connect begins.
OpenStart(r) ==
  /\ Run(r, "spawned", "probing")
  /\ deadline' = [deadline EXCEPT ![r] = Sooner(now + BoundTicks)]
  /\ UNCHANGED <<bound, gateVars, open, pc, changed, localVars, err, ending, chan, now,
                 hyperVars, arrived>>

\* hyper-util looks for a connection for the probe, and reports the one it
\* finds; without one the probe goes on to connect.
ProbeCheckout(r) ==
  /\ Run(r, "probing", IF pool THEN "mark" ELSE "missed")
  /\ pool \/ dial = NoOne
  /\ ending' = IF pool THEN [ending EXCEPT ![r] = "Connected"] ELSE ending
  /\ UNCHANGED <<bound, gateVars, open, pc, changed, localVars, err, deadline, chan, now,
                 hyperVars, arrived>>

\* Mutant: a connect that begins leaves the gate warm.
BeginConnectWarm(r) ==
  /\ Run(r, "missed", IF dial = NoOne THEN "connecting" ELSE "probing")
  /\ dial' = IF dial = NoOne THEN r ELSE dial
  /\ UNCHANGED <<bound, gateVars, open, pc, changed, localVars, err, ending, deadline, chan,
                 now, pool, closing, closes, spare, arrived>>

\* Counting::call, unless another actor took hyper-util's lock meanwhile.
BeginConnect(r) ==
  /\ Run(r, "missed", IF dial = NoOne THEN "connecting" ELSE "probing")
  /\ pooled' = (pooled /\ dial # NoOne)
  /\ dial' = IF dial = NoOne THEN r ELSE dial
  /\ UNCHANGED <<bound, held, ended, failed, open, pc, changed, localVars, err, ending,
                 deadline, chan, now, pool, closing, closes, spare, arrived>>

\* Connecting::poll: TCP and TLS are done, the stream is counted.
StreamOpened(r) ==
  /\ Run(r, "connecting", "handshaking")
  /\ open' = open + 1
  /\ UNCHANGED <<bound, gateVars, pc, changed, localVars, err, ending, deadline, chan, now,
                 hyperVars, arrived>>

\* hyper-util puts a new connection in the pool, or closes it at once when
\* the pool has one.
PutInPool(streams) ==
  /\ pool' = TRUE
  /\ dial' = NoOne
  /\ open' = IF pool THEN streams - 1 ELSE streams
  /\ spare' = IF pool THEN spare + 1 ELSE spare
  /\ UNCHANGED <<closing, closes>>

ConnectionPooled(r) ==
  /\ Run(r, "handshaking", "mark")
  /\ ending' = [ending EXCEPT ![r] = "Connected"]
  /\ PutInPool(open)
  /\ UNCHANGED <<bound, gateVars, pc, changed, localVars, err, deadline, chan, now, arrived>>

\* Mutant: the count goes down whether or not a stream was counted.
StopConnectCounted(r) ==
  /\ phase' = [phase EXCEPT ![r] = "record"]
  /\ dial' = IF dial = r THEN NoOne ELSE dial
  /\ open' = open - 1
  /\ UNCHANGED <<pool, closing, closes, spare>>

\* The connect of the task ends here without a connection; its stream drops.
StopConnect(r) ==
  /\ phase' = [phase EXCEPT ![r] = "record"]
  /\ dial' = IF dial = r THEN NoOne ELSE dial
  /\ open' = IF phase[r] = "handshaking" THEN open - 1 ELSE open
  /\ UNCHANGED <<pool, closing, closes, spare>>

\* The connect failed before there was a connection.  One that ran out of
\* time ends as the bound when that is the connect timeout.
ConnectError(r) ==
  /\ \/ phase[r] \in {"connecting", "handshaking"}
     \/ phase[r] = "probing" /\ ~pool /\ dial # NoOne
  /\ StopConnect(r)
  /\ \E timed_out \in {FALSE, phase[r] = "connecting"} :
       ending' = [ending EXCEPT ![r] =
                    IF timed_out /\ bound = "ConnectTimeout" THEN "Bound" ELSE "ConnectFailed"]
  /\ UNCHANGED <<bound, gateVars, pc, changed, localVars, err, deadline, chan, now, arrived>>

\* Mutant: only a gate with no bound gives a connect up.
AbandonUnboundedOnly(r) ==
  /\ phase[r] \in {"connecting", "handshaking"}
  /\ chan[r] = "gone" /\ bound = "None"
  /\ StopConnect(r)
  /\ UNCHANGED <<bound, gateVars, pc, changed, localVars, err, ending, deadline, chan, now,
                 arrived>>

\* The request that started the connect is gone, and the bound has passed
\* or there is none.  A probe that can have a connection gets it first.
Abandon(r) ==
  /\ \/ phase[r] \in {"connecting", "handshaking"}
     \/ phase[r] = "probing" /\ ~pool /\ dial # NoOne
  /\ chan[r] = "gone"
  /\ bound = "None" \/ deadline[r] <= now
  /\ StopConnect(r)
  /\ ending' = IF bound = "None" THEN ending ELSE [ending EXCEPT ![r] = "Bound"]
  /\ UNCHANGED <<bound, gateVars, pc, changed, localVars, err, deadline, chan, now, arrived>>

\* The runtime drops the task: the oneshot's sender first, then the Opener.
RuntimeDrop(r) ==
  /\ RuntimeDrops
  /\ phase[r] \in {"spawned", "probing", "connecting", "handshaking"}
  /\ StopConnect(r)
  /\ chan' = IF chan[r] = "open" THEN [chan EXCEPT ![r] = "dropped"] ELSE chan
  /\ UNCHANGED <<bound, gateVars, pc, changed, localVars, err, ending, deadline, now, arrived>>

MarkPooled(r) ==
  /\ Run(r, "mark", "store")
  /\ pooled' = TRUE
  /\ UNCHANGED <<bound, held, ended, failed, open, pc, changed, localVars, err, ending,
                 deadline, chan, now, hyperVars, arrived>>

\* Mutant: the failure carries the count from before the turn ended.
FailureOfEarlier(r) ==
  [turn |-> ended,
   how |-> IF ending[r] = "Bound" THEN "Bound" ELSE "Connect",
   deadline |-> IF ending[r] = "Bound" THEN deadline[r] ELSE 0]

\* What Opener::drop records of a turn that ended without a connection.
FailureOf(r) ==
  [turn |-> ended + 1,
   how |-> IF ending[r] = "Bound" THEN "Bound"
           ELSE IF ending[r] = "ConnectFailed" THEN "Connect" ELSE "GivenUp",
   deadline |-> IF ending[r] = "Bound" THEN deadline[r] ELSE 0]

RecordFailure(r) ==
  /\ Run(r, "record", "store")
  /\ failed' = FailureOf(r)
  /\ UNCHANGED <<bound, held, ended, pooled, open, pc, changed, localVars, err, ending,
                 deadline, chan, now, hyperVars, arrived>>

\* The turn is given back; `fate` notes for every waiting request how.
ReturnTurn(r) ==
  /\ Run(r, "store", "notify")
  /\ held' = FALSE
  /\ ended' = ended + 1
  /\ fate' = [q \in Requests |->
                IF pc[q] \in {"since", "wait"} /\ seen[q] = ended /\ fate[q] = "pending"
                  THEN IF ending[r] = "Connected" THEN "connected" ELSE "failed"
                  ELSE fate[q]]
  /\ UNCHANGED <<bound, failed, pooled, open, pc, changed, seen, since, err, ending, deadline,
                 chan, now, hyperVars, arrived>>

\* Mutant: notify_one.
NotifyOne(r) ==
  /\ Run(r, "notify", "send")
  /\ \/ \E q \in Requests :
          changed[q] = "waiting" /\ changed' = [changed EXCEPT ![q] = "notified"]
     \/ (\A q \in Requests : changed[q] # "waiting") /\ UNCHANGED changed
  /\ UNCHANGED <<bound, gateVars, open, pc, localVars, err, ending, deadline, chan, now,
                 hyperVars, arrived>>

NotifyWaiters(r) ==
  /\ Run(r, "notify", "send")
  /\ changed' = [q \in Requests |-> IF changed[q] = "waiting" THEN "notified" ELSE changed[q]]
  /\ UNCHANGED <<bound, gateVars, open, pc, localVars, err, ending, deadline, chan, now,
                 hyperVars, arrived>>

\* What the request that started the connect is told: HyperTransport's
\* `failure` makes a connect that ran out of the connect timeout a timeout.
Message(r) ==
  IF ending[r] = "Connected" THEN "connected"
  ELSE IF ending[r] = "Bound" THEN "Timeout" ELSE "Connection"

SendOutcome(r) ==
  /\ Run(r, "send", "done")
  /\ chan' = IF chan[r] = "open" THEN [chan EXCEPT ![r] = Message(r)] ELSE chan
  /\ ending' = [ending EXCEPT ![r] = "Pending"]
  /\ deadline' = [deadline EXCEPT ![r] = 0]
  /\ UNCHANGED <<bound, gateVars, open, pc, changed, localVars, err, now, hyperVars, arrived>>

-----------------------------------------------------------------------------
(* hyper-util's pool, and requests that were sent to it. *)

PoolCheckout(r) ==
  /\ Go(r, "pool", IF pool THEN "sent" ELSE "missed")
  /\ pool \/ dial = NoOne
  /\ UNCHANGED <<bound, gateVars, open, changed, localVars, err, taskVars, now, hyperVars,
                 arrived>>

\* The request connects inside hyper-util, where the gate does not see it,
\* or waits for the actor that took the lock meanwhile.
PoolConnect(r) ==
  /\ Go(r, "missed", IF dial = NoOne THEN "dialing" ELSE "pool")
  /\ pooled' = (pooled /\ dial # NoOne)
  /\ dial' = IF dial = NoOne THEN r ELSE dial
  /\ UNCHANGED <<bound, held, ended, failed, open, changed, localVars, err, taskVars, now, pool,
                 closing, closes, spare, arrived>>

PoolConnected(r) ==
  /\ Go(r, "dialing", "sent")
  /\ PutInPool(open + 1)
  /\ UNCHANGED <<bound, gateVars, changed, localVars, err, taskVars, now, arrived>>

PoolFailed(r) ==
  /\ pc[r] = "dialing" \/ (pc[r] = "pool" /\ ~pool /\ dial # NoOne)
  /\ pc' = [pc EXCEPT ![r] = "failed"]
  /\ dial' = IF pc[r] = "dialing" THEN NoOne ELSE dial
  /\ \E timed_out \in {FALSE, pc[r] = "dialing" /\ bound = "ConnectTimeout"} :
       err' = [err EXCEPT ![r] = [kind |-> IF timed_out THEN "Timeout" ELSE "Connection",
                                  by |-> NoFailure]]
  /\ UNCHANGED <<bound, gateVars, open, changed, localVars, taskVars, now, pool, closing,
                 closes, spare, arrived>>

CloseConnection ==
  /\ pool /\ closes < MaxCloses
  /\ pool' = FALSE
  /\ closing' = closing + 1 /\ closes' = closes + 1
  /\ UNCHANGED <<bound, gateVars, open, pc, changed, localVars, err, taskVars, now, dial,
                 spare, arrived>>

\* OpenStream::drop
DropStream ==
  /\ closing > 0
  /\ closing' = closing - 1 /\ open' = open - 1
  /\ UNCHANGED <<bound, gateVars, pc, changed, localVars, err, taskVars, now, pool, dial,
                 closes, spare, arrived>>

Tick ==
  /\ now < MaxTime
  /\ now' = now + 1
  /\ UNCHANGED <<bound, gateVars, open, pc, changed, localVars, err, taskVars, hyperVars,
                 arrived>>

-----------------------------------------------------------------------------
RequestStep(r) ==
  \/ LoadPooled(r) \/ LoadOpen(r) \/ Register(r) \/ LoadTurns(r)
  \/ TakeTurn(r) \/ LoseTurn(r) \/ ReadClock(r) \/ Woken(r) \/ Outcome(r)

TaskStep(r) ==
  \/ OpenStart(r) \/ ProbeCheckout(r) \/ BeginConnect(r) \/ Abandon(r)
  \/ MarkPooled(r) \/ RecordFailure(r) \/ ReturnTurn(r) \/ NotifyWaiters(r) \/ SendOutcome(r)

NetworkStep(r) ==
  \/ StreamOpened(r) \/ ConnectionPooled(r) \/ ConnectError(r) \/ RuntimeDrop(r)

PoolStep(r) ==
  PoolCheckout(r) \/ PoolConnect(r) \/ PoolConnected(r) \/ PoolFailed(r)

Next ==
  \/ \E r \in Requests :
       Call(r) \/ RequestStep(r) \/ GiveUp(r) \/ TaskStep(r) \/ NetworkStep(r) \/ PoolStep(r)
  \/ CloseConnection \/ DropStream \/ Tick

Spec == Init /\ [][Next]_vars

\* Threads run their synchronous code, the runtime polls what was woken and
\* time passes.  A request that started a connect does not wait for ever (its
\* call has a deadline), and a connect inside hyper-util ends.  Nothing is
\* assumed of the connect of a task: the endpoint may never answer it.
GiveUpOpening(r) == pc[r] = "outcome" /\ GiveUp(r)

Fairness ==
  /\ WF_vars(Tick)
  /\ \A r \in Requests :
       /\ WF_vars(RequestStep(r)) /\ WF_vars(TaskStep(r))
       /\ WF_vars(PoolStep(r)) /\ WF_vars(GiveUpOpening(r))

FairSpec == Spec /\ Fairness

-----------------------------------------------------------------------------
(* Properties. *)

\* One task at a time holds the turn to open a connection, and the HELD bit
\* says so for exactly as long (gate.rs: only the holder gives it back).
OneOpener ==
  /\ \A p, q \in Requests : phase[p] \in Holding /\ phase[q] \in Holding => p = q
  /\ held <=> \E p \in Requests : phase[p] \in Holding

\* A request that decided to wait has been woken, or will be: the turn is
\* still held, or the task that gave it back has yet to notify the waiters.
NoLostWakeup ==
  \A r \in Requests :
    pc[r] \in {"since", "wait"} /\ changed[r] = "waiting" =>
      held \/ \E t \in Requests : phase[t] = "notify"

\* While the connect of a turn is in flight no request finds the gate warm:
\* the last opener's store of `true` to `pooled` comes before it began.
ColdWhileConnecting ==
  \A r \in Requests : phase[r] \in {"connecting", "handshaking"} => ~pooled

\* What the gate is for: as long as no connection ended, hyper-util never
\* opens a second one, and a request sent to the pool finds the first there.
OneConnection ==
  closes = 0 => spare = 0 /\ \A r \in Requests : pc[r] \notin {"missed", "dialing"}

\* A request that arrives after a bound's deadline is never failed by that
\* bound, whatever the task that timed it did late.
BoundSparesLater ==
  \A r \in Requests :
    pc[r] = "failed" /\ err[r].by.how = "Bound" => arrived[r] <= err[r].by.deadline

\* The request that started a connect and the requests that waited for it
\* report the same kind of error: a timeout for all of them, or for none.
AlikeErrors ==
  \A r, s \in Requests :
    /\ pc[r] = "failed" /\ pc[s] = "failed"
    /\ err[r].by.turn = err[s].by.turn /\ err[r].by.turn > 0
    => err[r].kind = err[s].kind

\* A waiting request takes no turn over: when the turn it waits for ends
\* without a connection it fails, and goes round the loop again only when
\* the failure it reads is a bound that was over before it began to wait.
FailsWithItsTurn ==
  [][\A r \in Requests :
       pc[r] = "wait" /\ pc'[r] = "register" /\ fate[r] = "failed" =>
         failed.how = "Bound" /\ failed.deadline < since[r]]_vars

\* The gate implements Turn: the holder is the request whose task owns the
\* Opener, and a request that failed inside hyper-util has passed the gate.
Holders == {r \in Requests : phase[r] \in Holding}

Looked(r) == pc[r] \in {"cas", "since", "wait", "outcome"}

Stage(r) ==
  CASE pc[r] = "idle" -> "idle"
    [] pc[r] \in {"pooled", "open", "register", "turns"} -> "asking"
    [] Looked(r) -> "looked"
    [] pc[r] = "failed" /\ err[r].by.turn > 0 -> "failed"
    [] pc[r] = "gone" -> "left"
    [] OTHER -> "passed"

T == INSTANCE Turn WITH
  holders <- Holders, lost <- failed.turn,
  stage <- [r \in Requests |-> Stage(r)],
  asked <- [r \in Requests |-> IF Looked(r) THEN seen[r] ELSE 0],
  blamed <- [r \in Requests |-> err[r].by.turn]

\* gate.rs: one task at a time opens the connection and every request waits
\* for it; whatever the interleaving of loads, exchanges and wakes, each turn
\* is taken by one request that found it free, ends once, and fails only
\* requests that looked before it ended.
TakesTurns == T!Spec

\* No request stays in the gate, even when the endpoint never answers.
LeavesTheGate ==
  \A r \in Requests :
    pc[r] = "register" ~> pc[r] \in {"pool", "missed", "dialing"} \cup Final

\* Entry::Failed: "The turn this request waited for ended without a
\* connection."  The code tells a request so when a later turn did.
FailedOnlyByItsTurn ==
  \A r \in Requests : pc[r] = "failed" /\ err[r].by.turn > 0 => fate[r] # "connected"
===========================================================================
