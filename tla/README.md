# Verification of the TypeSafe decision-model SDK

TLA+ models of the core of this repository (`crates/sdk`, the client of the
System One API; `crates/macros`, which declares its questions at compile time;
`crates/adapter`, the same questions answered by a vendor's language model):
its concurrency, its handling of failures, and what it makes of a caller's
settings and questions and of a model's replies. They are model-checked with TLC and,
for the safety properties that matter most, proved with TLAPS for every value of
the constants.

Paths below are relative to `src/crates/`.

## 1. Inventory

### The SDK (`sdk/src`)

| Component | State it keeps | Operations | What is hard | What makes it correct |
|---|---|---|---|---|
| Connection gate, `transport/gate.rs` | `open` (streams), `pooled`, `turns` (HELD bit and count of ended turns), `failed` (last failed turn), `changed` (Notify), `bound` | `is_warm`, `enter`, `send`, the task `open`, `Opener::drop`, the counting connector | atomics read one after the other, a wake-up registered before a check, a detached task that outlives the request that started it, a bound served late, the runtime dropping the task | one opener; no lost wake-up; a cold burst opens one connection; a failed turn fails who waits for it and nobody who came later; nobody waits for ever |
| Default transport, `transport/hyper.rs` | the hyper-util client, `Shared` | `call`, the response future, the mapping of errors | `call` reads the gate before the future is polled; a connect timeout is seen at three places | all requests of one connect fail alike |
| Retry loop, `retry.rs` | `retry`, `started` | `run_on`, `next_delay`, `delay`, `backoff_seconds`, `StatusSet` | budget against delay with saturation, a server's delay against a backoff, the last retry | bounded number of attempts, bounded duration |
| Attempt, `transport/mod.rs` | a request and its deadline | `attempt`, `exchange_once` | an answer racing the deadline, a body over the limit under a failure status | every attempt is reported as exactly one outcome; the retry count tells attempts apart |
| Calls, `request.rs`, `models.rs` | the encoded body | `send` | the body is given away when no retry can follow | every attempt sends the whole body |
| Client and settings, `client.rs`, `config.rs`, `constants.rs` | settings, shared by clones | builder, `resolve` from the environment, a call's own settings | precedence of call, builder, environment and default, in whatever order they are set; clones and later calls share what an earlier one must not have changed | every attempt carries what its caller said, and the SDK's own identity |
| Codec, `codec.rs`, `codec/backend.rs` | none | encode, decode | two JSON back ends that have to agree | a failure names the place at fault |
| Response decoder, `de.rs`, and the readers that `macros` generates | what was collected of the answer in progress, the answers kept | `decode_system_one_with`, `AnswerSet::deserialize_answers`, `AnswerSeed` | one pass: members before the type that says how to read them, a second type, repeated answers, two readers of one contract | the answers do not depend on the order of members; the two readers agree; a failure's path names what is at fault |
| Questions and responses, `question.rs`, `response.rs`, `content.rs`, `text.rs`, `name.rs` | the JSON text of a set being built, and its names | `add`, `prepare`, the builders of each kind | a name added again replaces its question in place, in text already written | what is sent reads back as the questions asked |
| Errors and redaction, `error.rs`, `redact.rs`, the end of `transport/mod.rs` | values | construction, `parse_retry_after`, redaction of credentials | a delay from three header forms; a credential spelled by an escape, by two links joined or by a cut | the delay is the server's; no error shows a credential of its request, in any spelling |
| Telemetry, `telemetry.rs` | none | events | - | - |

### The adapter (`adapter/src`)

| Component | State it keeps | Operations | What is hard | What makes it correct |
|---|---|---|---|---|
| Client's providers, `client.rs` (`Owned`) | a map, behind a lock, of one OnceCell per provider and model | `get`, `forget` | a build between two locks, several callers in one cell, a failure of an old cell after a new one was put in, a call dropped at its await | a built provider is never lost from the map; a failure forgets its own cell only |
| Evaluation, `run.rs`; retry of provider calls, `retry.rs` | messages, trace of attempts and reasons, usage | `evaluate`, `attempt`, `run_with_retries`, `add` | two nested loops with limits of their own and one trace; text of a failure carried from one closure call to the next | the trace explains every call; usage counts each call once |
| Providers, `provider/*.rs` | an HTTP client, the API key, limits | `request` (one attempt), `record`, `result` per vendor API | a deadline over head and body, a limit known early or only while reading, four vendors' ways to say "unfinished", a key echoed by a server in another spelling | nothing over the limit is read as a reply; a failure is reported with its status; an answer is a finished reply; the key is in nothing that is shown |
| Decoding and conversion, `decode.rs`, `convert.rs`, `metrics.rs`, `model.rs`, `schema.rs`, `prompt.rs` | none | read the questions again, schema, decode, convert, normalise | duplicate, missing and unknown members; two readings of one schema; weights that do not sum to one | the decoder takes what the schema allows; every problem is named; answers are the reply's weights |

`macros` checks a struct or an enum and writes, while the program is compiled,
the JSON that the SDK's builders would have written at run time, and the reader
of its answers. `test-support`, `live-tests`,
`adapter-live-tests`, `fuzz`, `benches`, `.github` and `docs` are test, build and
documentation code.

### How the parts interact

`SystemOne::send` encodes its body once and runs the retry loop; the loop calls
the attempt; the attempt clones the transport and calls it under its deadline,
dropping the response future when the deadline passes. The default transport
asks the gate at `call` and, when the gate is cold, sends through it. A request
that finds no connect in flight starts one in a task that it does not own and
waits for a oneshot; the other requests wait for a Notify. hyper-util's pool
stands behind both; its connector reports to the gate when a connect begins and
when a stream is opened or dropped.

Before the first attempt a client's settings, the call's and the environment's
have been merged into headers, a URL and a body; each attempt adds what is its
own (`x-typesafe-retry-count`, the deadline). When the transport fails, the
attempt searches its error for the credentials among those very headers before
anybody sees it.

The adapter's client resolves a provider, which `Owned` builds at most once per
pair, and evaluates: the corrective loop runs the SDK's retry loop over provider
calls, each recorded in the trace.

## 2. Modules

| Module | Models | Extends |
|---|---|---|
| `Lists` | what a filter keeps (`Sift`), what one map lays over another (`Over`), the first check to fail (`FirstFailing`), a walk from the end (`Backwards`), sequences in one (`Flat`) | - |
| `Inductions` | lemmas: induction and recursive functions, in the form the provers use, and what `Lists` computes | `Lists` |
| `Turn` | abstract: what `Gate::enter` promises, without its atomics | - |
| `Gate` | `transport/gate.rs`, the `Http2Only` path of `hyper.rs` | instance of `Turn` |
| `GateProofs`, `MCGate` | theorems, instances | `Gate` |
| `Delays` | `parse_retry_after`, `backoff_seconds`, `StatusSet` | - |
| `Retry` | `retry.rs`, `transport::attempt`, `SystemOne::send` | `Delays` |
| `RetryProofs`, `MCRetry` | theorems, instances | `Retry` |
| `Values` | JSON values as the adapter reads them | `Lists` |
| `Asked` | questions read back from JSON (`model.rs`) and their schema (`schema.rs`) | `Values` |
| `Answers` | the adapter's decoder, conversion and metrics | `Asked` |
| `Evaluate` | one call of the adapter: `send`, `evaluate`, `attempt`, `run_with_retries` | `Answers` |
| `EvaluateProofs`, `MCEvaluate` | theorems, instances | `Evaluate` |
| `Questions` | `question.rs`, `content.rs` | `Asked` |
| `Derive` | `macros`: what it refuses of a struct, and the JSON it writes for it | `Questions` |
| `Redact` | `redact.rs`, and the message of a connection error | - |
| `Call` | settings, questions and calls of the SDK, up to each attempt and its error | `Derive`, `Redact` |
| `CallProofs`, `MCCall` | theorems, instances | `Call` |
| `Owned` | `Owned` of the adapter's client | - |
| `OwnedProofs`, `MCOwned` | theorems, instances | `Owned` |
| `Replies` | what the three providers read out of a success response, for their four APIs | `Lists` |
| `Vendors` | which provider a call goes to, its builder, the body of its request | `Replies` |
| `Provider` | one attempt of a provider: `post`, `exchange_once`, the redaction of errors, `Exchange` | `Vendors` |
| `ProviderProofs`, `MCProvider` | theorems, instances | `Provider` |
| `Decode` | the walk of `de.rs` over a System One response, for the lookup `Answers` and for a struct as `macros` generates it | `Lists` |
| `DecodeProofs`, `MCDecode` | theorems, instances | `Decode` |

Definitions whose comment begins with "Mutant:" are wrong on purpose: each is a
plausible bug of one definition, and shows that a property is able to fail.

### Gate

Each action is one access to shared state, so that every interleaving of
threads is a behaviour: the two loads of `is_warm` (`LoadPooled`, `LoadOpen`),
`enable` (`Register`), the load of `turns` (`LoadTurns`), the compare-exchange
(`TakeTurn`, `LoseTurn`), the reading of the clock (`ReadClock`), the wake-up
with `failed` under its lock (`Woken`), and so on up to the four steps of
`Opener::drop` (`RecordFailure`, `ReturnTurn`, `NotifyWaiters`) and the message
to the starter (`SendOutcome`). `held` and `ended` are the two parts of the one
word `turns`; every access reads or writes both together, as the code does.
`changed[r]` is the request's `Notified`: not registered, waiting, notified.
`chan[r]` is the oneshot, `gone` once the request dropped its receiver.
`GiveUp` is the dropping of a request's future at any of its awaits,
`RuntimeDrop` the dropping of the task.

hyper-util is external and modelled from how the gate uses it and from what
`gate.rs:1-43` says of it: one connection per destination in the pool (`pool`),
a lock that lets one actor at a time connect (`dial`), a checkout that looks for
a connection first and then starts to connect (`ProbeCheckout` / `PoolCheckout`,
then `BeginConnect` / `PoolConnect`), a second connection closed at once when
the pool has one (`spare` counts those), a connection that may end at any time
(`CloseConnection`) and whose stream is dropped later (`DropStream`).

`fate`, `arrived`, `spare` and `closes` are history variables.

`Turn` is the same gate as a caller sees it: requests look, take the one turn
when none has ended since, turns are lost or returned, and a request fails only
with its own turn or with one that was lost after it looked. Nothing in it is
read in two steps. `TakesTurns` says that `Gate` implements it, under the
mapping at the end of `Gate`: the holders are the tasks in a holding phase, a
request looked when it loaded `turns`, the last lost turn is the one recorded in
`failed`, and the turn a request fails with is the one its error names.

Interleaving is of sequentially consistent accesses. The code's weaker orderings
give nothing more that the properties see: what a load of `pooled` publishes is
ordered by its Release and Acquire, the count `open` was raised before the pool
insert that precedes it, `turns` passes from one holder to the next by Acquire
and Release, and a waiter reads `failed` under its lock after `changed` woke it
(`gate.rs:87-112`).

`Auto` never enters the gate (`hyper.rs:284-286`) and is not modelled.

### Retry

One call: `Start`, then attempts (`Answer`, `TransportEnds`, `DeadlinePasses`)
and sleeps (`Wake`), until it is answered, fails or is dropped. `Fail` is the
loop's reaction to an error: `next_delay` draws a delay and compares the time
taken plus the delay, saturating, with the budget. A draw over the budget ends
the call, so both outcomes are possible when only some draws fit. A predicate is
the set of error kinds it accepts.

The numbers are in `Delays`. `ParseRetryAfter` reads the two headers in the code's
order, from the forms that it tells apart (a number, which may be negative, one
too large, an infinite one, a date, an empty or an unreadable value); `Backoffs`
doubles, caps, takes its random share (a choice among all it can remove) and
rounds to milliseconds, a tick being finer than one; `StatusSet` is the bitmap
with its words, in which a status may lie beyond the last. The bits of floating
point are left out. An error's text, its redaction and the telemetry are left out.

Time: code between two awaits takes none, timers are served when due
(`Tick` waits for them). An attempt without a deadline is bounded by
`LongestAttempt`, which only keeps the instance finite; no property about
duration speaks of such attempts.

### Owned

`Get` (the lock, the entry), the race for the cell's permit (`FindBuilt`,
`Acquire`), the build (`BuildSucceeds`, `BuildFails`) and `Forget` (the second
lock, with both its checks) are separate steps. tokio's OnceCell is external; it
hands its permit to waiters in order of arrival, and the model to any of them.
A cell, and the provider built in it, bear the name of the call that made it.
How a call's provider is resolved is in `Vendors`.

### Evaluate, Asked and Answers

`Send` is what `client.rs` does before the first request: the questions are read
again from their JSON (`Asked.FromJson`), which may refuse them, and the
schema is made (`WriteSchema`); both are kept in `asked`. Then the corrective
loop and, inside each of its turns, the retries: an exchange ends with a reply
that is accepted (`Answer`, and `Finish` with its conversion), with one that is not
(`Malformed`), with a declared absence of an answer (`NonAnswer`) or with a
failure (`CallFails`). Which failure the retry policy repeats is the subject of
`Retry`; here it may stop at any failure and must stop at its limit. `failure`
is the slot through which the text of a failure reaches the next closure call.
One total stands for the input and the output total, which are computed alike.

A reply is a text in pieces (a code fence, `json`, blanks, other words, the
value); an object is the sequence of its members as written, so that a name may
come twice; a number is counted in parts of a `Unit` and knows whether it was
written as an integer. `Answers` strips and reads the reply, decodes it by the
questions with every problem it finds, in order and up to `MaxProblems`, and
converts what it accepts, with exact fractions for floats. `SchemaAgrees`
compares the decoder with `FitsSchema`, a validator of the schema that was sent:
two independent readings of one contract.

### Call, Questions, Derive and Redact

`Call` is one program: the environment is fixed at the start, then calls of the
builder (`Configure`), the client (`Build`), questions added one at a time
(`Ask`, `PrepareQuestions`) or declared by a struct (`Declare`, which is `Derive`),
the settings of one call (`SetOption`), the call (`SendSystemOne`, `SendList`) and
its attempts (`Attempt`). Of a caller's text the model keeps what `strip` leaves
of it and whether it took anything away, since the checks and the precedence
depend on no more. `SettingsTell` states precedence over what was said, without
the order in which the code merged it; `QuestionsReread` reads the prepared
text with the adapter's reader (`Asked`), so that the builder, the macro
and the reader are held against each other.

`Redact` spells texts character by character, as far as an escape, a search or a
cut tells characters apart: blanks, quotes, a backslash and `t`, letters. A
secret is searched in each of its forms and in what `{:?}` makes of each
(`FormsOf`); the message is rendered from the chain's links, searched, escaped
and cut in the code's order (`Render`, `RedactPieces`, `Cut`), and the chain
itself is copied with its links replaced where a rendering tells
(`CopyChain`, `UnlessDebugSpells`). `Fail` is a transport's error at the last
attempt, `Tell` what the caller is told of it; `CredentialsHidden` looks, in
every rendering of it, for every spelling of every secret value, without the
code's list of forms or its order. Of a message that was made anew and cut it also
asks that what it shows of the links, as they were or as they were copied, ends
before any secret, so that no half of one is left at its end. `Fail` forgets the
program that led to it, which nothing reads any more; only the headers of the call
are kept.

### Vendors, Provider and Replies

`Build` is how a call comes to a provider: its `provider/model` is resolved
against the client's own instance or the factory, and the vendor's builder
checks key, URL and limits and says where requests go (`Vendors`). A builder
that refuses ends the call. The request's body is built per API (`wire`) from
the messages of the call (`ask`).

One attempt: the body is built and recorded (`Request`), the HTTP service gives
way (`Call`), the head arrives (`ReceiveHead`), frames of the body arrive
(`Frame`), and the whole body is read (`Whole`). At every await between, the
service may fail (`Fail`) and the deadline may pass (`Deadline`). An attempt
returns one of the kinds of error, or an answer; `outcome` holds what the caller
can read of it: the message, and what the value keeps besides (`Told`).

A text is a sequence of tokens that differ in how they spell the API key: as the
search for the key sees it, with a JSON escape that decoding resolves, with a
control character that only the escaping of a message resolves, or cut off by
the limit on messages. Where the code decodes, searches, escapes and cuts, the
model does so in the same order; everything else about text is left out.

`Replies` gives what each of the four APIs reads (`openai.rs` has two): whether
the reply has the vendor's shape, whether it is finished, and which items make
up the text. `OutputText` is the backward walk of `gemini.rs`; the property
`AnswersAreFinished` compares it with `LastRun(AfterInput(..))`, which states
what the walk is for without a walk.

The HTTP client (hyper) and the body limiter of `http-body-util` are external:
a response is any of `Responses`, in frames of any size. The deadline of an
attempt is a step that may happen whenever the attempt waits. `AsksAsTold`
compares what arrives at the service with what the caller said.

### Decode

The body is fixed at the start; `at` is the position of the pass in it, and each
step reads what is there: a top member (`ReadTop`, `EnterAnswers`), an answer's
beginning (`EnterAnswer`), one member of it (`ReadMember`), its end
(`LeaveAnswer`), the end of the answers and of the body. `Broken` is a syntax
error at any place. Two decoders take every step, `dec["map"]` for `Answers` and
`dec["struct"]` for a struct with `body.fields`; one that failed stays as it is.
A data member's slot is missing, held as text, or read under a kind
(`Slot`, `Probabilities`), and `Build` is `Target::build` with the order in which
the builders check their members.

A value is told apart by its shape only: a number, a text, or a table with
named keys, with levels and numbers, or with levels and texts. Text held back
is the value itself, since parsing it later gives what parsing it at once does,
except that the failure is told at the answer. The second, path-tracking pass
over a refused body (`describe_failure`) is the record `failure`. A path below a
member (an entry of a table) is cut at the member. Capacities and hints are left
out, since they change no result.

`YieldsContract` and `PathsTell` state the contract of `AnswerSet`
(`de.rs:127-177`) in terms of the body, without a pass over it.

## 3. Runs

| Run | Instance | Shows |
|---|---|---|
| `gate` | 3 requests, attempt-deadline bound, one connection may end, no clock | mutual exclusion, no lost wake-up, a cold gate while connecting, one connection per burst, nobody takes a failed turn over, and the gate takes turns as `Turn` promises |
| `gate_bounds` | 2 requests, all three bounds, clock 0..2, the runtime may drop the task | a bound spares requests that come after it; requests of one connect fail alike |
| `gate_live` | 2 requests, fair, an endpoint that may never answer | every request leaves the gate |
| `gate_doc` | as `gate` | **violation**: a request is failed by a turn it did not wait for |
| `owned` | 4 calls, 2 pairs, fair | what the map keeps and forgets; every call returns |
| `owned_doc` | 3 calls, 2 pairs | **violation**: two builds of one pair at the same time |
| `retry` | 52 policies, 2 deadlines, 13 responses, fair | bounds on attempts and time, whole bodies, one number per attempt, the server's delay, the backoff, which statuses are repeated, the end of every call with a deadline |
| `evaluate` | 6 question sets in both modes, 13 replies, 1 retry, 2 corrections, counts up to 2 | the trace and the usage, the decoder against the schema, corrections that name every problem, answers that are the reply's weights |
| `provider` | 4 APIs, the ways to a provider, some hundreds of responses, the service's failures | what the service is asked, the size limit, the reported status, the key, what an answer is, the trace |
| `prepare` | programs of up to 3 calls of the builder, of questions and of a request, 3 environments, 50 such calls; 21 errors of a transport | the headers of each attempt, precedence of settings, questions that read back as asked, errors that tell no credential |
| `decode` | about 14000 bodies | what is kept of a body, by the lookup and by a struct; which place a failure names; kinds that are not mixed |
| `decode_doc` | as `decode` | **violation**: an answer with two types is refused at another member |

### Bounds, and why they are enough

- Three requests are the least with an opener, a waiter and a third that takes
  the next turn before the waiter is polled; the finding `gate_doc` needs them.
  The properties of `gate_bounds` relate two requests (starter and waiter, or
  waiter and late comer), and `GateProofs` covers every number for all but
  the liveness.
- `MaxTime = 2` with `BoundTicks = 1`: a bound can pass, and a request can
  arrive both at its deadline and after it. The clock stops at `MaxTime`, and
  its last tick lasts for ever; a deadline beyond the horizon is put at it
  (`Sooner`), so bounds still expire.
- `MaxCloses = 1`: a connection ends once, under any number of requests at any
  place, and a second is opened.
- Four calls and two pairs: a builder, a waiter in the removed cell, a call in
  the new cell and one of another pair.
- Policies of `retry`: 0, 1 and 2 retries (none, the last at once, one in the
  middle); no backoff, and one that reaches its cap at the second retry; no
  budget, one that any positive delay exceeds and one that some delays exceed.
  `MaxDuration = 7` is reached by a response that asks for it, so the addition
  saturates; `TicksPerMilli = 2`, so a backoff can lie between two milliseconds.
  The responses ask for waits that are short, too long, endless, negative, past,
  a date, empty, or unreadable in the first header, the second or both. Status
  840 is in the policy's set and beyond its bitmap.
- `evaluate`: one retry within each of three turns (two corrections), so that
  the inner counter has to be reset between turns and the outer one has to reach
  its limit; a total that overflows at its second addition (`MaxCount = 2`).
  `Unit = 4` and `Tolerance = 1`: weights that sum to the unit, within the
  tolerance of it, outside and to nothing; `MaxProblems = 2` is reached and
  exceeded. Its 13 replies are whole answers in either mode, fenced and bare,
  with members repeated, and refusals of every kind the decoder has; its question
  sets include raw ones that the builders would not make.
- `prepare`: `MaxCalls = 3` puts two calls that get in one another's way around a
  third, in every order: the same setting twice, a setting and what overrides it,
  in the builder and in the call. A run of four calls
  (2.8 million states, before the errors were added) found nothing more.
  `MaxScanned = 3`, `MaxShown = 2`, `MaxMessage = 6` with chains of one to four
  links and messages on both sides of the cut; the secrets hold what each escape
  changes, blanks around a scheme, and a run that overlaps itself.
- `DefaultLimit = 2` (and limits that a builder sets) with bodies of 1 to 3
  bytes, with and without a declared length: a body that is refused at its head, at its last frame, or just fits.
- `MaxMessage = 5`, a key being two characters long: texts that spell the key
  before the cut, across it and behind it, in each spelling.
- Bodies of `decode`: every object of up to three members out of four types and
  three values of `noul`; the members of a choice and of a score in every order,
  fitting, misshaped, missing, with levels in and out of order; two types around
  a choice's or a score's members in every order; up to three answers out of
  eight, for no, one and two fields; up to four top members out of eight. A rule
  of the contract relates at most two members of an answer, two answers of a
  name or two top members, with something between them.
- Interactions of up to three steps with up to two items each: an input in the
  middle, a step that ends a run, a run that goes on over two steps.

Every run has `CHECK_DEADLOCK FALSE`: the modelled calls end, and then nothing
is left to do.

### Fairness

- Gate: threads run the synchronous code they began and the runtime polls what
  was woken (`RequestStep`, `TaskStep`), time passes (`Tick`), connects made by
  hyper-util for a request end (`PoolStep`, under the connector's timeout and
  the request's deadline), and a request that waits for its own connect gives up
  at some time (`GiveUpOpening`: its attempt's deadline, `transport/mod.rs:399`).
  Nothing is assumed of the task's connect: the server may never answer it. The
  run leaves out the bound `ConnectTimeout`, whose steps are those of
  `AttemptDeadline`.
- Owned: a call that is polled goes on, and a build is one synchronous call.
- Retry: time passes and the loop is polled when a timer fires. Nothing is
  assumed of the transport or the server.

The other runs state safety only, and assume no fairness.

## 4. Proofs

The constants' assumptions (`ConstantsAssumption`, `OwnedAssumption`,
`RetryAssumption`, `DelaysAssumption`, `AnswersAssumption`, `EvaluateAssumption`,
`ProviderAssumption`, `DecodeAssumption`, `RedactAssumption`, `CallAssumption`,
`CallsAssumption`, `SecretsAssumption`, `FailuresAssumption`) give types, say that `None` is none of the values it stands
beside, and, of what a caller may do, only what the code's types already say: a
setter of the builder sets one of the builder's settings, a count of retries is
a number. That a provider made by the caller was not refused
(`ProviderAssumption`) is the type of `Arc<dyn Provider>`: there is no other way to
have one. TLC evaluates all of them on the runs.

Each proof has the same shape: an inductive invariant `IInv` made of named parts,
one lemma or step per action, and the property from the invariant alone. TLC
checked each invariant on its run's instance before it was proved.

### The gate

An inductive invariant that ties each request's program counter to
its task's phase (a task belongs to the turn its starter took), the HELD bit to
the one task in a holding phase, registered waiters to a turn that is held or
about to be announced, `pooled` and `open` to the pool as long as no connection
ended, and the turn and deadline of the recorded failure to the turns that have
ended. The properties alone are not inductive: mutual exclusion needs that a
compare-exchange that succeeds found `held` FALSE; the lost wake-up needs that
who waits saw the turn that is still held, or has been notified since;
`OneConnection` needs the count of open streams. From it: `TypeCorrect`,
`MutualExclusion`, `WaitersAreWoken`, `ColdUntilConnected`, `ColdBurstOpensOne`,
`LateRequestsAreSpared` and `NobodyTakesOver`, for any number of requests, any
bound, any horizon of the clock, any number of connections that end, with or
without a runtime that drops tasks.

`ErrorsAreAlike` (the requests of one lost turn fail with one kind of error)
needs to say who can know how a turn failed (`Known`): the record, the task that
will write it, the message to the starter, the requests that failed with it. All
who know agree, and nobody knows before the turn's connect has ended (`Agreed`);
a task ends at its bound, while its starter listens, only when the bound is the
connect timeout, so that the starter reports a timeout too (`Listening`).

`GateImplementsTurn` is the refinement: under
the same invariant, with two conjuncts more (a task fails its turn only by itself;
the failure of a turn is on record before the turn is given back), each of the
gate's 32 kinds of step is one step of `Turn` or changes nothing it sees.

### The map of providers

An empty cell in the map has a call of its pair that will fill it
or take it out, or that was dropped; a call that forgets has had a failed build
in the cell it forgets. From it `TypeCorrect`, `FailuresLeaveNoEntry`, `BuiltProvidersStay` and
`FailuresForgetTheirOwn`, for any number of calls and pairs.

### The retry loop

An attempt of a retry begins below the budget and ends by its
deadline, a sleep ends below the budget (`BudgetBounds`: what the saturating
addition lets through an unbounded one would too); the count of requests sent is
the loop's counter plus one. From it `TypeCorrect`, `CallIsBounded`,
`BodiesAreWhole` and `CountsAreConsecutive`, for every policy, deadline and
server, and whatever the headers ask for: `ParseRetryAfter` and `Backoffs` give
durations (`AskedTyped`, `BackoffsTyped`).

A second layer keeps the history: every attempt's end is an error the transport
can report (`Recorded`), and every wait between two requests is one of the delays
the policy had after the error before it (`Chosen`). From it `WaitsAreSlept` (a
server's delay is slept as it was written, to the millisecond, unless it was cut
to the longest duration), `BackoffsAreKept` (a wait nobody asked for is within
the doubled start, the cap and the jitter) and `OnlyListedRepeat` (a status repeats only if
it was listed, is no success and has a word in the bitmap). The arithmetic is in
lemmas about `ParseRetryAfter` and `Backoffs`. The exponent is the
recursive function `Doubled`, which is what the code's `powi` of 2 is;
`DoubledUnfolds` gives its equations through `Inductions`.

### The adapter's call

`EvaluateProofs`, for any question sets, replies, limits and texts: the trace and
the reasons are in step with where the call is (`InStep`), each reason is that of the call it
follows (`Explained`), each call carried what the one before it left (`Carried`),
the counters add up to the reasons (`Counted`) and the total is that of the
calls so far, saturated once and for good (`Totalled`). A call that waits
remembers in `failure` the text of the very failure it repeats; without that
`ReasonsExplain` is not inductive. From it `TypeCorrect`,
`TraceExplainsItself`, `CorrectionsAreCarried` and `UsageAddsUp`. What a reply
decodes to is opaque to these proofs: they hold for every decoder.

The decoder itself is the subject of `AcceptsBySchema` (`SchemaAgrees`) and
`CorrectionsAreComplete` (`CorrectionsComplete`), for any JSON values nested in any
way, any question sets the reader takes, and any text around a reply. The reader of
questions and the writer of the schema meet in one description of a question
(`Parses`, `Writes`, `Posed`). A reader of objects either has every member it wants,
each read well, or tells what was strange, missing or read badly (`Assembles`); with
it a map of probabilities (`DistributionRead`), one answer (`AnswerRead`), the answers
(`AnswersAreRead`) and a reply (`ReplyRead`) are read, and the schema is satisfied
where they are (`Agrees`, `AnswersFit`, `SchemaFits`). No place of one question begins
like that of another (`PlacesApart`), so that what is wrong with one answer is told
under its own name (`Ahead`, `Naming`). Of the text it is proved which pieces are cut
from it (`Trims`, `Unfenced`, `Extracts`) and that a text which is one value is read as
that value (`Wholes`). The decision of the loop about a reply is then the schema's
(`Judges`), and its problems name what a validator would (`Tells`). The invariant
needed beside `IInv` is small: the questions of a call were read from its set
(`Posing`), and where a call stands is what its last reply deserves (`Settled`).

`AnswersAreTold` (`AnswersTell`) goes on to what the caller gets. It is arithmetic
on sums over sequences of any length: what a sum is at least and at most, when
it has one or two summands that count (`SumAbove`, `SumBelow`, `SumOne`, `SumTwo`,
`SumPart`), and hence that rescaled weights are what they were in proportion
(`Rescales`), that a choice with one heavy weight is sure (`OneHeavy`, `ChoiceSure`), that
a score's level lies between the levels with weight and an average does not leave them
(`ScoreSure`, `ScoreWithin`, `FirstIsLeast`). With them one answer's report is what
its question and its reply say (`Normalizes`, `Names`, `Weighs`, `Draws`), and all of
them are, in the order of the questions (`Converts`).

`JsonAssumption` gives the values their types: `Json` is any set of values that holds
with a value its members and items, as deep as they go; a number written as an
integer is a multiple of the unit. `AnswersAssumption` says of `None` that it is no
list of weights and no normalization.

### Providers

Until the end nothing is recorded of a response and nothing
returned; a body is read only if its declared length is within the limit, and
what was read is within it (`Underway`). From it `LimitKept` and
`ReportedByStatus`, for any responses and any failures, whichever
provider a call resolves to: a builder that is not refused settles on a limit
(`SettledLimit`), and what the call asks changes neither.

A second layer (`Traced`) adds what the trace holds at each place, and gives
`TraceIsTrue` and `KeyIsKept`. The latter is the long way from the body to what is shown:
what is decoded, joined, escaped and cut
holds the key's beginning only where the body spelled it otherwise (`Decodes`,
`InJoined`, `Escapes`, `Cuts`, `Made`), and whatever a search finds is replaced
before it is shown. It is proved for messages of any length, cut anywhere, and
for each of the four APIs.

`RequestIsAsTold` (`AsksAsTold`) is about the way there. The invariant is small
(`Built`: the provider is what the call resolves to, and what was sent is its
request); the work is in the lemmas. A builder that is not refused passed
every check of its vendor's list, in whichever order the vendor makes them
(`Passes`), so that it has a key and a URL that breaks no rule; the key is in the one
header in which any vendor looks for a key (`HeadersKeyed`), and the path extends that
of the place that was named (`PlaceAsTold`). The filters for the system prompt and the
turns share the messages out and leave each other's part alone (`Split`), hence each
of the four bodies says all of it once (`SaysResponses`, `SaysChat`, `SaysMessages`,
`SaysInteractions`). It holds for any number of messages, any call, client and
environment of the types that `AsksAssumption` states: an instance's vendor
and API are the ones its builder has, a path is a sequence, and an URL of no text breaks
a rule.

`AnswersAreWhole` (`AnswersAreFinished`) is about the way back, and in it about the
one algorithm there: the backward walk of `gemini.rs` over steps and their items,
with its two ways to end. What the walk has read of the items so far is an
invariant of it (`Reads`): either there is no text in them, or the parts are the
last run of it, and what stands before that run, if the walk is over, is no text.
Each item keeps it (`ReadsText`, `ReadsNoText`), in front of a walk that is over any
number of items does (`ReadsOver`), hence each step's content (`ReadsContent`), each
step, with a wall for one that has none (`ReadsStep`), and the output (`OutputRead`).
That the parts of such a walk are `LastRun` is then a fact about the items alone
(`RunIsLast`). Of a Responses reply an answer has no refusal in any message
(`NoRefusals`). It holds for outputs of any length.

### Decoding

Probabilities that were read were read under the type seen, and
under the field's kind before one was seen (`OneKind`); a type that contradicts
either stops the decoder, so that both are still the kind at the end of the
answer. From it `KindsNotMixed`, for any set of bodies: the two arms that a
comment calls unreachable (`de.rs:912-917`) are.

A second layer says of each decoder what it owes to the part of the body that was
read (`TInv`). Where the pass stands is a place in the body (`Placed`). Of an answer in
progress, the type seen and each slot tell the members read so far: the last of
them under a name, its kind, whether it waits as text for its type (`Collected`,
`SlotTells`). Of a set in progress, what it holds is what the contract asks of the
entries so far (`Gathered`). A decoder that stopped refused what the contract refuses, at
its path (`Refused`), or accepted what the contract accepts (`Accepted`). The lemmas for
one member (`OnTypeTells`, `OnDataTells`) and for the end of an answer
(`SlotFault`, `BuildTells`) are about both decoders at once; the paths of failures are told
apart by when they arise (`TypeRefused`, `ShapeRefused`, `MissingRefused`,
`UntypedRefused`, `HeldRefused`). That a table of levels is sorted, stably, is proved by
induction over it (`InsertOrdered`, `InsertKeepsLevel`, `Sorts`). From it
`FailuresLocated` (`PathsTell`) and `ContractKept` (`YieldsContract`): for bodies of
any length and any order of members, answers and top members, what a set holds does
not depend on where a type stands, and a refusal is told at the path of what is wrong.

### The SDK's call

`CallProofs`, for any program of calls, any values, any environments and any
questions. `said` is the history of what the caller said, and the invariant
says what each part of the state owes to it: the builder holds of each setter
what was said last (`Configured`), a list of headers has for each name the value
said last and for no other name one (`Mirrors`), the request likewise, with its
extra members no name twice (`Requested`, `Extras`); the client built is what the
builder was told, or else the environment, or the default (`Built`); the body
encoded from the request tells what was said, and is whole as long as an attempt
is to come (`Underway`, `BodyTells`). The headers of each attempt are then one
function of its number (`HeadersAt`). From it `IdentityIsKept` and
`SettingsAreTold`: precedence holds in whatever order the setters were called and
in whatever order the code merged them.

The lists in it are filtered and overwritten by name (`Sift`, `Over`, `Upsert`),
and a first broken check is looked for in a list of them (`Failing`); lemmas
(`Sifts`, `Overs`, `Upserts`, `NoneFails`) say of each what it keeps and in which order,
the first one by induction over the sequence.

### Redaction

`CredentialsAreHidden` is for any headers and any error of a transport, with
chains, links and texts of any length. The invariant is small (`ToldInv`: of a
call that failed the headers and the error are kept, and what is told of them is
`Redacted`); the work is in the lemmas about texts.

- The forms that are looked for are the spellings of the secrets (`SecretsAre`). A
  secret with blanks around it has its trimmed spelling in it, so a form that
  begins with a blank has another in it that does not (`Unpadded`).
- Every place at which a form begins is in a match (`MatchesAre`), and every piece
  that a match touches is shown as stars or not at all. Between stars, what is
  redacted is thus a stretch of the text in which no form begins (`Walked`), and
  no form has a star in it (`RedactedHides`).
- Nothing that comes after the search adds a form: not a cut and its mark
  (`CutHides`), not the space that pushes in each line of a cause (`PushedHides`,
  where `Unpadded` is needed), and not the text that stands for a message which is
  withheld (`WithheldHides`).
- What is redacted begins as the text does, up to a star before which no form
  begins (`RedactBegins`). The message of a copied chain therefore parts from that
  of the chain at the first secret in the first link that was changed (`PartsAt`), and
  a message that shows either of them up to a cut ends before it (`MadeEnds`,
  `CopyEnds`).

It rests on what `RedactAssumption`, `SecretsAssumption` and `FailuresAssumption` say.
A message shows no more links than are looked through (8 and 32, `transport/mod.rs:537`,
`redact.rs:26`). The links of an error print as texts. And no secret holds what
the SDK itself writes where one was: a star, the mark of a cut or the text of a
withheld message; nor a line break, which HTTP refuses; nor is one a lone
quotation mark. The code promises nothing of such a secret: one that is `***`
is what replaces it, and one that is a quotation mark is in every `{:?}` of a text.

### Induction

The library's theorems of induction take an operator as a parameter, which no
installed prover can instantiate. `Inductions` derives from the library's
well-foundedness of `<` the same facts about sets and functions instead: a set of
numbers closed under successor holds all of them (`NatSetInduction`), and a function
defined by recursion on numbers satisfies its equations (`Recursion`); a set of
lists that holds the empty one, and with a list each that is longer by one, holds all
of them (`ListInduction`). What a recursive function computes can therefore be proved; `RECURSIVE` operators cannot
be reasoned about, and neither can `SelectSeq`, `@@`, `:>` or `2 ^ n`, which the
provers do not expand. Where a proof goes through one, the model uses a function
of its own instead (`Sift`, `Over`, `Backwards`, `Flat`, `Doubled`).

### Only model-checked

`QuestionsReread` (`Call`), which compares a whole algorithm on nested values with
an independent statement of it. Liveness (`LeavesTheGate`,
`CallsReturn`, `CallEnds`) is out of the proof system's reach, as is ENABLED.

## 5. What the models found

1. `gate_doc`. `Entry::Failed` is documented as "The turn this request waited
   for ended without a connection." (`gate.rs:198`), and `Opener` (`gate.rs:300-303`)
   says that a turn that ended with one lets its waiters go on to the pool or
   open again. A request that is not polled between two notifications compares
   turn numbers with `>`: when the turn it waited for connected, the connection
   ended, and the next turn failed, the request fails with that later turn.
   `gate.rs:124-130` admits the later quote, but only as one for a request whose
   own turn failed ("it fails either way").
2. `owned_doc`. "calls that arrive during a build wait for it instead of
   building their own" (`adapter/src/client.rs:66-68`). A failed build gives the
   cell's permit back before `forget` takes the cell out, so a waiter can be
   building in the cell as it leaves the map; a call that arrives then finds no
   cell and builds at the same time. Both builds succeed, and the waiter's
   provider is in no map.

3. `decode_doc`. "An answer that names `type` twice with two different values is
   an error at `answers.<field>.type`, whichever members it carries"
   (`de.rs:156-157`), and "however the rest of the answer reads"
   (`de_tests.rs:455-456`). A member read under the first type is checked where it
   stands, so one that is misshaped and comes before the second type is what the
   failure names: `{"type": "noul", "noul": "x", "type": "choice"}` is refused at
   `answers.<field>.noul`.

Seen while modelling, without a run of its own: the doc of `parse_retry_after`
(`error.rs:866-870`) says that a server which asks for a negative wait "should
not then be given the backoff a missing header would produce". The function
returns `None` for one (`error.rs:893`), and `delay` then draws the backoff, as for
a missing header. `Delays` models what the code does.

A message that is cut may end in the beginning of a secret when no link spells
it, but only the escaped links do, or two of them joined. The code does not claim
otherwise: such a message keeps the transport's own chain and is searched as it
is. `CredentialsHidden` therefore speaks of a message made anew, and of the links' own
texts and their copies in it.

## 6. Not modelled, and why

- The ordering of permits in OnceCell (any order is allowed, a superset); panics
  in a build (the factory returns errors).
- Floating point: the backoff is in ticks, and the adapter's weights,
  confidences and averages are exact fractions. What rounding does to them is not
  seen; the tolerance is. Nor is overflow: the model's numbers have no largest
  value, so `BacksOff` shows how often a backoff is doubled and that it stays under
  its cap, and not that the power of two stays finite (`retry.rs:813-816`).
- Mismatch errors of `convert.rs`: unreachable after a successful decode
  (`convert.rs:39-41`), and the model's conversion has no such case.
- The wording of prompts, descriptions and problems, and the order of a schema's
  members: text without a decision.
- Numbers, escapes and the two back ends of the codec: bytes; what it refuses,
  and where, is in `Decode`. Reading one answer back from storage (`Deserialize`
  of `Answer`) is the same walk.
- Characters that no header value can hold, and credentials that contain what the
  SDK writes in place of one (`*`, the mark of a cut, words of its own fixed
  messages), in `Redact`: `SecretsAssumption`.
- `Auto` in the default transport, which has no gate; TLS and hyper's settings.
- Accessors, `Display` and `Debug` of values; spans and tokens of the macros'
  expansion.
- Telemetry, tests, fuzzing, live tests, scripts: no state of the running system.

## 7. Plan

1. Done: the gate and its abstract turn, retries and their numbers, the map of
   providers, providers from their builder to their reply, the adapter's call from
   its questions to its answers, the SDK's call from its settings to its
   attempts and errors, the macros, decoding. Proofs about each of them, and of
   everything the gate, the retry loop and the map are checked for but their
   liveness.
2. Left to TLC: `QuestionsReread`.
3. If the code grows there: `Auto`, telemetry, the codec's two back ends against
   each other.
