-------------------------------- MODULE Retry --------------------------------
(***************************************************************************)
(* One System One call of the SDK: the retry loop (crates/sdk/src/retry.rs,*)
(* run_on), the attempt it repeats (transport/mod.rs, attempt and          *)
(* exchange_once) and the body all attempts share (request.rs, send).      *)
(*                                                                         *)
(* Code between two awaits takes no time: the clock moves while an attempt *)
(* waits for the transport and while the loop sleeps.                      *)
(***************************************************************************)
EXTENDS Delays, Sequences

CONSTANTS
  Policies,        \* the retry policies a call may run under
  Deadlines,       \* the deadlines of one attempt, or None
  Responses,       \* what the server may answer
  LongestAttempt   \* how long an attempt without a deadline lasts at most

Kinds == {"Timeout", "Connection", "Api", "InvalidRequest", "Config", "ResponseValidation",
          "ResponseTooLarge"}
\* RetryPolicy; the jitter is in hundredths, the statuses are those given to
\* the StatusSet, the predicate is the set of kinds it asks for.  Zero
\* budgets and zero deadlines are refused.
Policy ==
  [max_retries: Nat, backoff_initial: Delays, backoff_max: Delays, backoff_jitter: 0..100,
   http_statuses: SUBSET Nat, respect_retry_after: BOOLEAN,
   api_connection_error: BOOLEAN, api_timeout_error: BOOLEAN, predicate: SUBSET Kinds,
   timeout: Maybe(1..MaxDuration)]

Statuses == 100..999

\* An answer: its status, whether its body fits the limit and decodes, and
\* the headers that may ask for a wait.
Response == [status: Statuses, fits: BOOLEAN, decodes: BOOLEAN, headers: Headers]

ASSUME RetryAssumption ==
  /\ Policies \subseteq Policy
  /\ Deadlines \subseteq Maybe(Nat \ {0})
  /\ Responses \subseteq Response
  /\ LongestAttempt \in Nat

VARIABLES
  policy, deadline,  \* the call's policy and the deadline of its attempts
  pc,                \* where the loop is
  retry,             \* how many attempts came before this one
  body,              \* the encoded body kept for the next attempt
  began, wake,       \* when the attempt began, when the sleep ends
  now,               \* the time since the call began
  sent,              \* history: the requests sent
  ends               \* history: how and when their attempts failed

vars == <<policy, deadline, pc, retry, body, began, wake, now, sent, ends>>

ErrorOf(kind, status, headers) == [kind |-> kind, status |-> status, headers |-> headers]

TypeOK ==
  /\ policy \in Policies /\ deadline \in Deadlines
  /\ pc \in {"ready", "sending", "sleeping", "ok", "failed", "dropped"}
  /\ retry \in Nat
  /\ body \in {"whole", "taken"}
  /\ began \in Nat /\ wake \in Nat /\ now \in Nat
  /\ sent \in Seq([count: Maybe(Nat), body: {"whole", "taken"}, at: Nat])
  /\ ends \in Seq([error: [kind: Kinds, status: Maybe(Statuses), headers: Headers], at: Nat])

Init ==
  /\ policy \in Policies /\ deadline \in Deadlines
  /\ pc = "ready" /\ retry = 0 /\ body = "whole"
  /\ began = 0 /\ wake = 0 /\ now = 0
  /\ sent = <<>> /\ ends = <<>>

-----------------------------------------------------------------------------
(* The policy: can_retry, retryable, delay, next_delay. *)

\* Mutant: the body is kept from two retries on.
CanRetryTwice(p) == p.max_retries > 1

CanRetry(p) == p.max_retries > 0

\* Which failures the policy repeats, before counting attempts or time.
Retryable(p, e) ==
  \/ e.kind = "Timeout" /\ p.api_timeout_error
  \/ e.kind = "Connection" /\ p.api_connection_error
  \/ e.kind = "Api" /\ Contains(StatusSet(p.http_statuses), e.status)
  \/ e.kind \in p.predicate

\* The wait the failed response asks for, when the policy respects it.
Asked(p, e, at) ==
  IF p.respect_retry_after /\ e.kind \in {"Api", "ResponseValidation"}
    THEN ParseRetryAfter(e.headers, at)
    ELSE None

BackoffsOf(p, attempts) ==
  Backoffs(p.backoff_initial, p.backoff_max, p.backoff_jitter, attempts)

\* The server's delay when it gave one, the backoff otherwise.
DelaysAfter(p, attempts, e, at) ==
  IF Asked(p, e, at) # None THEN {Asked(p, e, at)} ELSE BackoffsOf(p, attempts)

\* Mutant: the budget is checked against the time taken so far.
WithinBudgetSoFar(p, elapsed, delay) == p.timeout = None \/ elapsed < p.timeout

WithinBudget(p, elapsed, delay) ==
  p.timeout = None \/ Saturated(elapsed + delay) < p.timeout

-----------------------------------------------------------------------------
(* The attempt. *)

Success(status) == status \in 200..299

\* The error a response is reported as: a status outside 2xx is an API error
\* whatever its body, and a success body that is over the limit or does not
\* decode ends the attempt too.
ResponseError(r) ==
  IF ~Success(r.status) THEN ErrorOf("Api", r.status, r.headers)
  ELSE IF ~r.fits THEN ErrorOf("ResponseTooLarge", None, NoHeaders)
  ELSE ErrorOf("ResponseValidation", r.status, r.headers)

TimeoutError == ErrorOf("Timeout", None, NoHeaders)

\* How an attempt can fail before its deadline: by its response, or in the
\* transport, whose connect may have a timeout of its own.
Failures ==
  {ResponseError(r) : r \in {r \in Responses : ~(Success(r.status) /\ r.fits /\ r.decodes)}}
    \cup {ErrorOf("Connection", None, NoHeaders), TimeoutError}

\* X-TypeSafe-Retry-Count is absent from the first attempt.
RetryCount(n) == IF n > 0 THEN n ELSE None

\* One attempt is sent, with the body or the bytes it shares.
SendAttempt(n) ==
  /\ pc' = "sending"
  /\ began' = now
  /\ sent' = Append(sent, [count |-> RetryCount(n), body |-> body, at |-> now])
  /\ body' = IF CanRetry(policy) THEN body ELSE "taken"

-----------------------------------------------------------------------------
(* The loop. *)

Start ==
  /\ pc = "ready"
  /\ SendAttempt(0)
  /\ UNCHANGED <<policy, deadline, retry, wake, now, ends>>

Answer ==
  /\ pc = "sending"
  /\ \E r \in Responses : Success(r.status) /\ r.fits /\ r.decodes
  /\ pc' = "ok"
  /\ UNCHANGED <<policy, deadline, retry, body, began, wake, now, sent, ends>>

\* Mutant: one retry more than the policy allows.
NextDelaysOneMore(e) ==
  IF Retryable(policy, e) /\ retry <= policy.max_retries
    THEN {d \in DelaysAfter(policy, retry + 1, e, now) : WithinBudget(policy, now, d)}
    ELSE {}

\* next_delay: the waits before the next attempt that the failure and the
\* draw of the jitter allow; none of them ends the call.
NextDelays(e) ==
  IF Retryable(policy, e) /\ retry < policy.max_retries
    THEN {d \in DelaysAfter(policy, retry + 1, e, now) : WithinBudget(policy, now, d)}
    ELSE {}

\* The jitter is drawn before the budget is checked, so a draw that exceeds
\* it ends the call even where a luckier one would not.
OverBudget(e) ==
  \E d \in DelaysAfter(policy, retry + 1, e, now) : ~WithinBudget(policy, now, d)

\* The attempt failed: the loop sleeps and goes on, or the call fails.
Fail(e) ==
  /\ pc = "sending"
  /\ ends' = Append(ends, [error |-> e, at |-> now])
  /\ \/ \E d \in NextDelays(e) : pc' = "sleeping" /\ wake' = now + d
     \/ /\ NextDelays(e) = {} \/ OverBudget(e)
        /\ pc' = "failed" /\ UNCHANGED wake
  /\ UNCHANGED <<policy, deadline, retry, body, began, now, sent>>

TransportEnds == \E e \in Failures : Fail(e)

\* Mutant: the deadline is set for the first attempt only.
FirstDeadlinePasses ==
  /\ deadline # None /\ now = began + deadline /\ retry = 0
  /\ Fail(TimeoutError)

\* The deadline covers the whole attempt; an answer that is ready when it
\* passes still counts.
DeadlinePasses ==
  /\ deadline # None /\ now = began + deadline
  /\ Fail(TimeoutError)

\* The sleep is over: the next attempt is sent.
Wake ==
  /\ pc = "sleeping" /\ now = wake
  /\ retry' = retry + 1
  /\ SendAttempt(retry + 1)
  /\ UNCHANGED <<policy, deadline, wake, now, ends>>

\* The future of the call is dropped.
Drop ==
  /\ pc \in {"sending", "sleeping"}
  /\ pc' = "dropped"
  /\ UNCHANGED <<policy, deadline, retry, body, began, wake, now, sent, ends>>

\* Time passes; a timer that is due is served first.
Tick ==
  /\ \/ pc = "sending" /\ now < began + (IF deadline = None THEN LongestAttempt ELSE deadline)
     \/ pc = "sleeping" /\ now < wake
  /\ now' = now + 1
  /\ UNCHANGED <<policy, deadline, pc, retry, body, began, wake, sent, ends>>

Next == Start \/ Answer \/ TransportEnds \/ DeadlinePasses \/ Wake \/ Drop \/ Tick

Spec == Init /\ [][Next]_vars

\* Time passes and the loop is polled when a timer fires; nothing is assumed
\* of the server or of the transport.
Fairness == WF_vars(Tick) /\ WF_vars(Start) /\ WF_vars(DeadlinePasses) /\ WF_vars(Wake)

FairSpec == Spec /\ Fairness

-----------------------------------------------------------------------------
(* Properties. *)

\* retry.rs: a call lasts at most the budget plus one deadline of an attempt;
\* a call that cannot retry lasts at most one deadline.
CallLastsAtMost ==
  deadline # None =>
    IF policy.max_retries = 0 THEN now <= deadline
    ELSE policy.timeout # None => now <= policy.timeout + deadline

\* Every attempt sends the whole body (request.rs: every attempt sends the
\* same bytes), though a call that cannot retry gives its one copy away.
EveryAttemptWhole == \A i \in 1..Len(sent) : sent[i].body = "whole"

\* The server can tell the attempts of a call apart: the retry count is
\* absent once, then counts from 1 without a gap, up to the policy's limit.
CountsTell ==
  /\ Len(sent) <= policy.max_retries + 1
  /\ \A i \in 1..Len(sent) : sent[i].count = IF i = 1 THEN None ELSE i - 1

\* How long the loop slept between two attempts.
Slept(i) == sent[i + 1].at - ends[i].at

\* The failure after which it did answers a policy that obeys the server.
Obeyed(i) ==
  policy.respect_retry_after /\ ends[i].error.kind \in {"Api", "ResponseValidation"}

Reads(header, forms) == header # None /\ header.form \in forms

\* A wait the server asks for is slept in full and no longer, however long
\* the backoff is: the milliseconds where they can be read, the seconds where
\* they cannot, and never into the second of a date.  Only a wait that no
\* Duration holds is cut, to the longest one.
WaitsAsAsked ==
  \A i \in 1..(Len(sent) - 1) : Obeyed(i) =>
    LET headers == ends[i].error.headers
        usable  == IsCount(headers.ms) \/ Reads(headers.ms, {"huge"})
        cut     == Slept(i) = MaxDuration
    IN  /\ IsCount(headers.ms) =>
             /\ 1000 * Slept(i) <= headers.ms.value * TicksPerMilli
             /\ cut \/ 1000 * (Slept(i) + TicksPerMilli) > headers.ms.value * TicksPerMilli
        /\ ~usable /\ IsCount(headers.after) =>
             /\ Slept(i) <= headers.after.value * TicksPerMilli
             /\ cut \/ Slept(i) = headers.after.value * TicksPerMilli
        /\ ~usable /\ Reads(headers.after, {"date"}) =>
             cut \/ sent[i + 1].at + TicksPerMilli > headers.after.value * TicksPerMilli

\* A wait nobody asked for is a backoff: no longer than the doubled start or
\* the cap, no shorter than the jitter allows, to the millisecond.
BacksOff ==
  \A i \in 1..(Len(sent) - 1) :
    LET headers == ends[i].error.headers
        step    == policy.backoff_initial * Doubled[i - 1]
        longest == Lesser(step, policy.backoff_max)
    IN  ~Obeyed(i) \/ headers = NoHeaders =>
          /\ Slept(i) <= longest
          /\ 100 * (longest - Slept(i)) <= longest * policy.backoff_jitter + 50 * TicksPerMilli

\* A response is repeated for a status the policy was given that no word of
\* its set cuts off and that is no success, or because the predicate asks.
RepeatsListed ==
  \A i \in 1..(Len(sent) - 1) :
    LET e == ends[i].error
    IN  e.status # None /\ e.kind \notin policy.predicate =>
          e.status \in policy.http_statuses /\ ~Success(e.status) /\ e.status < 640

\* A call whose attempts have a deadline ends, though no server ever answers.
CallEnds == deadline # None ~> pc \in {"ok", "failed", "dropped"}
===========================================================================
