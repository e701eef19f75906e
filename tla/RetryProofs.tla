----------------------------- MODULE RetryProofs -----------------------------
(***************************************************************************)
(* How long a call of the SDK lasts and what its attempts send, proved for *)
(* every retry policy, deadline, server and wait.                          *)
(***************************************************************************)
EXTENDS Retry, Inductions, SequenceTheorems

\* Where the clock can be: a retry begins below the budget, an attempt ends
\* by its deadline and a sleep at its end.
Timed ==
  /\ began <= now
  /\ pc = "ready" => now = 0
  /\ pc = "sending" /\ deadline # None => now <= began + deadline
  /\ pc = "sleeping" => now <= wake
  /\ retry = 0 => began = 0
  /\ policy.timeout # None => began < policy.timeout
  /\ policy.timeout # None /\ pc = "sleeping" => wake < policy.timeout

\* How many requests were sent, and that a retry is made only below the limit.
Counted ==
  /\ retry <= policy.max_retries
  /\ pc = "sleeping" => retry < policy.max_retries
  /\ pc = "ready" => retry = 0
  /\ Len(sent) = IF pc = "ready" THEN 0 ELSE retry + 1

\* The body is given away by a call that makes one attempt, as it makes it.
BodyKept == body = "taken" => policy.max_retries = 0 /\ pc # "ready"

IInv == TypeOK /\ Timed /\ Counted /\ BodyKept /\ CallLastsAtMost /\ EveryAttemptWhole /\ CountsTell

-----------------------------------------------------------------------------
USE RetryAssumption, DelaysAssumption

\* The setters of a policy leave it in range, whichever policy a call runs
\* under, and its attempts have a deadline above zero or none.
LEMMA PolicyTyped ==
  ASSUME TypeOK
  PROVE  /\ policy \in Policy
         /\ policy.max_retries \in Nat
         /\ policy.timeout # None => policy.timeout \in 1..MaxDuration
         /\ deadline # None => deadline \in Nat \ {0}
BY DEF TypeOK, Policy, Maybe

\* A delay that passes the budget check ends the sleep below the budget: the
\* saturating addition refuses what an unbounded one would.
LEMMA BudgetBounds ==
  ASSUME NEW p \in Policy, p.timeout # None, NEW t \in Nat, NEW d \in Nat, WithinBudget(p, t, d)
  PROVE  t + d < p.timeout
BY DEF WithinBudget, Saturated, Lesser, Policy, Maybe

\* Every failure of an attempt is an error with a kind of its own.
ErrorType == [kind: Kinds, status: Maybe(Statuses), headers: Headers]

LEMMA FailuresTyped == Failures \cup {TimeoutError} \subseteq ErrorType
<1>1. NoHeaders \in Headers
  BY DEF NoHeaders, Headers, Maybe
<1>2. ASSUME NEW r \in Response PROVE ResponseError(r) \in ErrorType
  BY <1>1, <1>2 DEF Response, ResponseError, ErrorOf, ErrorType, Kinds, Maybe
<1>3. QED
  BY <1>1, <1>2 DEF Failures, TimeoutError, ErrorOf, ErrorType, Kinds, Maybe

\* No header, however large, negative or unreadable, asks for a wait that a
\* Duration cannot hold.
LEMMA AskedTyped ==
  ASSUME NEW h \in Headers, NEW t \in Nat
  PROVE  ParseRetryAfter(h, t) \in Maybe(Delays)
<1>1. \A n \in Nat : Saturated(n) \in Delays
  BY DEF Saturated, Lesser, Delays
<1>2. MaxDuration \in Delays /\ 0 \in Delays
  BY DEF Delays
<1>3. ASSUME NEW g \in Maybe(Header), IsCount(g) PROVE g.value \in Nat
  BY <1>3 DEF IsCount, Header, Maybe
<1>4. ASSUME NEW n \in Nat PROVE Whole(n) \in Nat /\ n * TicksPerMilli \in Nat
  <2>1. n \div 1000 \in Nat
    BY <1>4
  <2>2. \A k \in Nat : k * TicksPerMilli \in Nat
    OBVIOUS
  <2>3. QED
    BY <1>4, <2>1, <2>2 DEF Whole
<1>5. ASSUME NEW g \in Maybe(Header), g # None, g.form = "date" PROVE g.value \in Nat
  BY <1>5 DEF Header, Maybe
<1>6. ASSUME NEW n \in Int, ~(n < 0) PROVE (n \div TicksPerMilli) * TicksPerMilli \in Nat
  <2>1. n \in Nat /\ n \div TicksPerMilli \in Nat
    BY <1>6
  <2>2. \A k \in Nat : k * TicksPerMilli \in Nat
    OBVIOUS
  <2>3. QED
    BY <2>1, <2>2
<1>7. h.ms \in Maybe(Header) /\ h.after \in Maybe(Header)
  BY DEF Headers
<1> DEFINE wait == h.after.value * TicksPerMilli - t
<1>8. CASE IsCount(h.ms)
  <2>1. ParseRetryAfter(h, t) = Saturated(Whole(h.ms.value))
    BY <1>8 DEF ParseRetryAfter, IsCount
  <2>2. Whole(h.ms.value) \in Nat
    BY <1>3, <1>4, <1>7, <1>8
  <2>3. QED
    BY <1>1, <2>1, <2>2 DEF Maybe
<1>9. CASE ~IsCount(h.ms) /\ h.ms # None /\ h.ms.form = "huge"
  BY <1>2, <1>9 DEF ParseRetryAfter, Maybe
<1>10. CASE ~IsCount(h.ms) /\ ~(h.ms # None /\ h.ms.form = "huge")
  <2>1. CASE IsCount(h.after)
    <3>1. ParseRetryAfter(h, t) = Saturated(h.after.value * TicksPerMilli)
      BY <1>10, <2>1 DEF ParseRetryAfter, IsCount
    <3>2. h.after.value * TicksPerMilli \in Nat
      BY <1>3, <1>4, <1>7, <2>1
    <3>3. QED
      BY <1>1, <3>1, <3>2 DEF Maybe
  <2>2. CASE ~IsCount(h.after) /\ h.after # None /\ h.after.form = "date"
    <3>1. wait \in Int
      BY <1>4, <1>5, <1>7, <2>2
    <3>2. \/ ParseRetryAfter(h, t) = 0
          \/ /\ ~(wait < 0)
             /\ ParseRetryAfter(h, t) = Saturated((wait \div TicksPerMilli) * TicksPerMilli)
      BY <1>10, <2>2 DEF ParseRetryAfter
    <3> HIDE DEF wait
    <3>3. QED
      BY <1>1, <1>2, <1>6, <3>1, <3>2 DEF Maybe
  <2>3. CASE ~IsCount(h.after) /\ ~(h.after # None /\ h.after.form = "date")
    BY <1>10, <2>3 DEF ParseRetryAfter, Maybe
  <2>4. QED
    BY <2>1, <2>2, <2>3
<1>11. QED
  BY <1>8, <1>9, <1>10

\* The doublings of a start are the numbers one expects.
LEMMA DoubledUnfolds ==
  /\ Doubled \in [Nat -> Nat]
  /\ Doubled[0] = 1
  /\ \A n \in Nat \ {0} : Doubled[n] = 2 * Doubled[n - 1]
<1> DEFINE step == [p \in Nat \X Nat |-> 2 * p[2]]
           Is(f) == f = [n \in Nat |-> IF n = 0 THEN 1 ELSE 2 * f[n - 1]]
<1>1. step \in [(Nat \X Nat) -> Nat]
  OBVIOUS
<1>2. PICK g \in [Nat -> Nat] : Recursive(g, Nat, 1, step)
  <2> HIDE DEF step
  <2>1. QED
    BY <1>1, Recursion
<1>3. g[0] = 1 /\ \A i \in Nat \ {0} : g[i] = 2 * g[i - 1]
  <2>1. \A i \in Nat \ {0} : <<i, g[i - 1]>> \in Nat \X Nat
    OBVIOUS
  <2>2. QED
    BY <1>2, <2>1 DEF Recursive
<1>4. Is(g)
  BY <1>3
<1>5. Doubled = CHOOSE f : Is(f)
  BY DEF Doubled
<1> HIDE DEF step
<1>6. Is(Doubled)
  <2> HIDE DEF Is
  <2>1. QED
    BY <1>4, <1>5
<1>7. Doubled = [n \in Nat |-> IF n = 0 THEN 1 ELSE 2 * Doubled[n - 1]]
  BY <1>6
<1>8. Doubled[0] = 1 /\ \A n \in Nat \ {0} : Doubled[n] = 2 * Doubled[n - 1]
  BY <1>7
<1> DEFINE held == {n \in Nat : Doubled[n] \in Nat}
<1>9. 0 \in held /\ \A n \in Nat : n \in held => n + 1 \in held
  <2>1. \A n \in Nat : n + 1 \in Nat \ {0} /\ (n + 1) - 1 = n
    OBVIOUS
  <2>2. QED
    BY <1>8, <2>1
<1> HIDE DEF held
<1>10. Nat \subseteq held
  BY <1>9, NatSetInduction
<1>11. \A n \in Nat : Doubled[n] \in Nat
  BY <1>10 DEF held
<1>12. QED
  BY <1>7, <1>8, <1>11

\* A doubled start outgrows its number, and never shrinks.
LEMMA DoubledGrows ==
  /\ \A n \in Nat : Doubled[n] > n
  /\ \A n \in Nat, m \in Nat : n <= m => Doubled[n] <= Doubled[m]
<1>1. \A n \in Nat : Doubled[n] \in Nat /\ Doubled[n + 1] = 2 * Doubled[n]
  <2>1. \A n \in Nat : n + 1 \in Nat \ {0} /\ (n + 1) - 1 = n
    OBVIOUS
  <2>2. QED
    BY <2>1, DoubledUnfolds
<1>2. \A n \in Nat : Doubled[n] > n
  <2> DEFINE larger == {n \in Nat : Doubled[n] > n}
  <2>1. 0 \in larger
    BY DoubledUnfolds
  <2>2. ASSUME NEW n \in Nat, n \in larger PROVE n + 1 \in larger
    BY <1>1, <2>2
  <2> HIDE DEF larger
  <2>3. Nat \subseteq larger
    BY <2>1, <2>2, NatSetInduction
  <2>4. QED
    BY <2>3 DEF larger
<1>3. ASSUME NEW n \in Nat PROVE \A k \in Nat : Doubled[n] <= Doubled[n + k]
  <2> DEFINE above == {k \in Nat : Doubled[n] <= Doubled[n + k]}
  <2>1. 0 \in above
    BY <1>1
  <2>2. ASSUME NEW k \in Nat, k \in above PROVE k + 1 \in above
    <3>1. n + k \in Nat /\ n + (k + 1) = (n + k) + 1
      OBVIOUS
    <3>2. Doubled[n + (k + 1)] = 2 * Doubled[n + k] /\ Doubled[n + k] \in Nat
      BY <1>1, <3>1
    <3>3. QED
      BY <1>1, <2>2, <3>2
  <2> HIDE DEF above
  <2>3. Nat \subseteq above
    BY <2>1, <2>2, NatSetInduction
  <2>4. QED
    BY <2>3 DEF above
<1>4. ASSUME NEW n \in Nat, NEW m \in Nat, n <= m PROVE Doubled[n] <= Doubled[m]
  <2>1. m - n \in Nat /\ n + (m - n) = m
    BY <1>4
  <2>2. QED
    BY <1>3, <2>1
<1>5. QED
  BY <1>2, <1>4

\* The exponential is the doubled start or the cap, though the exponent is
\* cut at the cap: a start above zero doubled that often is past it.
LEMMA ExponentialIsDoubled ==
  ASSUME NEW initial \in Nat, NEW longest \in Nat, NEW n \in Nat \ {0}
  PROVE  /\ Exponential(initial, longest, n) \in Nat
         /\ Exponential(initial, longest, n) = Lesser(initial * Doubled[n - 1], longest)
<1>1. n - 1 \in Nat
  OBVIOUS
<1>2. \A k \in Nat : Doubled[k] \in Nat /\ initial * Doubled[k] \in Nat
  BY DoubledUnfolds
<1>3. CASE n - 1 <= longest
  <2>1. Exponential(initial, longest, n) = Lesser(longest, initial * Doubled[n - 1])
    BY <1>1, <1>3 DEF Exponential, Lesser
  <2>2. QED
    BY <1>1, <1>2, <2>1 DEF Lesser
<1>4. CASE n - 1 > longest
  <2>1. Exponential(initial, longest, n) = Lesser(longest, initial * Doubled[longest])
    BY <1>1, <1>4 DEF Exponential, Lesser
  <2>2. Doubled[longest] > longest /\ Doubled[longest] <= Doubled[n - 1]
    BY <1>1, <1>4, DoubledGrows
  <2>3. CASE initial = 0
    BY <1>1, <1>2, <2>1, <2>3 DEF Lesser
  <2>4. CASE initial # 0
    <3>1. ASSUME NEW k \in Nat, k >= longest PROVE initial * k >= longest
      <4>1. initial * k >= k
        BY <2>4
      <4>2. initial * k \in Nat
        BY <2>4
      <4>3. QED
        BY <3>1, <4>1, <4>2
    <3>2. /\ Doubled[longest] \in Nat /\ Doubled[longest] >= longest
          /\ Doubled[n - 1] \in Nat /\ Doubled[n - 1] >= longest
      BY <1>1, <1>2, <2>2
    <3>3. initial * Doubled[longest] >= longest /\ initial * Doubled[n - 1] >= longest
      BY <3>1, <3>2, Zenon
    <3>4. QED
      BY <1>1, <1>2, <2>1, <3>3, SMTT(60) DEF Lesser
  <2>5. QED
    BY <2>3, <2>4
<1>5. QED
  BY <1>1, <1>3, <1>4

\* A backoff is a natural number, no longer than the cap of the policy.
LEMMA BackoffsTyped ==
  ASSUME NEW p \in Policy, NEW n \in Nat \ {0}
  PROVE  BackoffsOf(p, n) \subseteq 0..p.backoff_max
<1> DEFINE longest == p.backoff_max
           start == p.backoff_initial
<1>1. longest \in Nat /\ start \in Nat
  BY DEF Policy, Delays
<1>2. CASE start = 0 \/ longest = 0
  BY <1>1, <1>2 DEF BackoffsOf, Backoffs
<1>3. CASE ~(start = 0 \/ longest = 0)
  <2> DEFINE exponential == Exponential(start, longest, n)
  <2>1. ASSUME NEW d \in Nat PROVE RoundToMillis(d) \subseteq Nat
    <3>1. d \div TicksPerMilli \in Nat
      OBVIOUS
    <3>2. \A k \in Nat : k * TicksPerMilli \in Nat
      OBVIOUS
    <3> DEFINE below == (d \div TicksPerMilli) * TicksPerMilli
    <3>3. below \in Nat
      BY <3>1, <3>2
    <3>4. RoundToMillis(d) \subseteq {below, below + TicksPerMilli}
      BY DEF RoundToMillis
    <3> HIDE DEF below
    <3>5. QED
      BY <3>3, <3>4
  <2>2. exponential \in Int /\ exponential <= longest
    BY <1>1, ExponentialIsDoubled DEF Exponential, Lesser
  <2> HIDE DEF exponential
  <2>3. QED
    BY <1>1, <1>3, <2>1, <2>2 DEF BackoffsOf, Backoffs, Lesser, exponential
<1>4. QED
  BY <1>2, <1>3

\* Every wait of the loop is a natural number within the budget, and is drawn
\* only below the limit of retries.
LEMMA DelaysBounded ==
  ASSUME TypeOK, NEW e \in ErrorType, NEW d \in NextDelays(e)
  PROVE  /\ d \in Nat
         /\ retry < policy.max_retries
         /\ policy.timeout # None => now + d < policy.timeout
<1>1. d \in DelaysAfter(policy, retry + 1, e, now) /\ retry < policy.max_retries
        /\ WithinBudget(policy, now, d)
  BY DEF NextDelays
<1>2. d \in Nat
  <2>1. policy \in Policy /\ now \in Nat /\ retry + 1 \in Nat \ {0}
    BY PolicyTyped DEF TypeOK
  <2>2. e.headers \in Headers
    BY DEF ErrorType
  <2>3. BackoffsOf(policy, retry + 1) \subseteq Nat
    BY <2>1, BackoffsTyped DEF Policy, Delays
  <2>4. Asked(policy, e, now) # None => Asked(policy, e, now) \in Nat
    BY <2>1, <2>2, AskedTyped DEF Asked, Maybe, Delays
  <2>5. QED
    BY <1>1, <2>3, <2>4 DEF DelaysAfter
<1>3. policy.timeout # None => now + d < policy.timeout
  BY <1>1, <1>2, PolicyTyped, BudgetBounds DEF TypeOK
<1>4. QED
  BY <1>1, <1>2, <1>3

LEMMA InitIInv == Init => IInv
<1> SUFFICES ASSUME Init PROVE IInv
  OBVIOUS
<1>1. TypeOK
  BY DEF Init, TypeOK
<1>2. QED
  BY <1>1, PolicyTyped
  DEF Init, IInv, Timed, Counted, BodyKept, CallLastsAtMost, EveryAttemptWhole, CountsTell

\* What sending an attempt keeps, when the clock and the count allow it.
LEMMA SendKeeps ==
  ASSUME IInv, NEW n \in Nat, SendAttempt(n), n = Len(sent), n <= policy.max_retries,
         retry' = n, n = 0 => now = 0, policy.timeout # None => now < policy.timeout,
         n > 0 => pc # "ready", pc = "ready" \/ pc = "sleeping", 
         UNCHANGED <<policy, deadline, wake, now, ends>>
  PROVE  IInv'
<1>1. TypeOK /\ policy \in Policy /\ policy.max_retries \in Nat
        /\ (policy.timeout # None => policy.timeout \in 1..MaxDuration)
        /\ (deadline # None => deadline \in Nat \ {0})
  BY PolicyTyped DEF IInv
<1>2. body = "whole"
  BY <1>1 DEF IInv, BodyKept, TypeOK, Counted
<1> DEFINE request == [count |-> RetryCount(n), body |-> body, at |-> now]
<1>3. request \in [count: Maybe(Nat), body: {"whole", "taken"}, at: Nat]
  BY <1>1 DEF RetryCount, Maybe, TypeOK
<1>4. sent' = Append(sent, request) /\ Len(sent') = n + 1
        /\ (\A i \in 1..n : sent'[i] = sent[i]) /\ sent'[n + 1] = request
  BY <1>1, <1>3 DEF SendAttempt, TypeOK
<1>5. TypeOK'
  BY <1>1, <1>3, <1>4 DEF SendAttempt, TypeOK
<1>6. Timed' /\ Counted' /\ BodyKept' /\ CallLastsAtMost'
  BY <1>1, <1>4 DEF SendAttempt, CanRetry, IInv, TypeOK, Timed, Counted, BodyKept, CallLastsAtMost
<1>7. EveryAttemptWhole'
  BY <1>2, <1>4 DEF IInv, EveryAttemptWhole
<1>8. CountsTell'
  BY <1>1, <1>4, SMTT(60) DEF IInv, CountsTell, RetryCount, TypeOK
<1>9. QED
  BY <1>5, <1>6, <1>7, <1>8 DEF IInv

\* A step of Fail keeps the invariant, whatever ended the attempt.
LEMMA FailKeeps ==
  ASSUME IInv, NEW e \in ErrorType, Fail(e)
  PROVE  IInv'
<1>1. TypeOK /\ policy \in Policy /\ policy.max_retries \in Nat
        /\ (policy.timeout # None => policy.timeout \in 1..MaxDuration)
        /\ (deadline # None => deadline \in Nat \ {0})
  BY PolicyTyped DEF IInv
<1>2. \/ \E d \in NextDelays(e) : pc' = "sleeping" /\ wake' = now + d
      \/ pc' = "failed" /\ wake' = wake
  BY DEF Fail
<1>3. \/ /\ pc' = "sleeping" /\ wake' \in Nat /\ now <= wake' /\ retry < policy.max_retries
         /\ policy.timeout # None => wake' < policy.timeout
      \/ pc' = "failed" /\ wake' = wake
  <2>1. CASE \E d \in NextDelays(e) : pc' = "sleeping" /\ wake' = now + d
    <3>1. PICK d \in NextDelays(e) : pc' = "sleeping" /\ wake' = now + d
      BY <2>1
    <3>2. QED
      BY <1>1, <3>1, DelaysBounded DEF TypeOK
  <2>2. QED
    BY <1>2, <2>1
<1>4. ends' \in Seq([error: ErrorType, at: Nat])
  BY <1>1 DEF Fail, TypeOK, ErrorType
<1>5. TypeOK'
  BY <1>1, <1>3, <1>4 DEF Fail, TypeOK, ErrorType
<1>6. Timed' /\ Counted' /\ BodyKept' /\ CallLastsAtMost' /\ EveryAttemptWhole' /\ CountsTell'
  BY <1>1, <1>3 DEF Fail, IInv, TypeOK, Timed, Counted, BodyKept, CallLastsAtMost,
                    EveryAttemptWhole, CountsTell
<1>7. QED
  BY <1>5, <1>6 DEF IInv

\* The invariant is inductive: it holds initially and every step keeps it.
LEMMA IInvInductive == Spec => []IInv
<1>1. IInv /\ [Next]_vars => IInv'
  <2> SUFFICES ASSUME IInv, [Next]_vars PROVE IInv'
    OBVIOUS
  <2>0. TypeOK /\ policy \in Policy /\ policy.max_retries \in Nat
          /\ (policy.timeout # None => policy.timeout \in 1..MaxDuration)
          /\ (deadline # None => deadline \in Nat \ {0})
    BY PolicyTyped DEF IInv
  <2>1. ASSUME Start PROVE IInv'
    <3>1. Len(sent) = 0 /\ retry = 0 /\ now = 0
      BY <2>0, <2>1 DEF Start, IInv, Counted, Timed, TypeOK
    <3>2. QED
      BY <2>0, <2>1, <3>1, SendKeeps DEF Start
  <2>2. ASSUME Wake PROVE IInv'
    <3>1. Len(sent) = retry + 1 /\ retry + 1 <= policy.max_retries /\ retry \in Nat
            /\ (policy.timeout # None => now < policy.timeout)
      BY <2>0, <2>2 DEF Wake, IInv, Counted, Timed, TypeOK
    <3>2. QED
      BY <2>0, <2>2, <3>1, SendKeeps DEF Wake
  <2>3. CASE TransportEnds \/ DeadlinePasses
    <3>1. PICK e \in ErrorType : Fail(e)
      BY <2>3, FailuresTyped DEF TransportEnds, DeadlinePasses
    <3>2. QED
      BY <3>1, FailKeeps
  <2>4. CASE Answer \/ Drop
    <3>1. /\ pc \in {"sending", "sleeping"} /\ pc' \in {"ok", "dropped"}
          /\ UNCHANGED <<policy, deadline, retry, body, began, wake, now, sent, ends>>
      BY <2>4 DEF Answer, Drop
    <3>2. TypeOK'
      BY <2>0, <3>1 DEF TypeOK
    <3>3. Timed' /\ Counted' /\ BodyKept'
      BY <2>0, <3>1 DEF IInv, TypeOK, Timed, Counted, BodyKept
    <3>4. CallLastsAtMost' /\ EveryAttemptWhole' /\ CountsTell'
      BY <3>1 DEF IInv, CallLastsAtMost, EveryAttemptWhole, CountsTell
    <3>5. QED
      BY <3>2, <3>3, <3>4 DEF IInv
  <2>5. CASE Tick
    <3>1. /\ pc \in {"sending", "sleeping"} /\ now' = now + 1
          /\ UNCHANGED <<policy, deadline, pc, retry, body, began, wake, sent, ends>>
      BY <2>5 DEF Tick
    <3>2. TypeOK'
      BY <2>0, <3>1 DEF TypeOK
    <3>3. Timed' /\ Counted' /\ BodyKept'
      BY <2>0, <2>5 DEF Tick, IInv, TypeOK, Timed, Counted, BodyKept
    <3>4. CallLastsAtMost'
      <4>1. SUFFICES ASSUME deadline # None
                     PROVE  /\ policy.max_retries = 0 => now' <= deadline
                            /\ policy.timeout # None => now' <= policy.timeout + deadline
        BY <3>1 DEF CallLastsAtMost
      <4>2. now \in Nat /\ began \in Nat /\ wake \in Nat /\ retry \in Nat
        BY <2>0 DEF TypeOK
      <4>3. CASE pc = "sending"
        <5>1. now' <= began + deadline
          BY <2>0, <2>5, <4>1, <4>2, <4>3 DEF Tick
        <5>2. /\ retry <= policy.max_retries /\ (retry = 0 => began = 0)
              /\ (policy.timeout # None => began < policy.timeout)
          BY DEF IInv, Timed, Counted
        <5>3. policy.max_retries = 0 => began = 0
          BY <4>2, <5>2
        <5>4. now' \in Nat /\ deadline \in Nat
          BY <2>0, <3>1, <4>1, <4>2
        <5>5. policy.max_retries = 0 => now' <= deadline
          BY <4>2, <5>1, <5>3, <5>4
        <5>6. policy.timeout # None => now' <= policy.timeout + deadline
          BY <2>0, <4>2, <5>1, <5>2, <5>4
        <5>7. QED
          BY <5>5, <5>6
      <4>4. CASE pc = "sleeping"
        <5>1. now' <= wake
          BY <2>5, <4>2, <4>4 DEF Tick
        <5>2. QED
          BY <2>0, <4>1, <4>2, <4>4, <3>1, <5>1 DEF IInv, Timed, Counted
      <4>5. QED
        BY <3>1, <4>3, <4>4
    <3>5. EveryAttemptWhole' /\ CountsTell'
      BY <3>1 DEF IInv, EveryAttemptWhole, CountsTell
    <3>6. QED
      BY <3>2, <3>3, <3>4, <3>5 DEF IInv
  <2>6. CASE UNCHANGED vars
    BY <2>0, <2>6 DEF vars, IInv, TypeOK, Timed, Counted, BodyKept, CallLastsAtMost,
                      EveryAttemptWhole, CountsTell
  <2>7. QED
    BY <2>1, <2>2, <2>3, <2>4, <2>5, <2>6 DEF Next
<1>2. QED
  BY InitIInv, <1>1, PTL DEF Spec

\* The loop's state keeps its types: a wait drawn from the backoff, or asked
\* for by the server, is never negative.
THEOREM TypeCorrect == Spec => []TypeOK
<1>1. IInv => TypeOK
  BY DEF IInv
<1>2. QED
  BY IInvInductive, <1>1, PTL

\* A call lasts at most its budget and one deadline of an attempt, whatever
\* the server asks for and however the jitter is drawn.
THEOREM CallIsBounded == Spec => []CallLastsAtMost
<1>1. IInv => CallLastsAtMost
  BY DEF IInv
<1>2. QED
  BY IInvInductive, <1>1, PTL

\* No attempt is sent without the body, also when the loop keeps no copy.
THEOREM BodiesAreWhole == Spec => []EveryAttemptWhole
<1>1. IInv => EveryAttemptWhole
  BY DEF IInv
<1>2. QED
  BY IInvInductive, <1>1, PTL

\* The retry counts of a call are absent, 1, 2 and so on up to the limit.
THEOREM CountsAreConsecutive == Spec => []CountsTell
<1>1. IInv => CountsTell
  BY DEF IInv
<1>2. QED
  BY IInvInductive, <1>1, PTL

-----------------------------------------------------------------------------
(* What the history of a call says: each sleep is one the failure before it*)
(* allows.                                                                 *)

\* A failure with a status is a response's, and an API error is no success.
Reported(e) ==
  /\ e.status # None => e.kind \in {"Api", "ResponseValidation"}
  /\ e.kind = "Api" => e.status \in Statuses /\ ~Success(e.status)

\* The policy repeats the ith failure and allows a wait of d after it.
Repeated(i, d) ==
  /\ Retryable(policy, ends[i].error)
  /\ d \in DelaysAfter(policy, i, ends[i].error, ends[i].at)

\* One failure is recorded per request but for the one under way.
Recorded ==
  /\ Len(ends) \in {Len(sent) - 1, Len(sent)}
  /\ pc \in {"ready", "sleeping"} => Len(ends) = Len(sent)
  /\ pc = "sending" => Len(ends) = Len(sent) - 1
  /\ \A i \in 1..Len(ends) : Reported(ends[i].error)

\* Every request but the first came a chosen wait after a failure, and the
\* next one will.
Chosen ==
  /\ \A i \in 1..(Len(sent) - 1) : Repeated(i, Slept(i))
  /\ pc = "sleeping" => Repeated(Len(ends), wake - ends[Len(ends)].at)

\* Every way an attempt ends is reported as one of the errors.
LEMMA FailuresReported == \A e \in Failures \cup {TimeoutError} : Reported(e)
<1>1. \A r \in Response : Reported(ResponseError(r))
  BY DEF Response, ResponseError, ErrorOf, Reported
<1>2. QED
  BY <1>1 DEF Failures, TimeoutError, ErrorOf, Reported

\* Sending an attempt at the start or after a sleep adds to the history what
\* the sleep was chosen as.
LEMMA SendRecords ==
  ASSUME IInv, Recorded, Chosen, NEW n \in Nat, SendAttempt(n),
         (pc = "ready" /\ Len(sent) = 0) \/ (pc = "sleeping" /\ now = wake),
         UNCHANGED <<policy, deadline, wake, now, ends>>
  PROVE  Recorded' /\ Chosen'
<1>1. TypeOK /\ Len(sent) \in Nat /\ Len(ends) \in Nat /\ Len(ends) = Len(sent)
  BY DEF IInv, TypeOK, Recorded
<1> DEFINE request == [count |-> RetryCount(n), body |-> body, at |-> now]
<1>2. /\ sent' = Append(sent, request) /\ Len(sent') = Len(sent) + 1
      /\ \A i \in 1..Len(sent) : sent'[i] = sent[i]
      /\ sent'[Len(sent) + 1].at = now
  BY <1>1 DEF SendAttempt, TypeOK
<1>3. pc' = "sending" /\ ends' = ends /\ policy' = policy
  BY DEF SendAttempt
<1> HIDE DEF request
<1>4. Recorded'
  BY <1>1, <1>2, <1>3 DEF Recorded
<1>5. ASSUME NEW i \in 1..(Len(sent') - 1) PROVE Repeated(i, Slept(i))'
  <2>1. i \in 1..Len(sent)
    BY <1>1, <1>2
  <2>2. CASE i = Len(sent)
    <3>1. pc = "sleeping" /\ now = wake
      BY <2>1, <2>2
    <3>2. Slept(i)' = wake - ends[Len(ends)].at
      BY <1>1, <1>2, <1>3, <2>2, <3>1 DEF Slept
    <3>3. QED
      BY <1>1, <1>3, <2>2, <3>1, <3>2 DEF Chosen, Repeated
  <2>3. CASE i # Len(sent)
    <3>1. i \in 1..(Len(sent) - 1) /\ i + 1 \in 1..Len(sent)
      BY <1>1, <2>1, <2>3
    <3>2. Slept(i)' = Slept(i)
      BY <1>2, <1>3, <3>1 DEF Slept
    <3>3. QED
      BY <1>3, <3>1, <3>2 DEF Chosen, Repeated
  <2>4. QED
    BY <2>2, <2>3
<1>6. QED
  BY <1>3, <1>4, <1>5 DEF Chosen

\* A failure is recorded with the wait that was chosen after it, if one was.
LEMMA FailRecords ==
  ASSUME IInv, Recorded, Chosen, NEW e \in ErrorType, Reported(e), Fail(e)
  PROVE  Recorded' /\ Chosen'
<1>1. /\ TypeOK /\ Len(sent) \in Nat /\ Len(ends) \in Nat /\ now \in Nat /\ retry \in Nat
      /\ pc = "sending" /\ Len(ends) = Len(sent) - 1 /\ Len(sent) = retry + 1
  BY DEF IInv, TypeOK, Recorded, Counted, Fail
<1> DEFINE failure == [error |-> e, at |-> now]
<1>2. /\ ends' = Append(ends, failure) /\ Len(ends') = Len(ends) + 1
      /\ \A i \in 1..Len(ends) : ends'[i] = ends[i]
      /\ ends'[Len(ends) + 1] = failure
  BY <1>1 DEF Fail, TypeOK
<1>3. sent' = sent /\ policy' = policy /\ pc' \in {"sleeping", "failed"}
  BY DEF Fail
<1>4. failure.error = e /\ failure.at = now
  OBVIOUS
<1> HIDE DEF failure
<1>5. Recorded'
  <2>1. \A i \in 1..Len(ends') : Reported(ends'[i].error)
    <3>1. \A i \in 1..Len(ends') : i \in 1..Len(ends) \/ i = Len(ends) + 1
      BY <1>1, <1>2
    <3>2. QED
      BY <1>2, <1>4, <3>1 DEF Recorded
  <2>2. QED
    BY <1>1, <1>2, <1>3, <2>1 DEF Recorded
<1>6. ASSUME NEW i \in 1..(Len(sent') - 1) PROVE Repeated(i, Slept(i))'
  <2>1. i \in 1..Len(ends) /\ i \in 1..(Len(sent) - 1)
    BY <1>1, <1>3
  <2>2. Slept(i)' = Slept(i)
    BY <1>2, <1>3, <2>1 DEF Slept
  <2>3. QED
    BY <1>2, <1>3, <2>1, <2>2 DEF Chosen, Repeated
<1>7. ASSUME pc' = "sleeping" PROVE Repeated(Len(ends), wake - ends[Len(ends)].at)'
  <2>1. PICK d \in NextDelays(e) : wake' = now + d
    BY <1>7 DEF Fail
  <2>2. d \in Nat
    BY <1>1, DelaysBounded
  <2>3. Retryable(policy, e) /\ d \in DelaysAfter(policy, retry + 1, e, now)
    BY <2>1 DEF NextDelays
  <2>4. /\ Len(ends') = retry + 1 /\ ends'[retry + 1] = failure
        /\ wake' - ends'[Len(ends')].at = d
    BY <1>1, <1>2, <1>4, <2>1, <2>2
  <2>5. QED
    BY <1>3, <1>4, <2>3, <2>4 DEF Repeated
<1>8. QED
  BY <1>5, <1>6, <1>7 DEF Chosen

\* The history is kept by every step of the loop.
LEMMA HistoryKept == Spec => [](IInv /\ Recorded /\ Chosen)
<1>1. Init => Recorded /\ Chosen
  BY DEF Init, Recorded, Chosen
<1>2. IInv /\ Recorded /\ Chosen /\ [Next]_vars => Recorded' /\ Chosen'
  <2> SUFFICES ASSUME IInv, Recorded, Chosen, [Next]_vars PROVE Recorded' /\ Chosen'
    OBVIOUS
  <2>1. ASSUME Start \/ Wake PROVE Recorded' /\ Chosen'
    <3>1. PICK n \in Nat : SendAttempt(n)
      BY <2>1 DEF Start, Wake, IInv, TypeOK
    <3>2. (pc = "ready" /\ Len(sent) = 0) \/ (pc = "sleeping" /\ now = wake)
      BY <2>1 DEF Start, Wake, IInv, Counted
    <3>3. UNCHANGED <<policy, deadline, wake, now, ends>>
      BY <2>1 DEF Start, Wake
    <3>4. QED
      BY <3>1, <3>2, <3>3, SendRecords
  <2>2. CASE TransportEnds \/ DeadlinePasses
    <3>1. PICK e \in Failures \cup {TimeoutError} : Fail(e)
      BY <2>2 DEF TransportEnds, DeadlinePasses
    <3>2. QED
      BY <3>1, FailuresTyped, FailuresReported, FailRecords
  <2>3. CASE Answer \/ Drop \/ Tick \/ UNCHANGED vars
    <3>1. /\ UNCHANGED <<policy, sent, ends, wake>>
          /\ \/ pc' = pc
             \/ pc' = "ok" /\ pc = "sending"
             \/ pc' = "dropped" /\ pc \in {"sending", "sleeping"}
      BY <2>3 DEF Answer, Drop, Tick, vars
    <3>2. \A i : Slept(i)' = Slept(i)
      BY <3>1 DEF Slept
    <3>3. \A i, d : Repeated(i, d)' <=> Repeated(i, d)
      BY <3>1 DEF Repeated
    <3>4. Recorded'
      BY <3>1 DEF Recorded
    <3>5. Chosen'
      BY <3>1, <3>2 DEF Chosen, Repeated
    <3>6. QED
      BY <3>4, <3>5
  <2>4. QED
    BY <2>1, <2>2, <2>3 DEF Next
<1>3. QED
  BY IInvInductive, <1>1, <1>2, PTL DEF Spec

\* Cutting a wait to whole milliseconds takes less than one away.
LEMMA CutsToMillis ==
  ASSUME NEW n \in Nat
  PROVE  LET w == (n \div TicksPerMilli) * TicksPerMilli
         IN  w \in Nat /\ w <= n /\ n < w + TicksPerMilli
<1>1. PICK m \in Nat : m = TicksPerMilli /\ m > 0
  OBVIOUS
<1>2. n \div m \in Nat
  BY <1>1
<1>3. PICK q \in Nat : q = n \div m
  BY <1>2
<1>4. q * m \in Nat
  OBVIOUS
<1>5. q * m <= n /\ n < (q + 1) * m
  BY <1>1, <1>3
<1>6. (q + 1) * m = q * m + m
  OBVIOUS
<1>7. QED
  BY <1>1, <1>3, <1>4, <1>5, <1>6

\* What rounding does to a wait: less than a millisecond, half of one at most.
LEMMA RoundsClosely ==
  ASSUME NEW d \in Nat, NEW r \in RoundToMillis(d)
  PROVE  r \in Nat /\ 2 * r >= 2 * d - TicksPerMilli
<1> DEFINE below == (d \div TicksPerMilli) * TicksPerMilli
<1>1. below \in Nat /\ below <= d /\ d < below + TicksPerMilli
  BY CutsToMillis
<1>2. \/ 2 * (d - below) < TicksPerMilli /\ r = below
      \/ 2 * (d - below) = TicksPerMilli /\ r \in {below, below + TicksPerMilli}
      \/ 2 * (d - below) > TicksPerMilli /\ r = below + TicksPerMilli
  <2>1. below \in Int /\ TicksPerMilli \in Int
    BY <1>1
  <2>2. d - below \in Int
    BY <2>1
  <2>3. RoundToMillis(d) = CASE 2 * (d - below) < TicksPerMilli -> {below}
                             [] 2 * (d - below) = TicksPerMilli -> {below, below + TicksPerMilli}
                             [] OTHER -> {below + TicksPerMilli}
    BY DEF RoundToMillis
  <2> HIDE DEF below
  <2>4. QED
    BY <2>1, <2>2, <2>3
<1> HIDE DEF below
<1>3. QED
  BY <1>1, <1>2

\* A header that is a count reads as a natural number, a date as well.
LEMMA HeaderTyped ==
  ASSUME NEW h \in Maybe(Header)
  PROVE  /\ IsCount(h) => h.value \in Nat
         /\ Reads(h, {"date"}) => h.value \in Nat
BY DEF IsCount, Reads, Header, Maybe

\* The wait a server asks for, as the policy reads it at the time t: what is
\* asked but for what no Duration holds.
LEMMA AskedAsWritten ==
  ASSUME NEW h \in Headers, NEW t \in Nat
  PROVE  LET d      == ParseRetryAfter(h, t)
             usable == IsCount(h.ms) \/ Reads(h.ms, {"huge"})
             cut    == d = MaxDuration
         IN  /\ IsCount(h.ms) =>
                  /\ d \in Nat
                  /\ 1000 * d <= h.ms.value * TicksPerMilli
                  /\ cut \/ 1000 * (d + TicksPerMilli) > h.ms.value * TicksPerMilli
             /\ ~usable /\ IsCount(h.after) =>
                  /\ d \in Nat
                  /\ d <= h.after.value * TicksPerMilli
                  /\ cut \/ d = h.after.value * TicksPerMilli
             /\ ~usable /\ Reads(h.after, {"date"}) =>
                  /\ d \in Nat
                  /\ cut \/ t + d + TicksPerMilli > h.after.value * TicksPerMilli
<1> DEFINE d == ParseRetryAfter(h, t)
           usable == IsCount(h.ms) \/ Reads(h.ms, {"huge"})
           cut == d = MaxDuration
<1>1. h.ms \in Maybe(Header) /\ h.after \in Maybe(Header)
  BY DEF Headers
<1>2. ASSUME NEW n \in Nat
      PROVE  /\ Saturated(n) \in Nat /\ Saturated(n) <= n
             /\ Saturated(n) = MaxDuration \/ Saturated(n) = n
  BY DEF Saturated, Lesser
<1>3. ASSUME NEW n \in Nat
      PROVE  /\ Whole(n) \in Nat /\ 1000 * Whole(n) <= n * TicksPerMilli
             /\ 1000 * (Whole(n) + TicksPerMilli) > n * TicksPerMilli
  <2>1. PICK q \in Nat : q = n \div 1000 /\ 1000 * q <= n /\ n < 1000 * (q + 1)
    OBVIOUS
  <2>2. PICK m \in Nat : m = TicksPerMilli /\ m > 0
    OBVIOUS
  <2>3. Whole(n) = q * m
    BY <2>1, <2>2 DEF Whole
  <2>4. q * m \in Nat /\ 1000 * (q * m) <= n * m /\ n * m < 1000 * (q * m + m)
    <3>1. (1000 * q) * m <= n * m /\ n * m < (1000 * (q + 1)) * m
      BY <2>1, <2>2
    <3>2. (1000 * q) * m = 1000 * (q * m) /\ (1000 * (q + 1)) * m = 1000 * (q * m + m)
      OBVIOUS
    <3>3. q * m \in Nat
      OBVIOUS
    <3>4. QED
      BY <3>1, <3>2, <3>3
  <2>5. QED
    BY <2>2, <2>3, <2>4
<1>4. ASSUME NEW n \in Int, ~(n < 0)
      PROVE  LET w == (n \div TicksPerMilli) * TicksPerMilli
             IN  w \in Nat /\ w <= n /\ n < w + TicksPerMilli
  <2>1. n \in Nat
    BY <1>4
  <2>2. QED
    BY <2>1, CutsToMillis
<1>5. ASSUME NEW k \in Nat PROVE k * TicksPerMilli \in Nat
  OBVIOUS
<1>6. ASSUME IsCount(h.ms)
      PROVE  /\ d \in Nat
             /\ 1000 * d <= h.ms.value * TicksPerMilli
             /\ cut \/ 1000 * (d + TicksPerMilli) > h.ms.value * TicksPerMilli
  <2>1. PICK n \in Nat : n = h.ms.value
    BY <1>1, <1>6, HeaderTyped
  <2>2. d = Saturated(Whole(n))
    BY <1>6, <2>1 DEF ParseRetryAfter, IsCount
  <2>3. PICK w \in Nat : w = Whole(n)
    BY <1>3
  <2>4. n * TicksPerMilli \in Nat /\ 1000 * w <= n * TicksPerMilli
          /\ 1000 * (w + TicksPerMilli) > n * TicksPerMilli
    BY <1>3, <1>5, <2>3
  <2>5. d \in Nat /\ d <= w /\ (d = MaxDuration \/ d = w)
    BY <1>2, <2>2, <2>3
  <2> HIDE DEF d
  <2>6. QED
    BY <2>1, <2>4, <2>5
<1>7. ASSUME ~usable, IsCount(h.after)
      PROVE  /\ d \in Nat
             /\ d <= h.after.value * TicksPerMilli
             /\ cut \/ d = h.after.value * TicksPerMilli
  <2>1. h.after.value \in Nat
    BY <1>1, <1>7, HeaderTyped
  <2>2. d = Saturated(h.after.value * TicksPerMilli)
    <3>1. ~IsCount(h.ms) /\ ~(h.ms # None /\ h.ms.form = "huge")
      BY <1>7 DEF Reads
    <3>2. QED
      BY <1>7, <3>1 DEF ParseRetryAfter, IsCount
  <2> HIDE DEF d
  <2>3. QED
    BY <1>2, <1>5, <2>1, <2>2
<1>8. ASSUME ~usable, Reads(h.after, {"date"})
      PROVE  d \in Nat /\ (cut \/ t + d + TicksPerMilli > h.after.value * TicksPerMilli)
  <2>1. h.after.value \in Nat /\ ~IsCount(h.after) /\ h.after # None /\ h.after.form = "date"
    BY <1>1, <1>8, HeaderTyped DEF Reads, IsCount
  <2>2. PICK due \in Nat : due = h.after.value * TicksPerMilli
    BY <1>5, <2>1
  <2>3. d = IF due - t < 0 THEN 0
            ELSE Saturated(((due - t) \div TicksPerMilli) * TicksPerMilli)
    BY <1>8, <2>1, <2>2 DEF ParseRetryAfter, Reads
  <2> HIDE DEF d
  <2>4. CASE due - t < 0
    BY <2>2, <2>3, <2>4
  <2>5. CASE ~(due - t < 0)
    <3>1. PICK w \in Nat : /\ w = ((due - t) \div TicksPerMilli) * TicksPerMilli
                           /\ due - t < w + TicksPerMilli
      BY <1>4, <2>5
    <3>2. d \in Nat /\ (d = MaxDuration \/ d = w)
      BY <1>2, <2>3, <2>5, <3>1
    <3>3. QED
      BY <2>2, <3>1, <3>2
  <2>6. QED
    BY <2>4, <2>5
<1> HIDE DEF d
<1>9. QED
  BY <1>6, <1>7, <1>8 DEF d

\* A backoff is the doubled start or the cap, less the jitter's share at most,
\* to the millisecond.
LEMMA BackoffsBounded ==
  ASSUME NEW p \in Policy, NEW n \in Nat \ {0}, NEW d \in BackoffsOf(p, n)
  PROVE  LET longest == Lesser(p.backoff_initial * Doubled[n - 1], p.backoff_max)
         IN  /\ d <= longest
             /\ 100 * (longest - d) <= longest * p.backoff_jitter + 50 * TicksPerMilli
<1> DEFINE longest == Lesser(p.backoff_initial * Doubled[n - 1], p.backoff_max)
<1>1. PICK start \in Nat, cap \in Nat, jitter \in Nat :
        start = p.backoff_initial /\ cap = p.backoff_max /\ jitter = p.backoff_jitter
  <2>1. p.backoff_initial \in Delays /\ p.backoff_max \in Delays /\ p.backoff_jitter \in 0..100
    BY DEF Policy
  <2>2. QED
    BY <2>1 DEF Delays
<1>2. PICK times \in Nat : times = Doubled[n - 1]
  BY DoubledUnfolds
<1>3. start * times \in Nat
  OBVIOUS
<1>4. longest \in Nat
  BY <1>1, <1>2, <1>3 DEF Lesser
<1>5. longest * jitter \in Nat
  BY <1>4
<1>6. CASE start = 0 \/ cap = 0
  <2>1. longest = 0
    BY <1>1, <1>2, <1>3, <1>6 DEF Lesser
  <2>2. d = 0
    BY <1>1, <1>6 DEF BackoffsOf, Backoffs
  <2> HIDE DEF longest
  <2>3. longest * jitter = 0
    BY <2>1
  <2>4. QED
    BY <1>1, <2>1, <2>2, <2>3 DEF longest
<1>7. CASE ~(start = 0 \/ cap = 0)
  <2>1. Exponential(start, cap, n) = longest
    BY <1>1, <1>2, ExponentialIsDoubled
  <2> HIDE DEF longest
  <2>2. PICK e \in 0..longest : /\ 100 * (longest - e) <= longest * jitter
                                /\ \E r \in RoundToMillis(e) : d = Lesser(longest, r)
    BY <1>1, <1>7, <2>1 DEF BackoffsOf, Backoffs
  <2>3. PICK r \in RoundToMillis(e) : d = Lesser(longest, r)
    BY <2>2
  <2>4. e \in Nat /\ r \in Nat /\ 2 * r >= 2 * e - TicksPerMilli
    BY <1>4, <2>2, RoundsClosely
  <2>5. d <= longest /\ (d = longest \/ d = r)
    BY <1>4, <2>3, <2>4 DEF Lesser
  <2>6. PICK share \in Nat : share = longest * jitter
    BY <1>5
  <2>7. 100 * (longest - d) <= share + 50 * TicksPerMilli
    BY <1>4, <2>2, <2>4, <2>5, <2>6
  <2>8. QED
    BY <1>1, <2>5, <2>6, <2>7 DEF longest
<1>8. QED
  BY <1>6, <1>7

\* Every wait of a call that a server asked for is slept as it was written.
THEOREM WaitsAreSlept == Spec => []WaitsAsAsked
<1>1. ASSUME IInv, Recorded, Chosen PROVE WaitsAsAsked
  <2> SUFFICES ASSUME NEW i \in 1..(Len(sent) - 1), Obeyed(i)
               PROVE  LET headers == ends[i].error.headers
                          usable  == IsCount(headers.ms) \/ Reads(headers.ms, {"huge"})
                          cut     == Slept(i) = MaxDuration
                      IN  /\ IsCount(headers.ms) =>
                               /\ 1000 * Slept(i) <= headers.ms.value * TicksPerMilli
                               /\ cut \/ 1000 * (Slept(i) + TicksPerMilli)
                                           > headers.ms.value * TicksPerMilli
                          /\ ~usable /\ IsCount(headers.after) =>
                               /\ Slept(i) <= headers.after.value * TicksPerMilli
                               /\ cut \/ Slept(i) = headers.after.value * TicksPerMilli
                          /\ ~usable /\ Reads(headers.after, {"date"}) =>
                               cut \/ sent[i + 1].at + TicksPerMilli
                                        > headers.after.value * TicksPerMilli
    BY DEF WaitsAsAsked
  <2> DEFINE h == ends[i].error.headers
             t == ends[i].at
             d == ParseRetryAfter(h, t)
  <2>1. /\ i \in 1..Len(ends) /\ h \in Headers /\ t \in Nat
        /\ sent[i + 1].at \in Nat
    <3>1. /\ i \in 1..Len(ends) /\ i + 1 \in 1..Len(sent)
      BY <1>1 DEF Recorded, IInv, TypeOK
    <3>2. /\ ends \in Seq([error: ErrorType, at: Nat])
          /\ sent \in Seq([count: Maybe(Nat), body: {"whole", "taken"}, at: Nat])
      BY <1>1 DEF IInv, TypeOK, ErrorType
    <3>3. ends[i] \in [error: ErrorType, at: Nat]
      BY <3>1, <3>2, ElementOfSeq, Zenon
    <3>4. sent[i + 1] \in [count: Maybe(Nat), body: {"whole", "taken"}, at: Nat]
      BY <3>1, <3>2, ElementOfSeq, Zenon
    <3>5. QED
      BY <3>1, <3>3, <3>4 DEF ErrorType
  <2>2. Slept(i) \in DelaysAfter(policy, i, ends[i].error, t)
    BY <1>1 DEF Chosen, Repeated
  <2>3. Asked(policy, ends[i].error, t) = d
    BY DEF Asked, Obeyed
  <2>4. Slept(i) \in Int /\ Slept(i) + t = sent[i + 1].at
    BY <2>1 DEF Slept
  <2>5. d # None => Slept(i) = d
    BY <2>2, <2>3 DEF DelaysAfter
  <2>6. d # None => Slept(i) = d /\ sent[i + 1].at = t + d
    BY <2>1, <2>4, <2>5
  <2> DEFINE usable == IsCount(h.ms) \/ Reads(h.ms, {"huge"})
             MillisKept(x)  ==
               /\ 1000 * x <= h.ms.value * TicksPerMilli
               /\ x = MaxDuration
                    \/ 1000 * (x + TicksPerMilli) > h.ms.value * TicksPerMilli
             SecondsKept(x) ==
               /\ x <= h.after.value * TicksPerMilli
               /\ x = MaxDuration \/ x = h.after.value * TicksPerMilli
             DateKept(x, y) ==
               x = MaxDuration \/ y + TicksPerMilli > h.after.value * TicksPerMilli
  <2>7. /\ IsCount(h.ms) => d # None /\ MillisKept(d)
        /\ ~usable /\ IsCount(h.after) => d # None /\ SecondsKept(d)
        /\ ~usable /\ Reads(h.after, {"date"}) => d # None /\ DateKept(d, t + d)
    <3>1. d \in Nat => d # None
      OBVIOUS
    <3> HIDE DEF h, t
    <3>2. QED
      BY <2>1, <3>1, AskedAsWritten
  <2>8. /\ IsCount(h.ms) => MillisKept(Slept(i))
        /\ ~usable /\ IsCount(h.after) => SecondsKept(Slept(i))
        /\ ~usable /\ Reads(h.after, {"date"}) => DateKept(Slept(i), sent[i + 1].at)
    <3> HIDE DEF h, t, d, usable, MillisKept, SecondsKept, DateKept
    <3>1. QED
      BY <2>6, <2>7, Zenon
  <2>9. QED
    BY <2>8, Zenon
<1>2. QED
  BY HistoryKept, <1>1, PTL

\* Every wait of a call that no server asked for is a backoff within the
\* bounds of the policy, whatever was drawn and however it was rounded.
THEOREM BackoffsAreKept == Spec => []BacksOff
<1>1. ASSUME IInv, Recorded, Chosen PROVE BacksOff
  <2> SUFFICES ASSUME NEW i \in 1..(Len(sent) - 1),
                      ~Obeyed(i) \/ ends[i].error.headers = NoHeaders
               PROVE  LET longest == Lesser(policy.backoff_initial * Doubled[i - 1],
                                            policy.backoff_max)
                      IN  /\ Slept(i) <= longest
                          /\ 100 * (longest - Slept(i))
                               <= longest * policy.backoff_jitter + 50 * TicksPerMilli
    BY DEF BacksOff
  <2>1. Slept(i) \in DelaysAfter(policy, i, ends[i].error, ends[i].at)
    BY <1>1 DEF Chosen, Repeated
  <2>2. ParseRetryAfter(NoHeaders, ends[i].at) = None
    BY DEF ParseRetryAfter, NoHeaders, IsCount
  <2>3. Asked(policy, ends[i].error, ends[i].at) = None
    BY <2>2 DEF Asked, Obeyed
  <2>4. Slept(i) \in BackoffsOf(policy, i)
    BY <2>1, <2>3 DEF DelaysAfter
  <2>5. policy \in Policy /\ i \in Nat \ {0}
    BY <1>1, PolicyTyped DEF IInv
  <2>6. QED
    BY <2>4, <2>5, BackoffsBounded
<1>2. QED
  BY HistoryKept, <1>1, PTL

\* No response is repeated that the policy did not list, nor a success, nor a
\* status its bitmap has no word for.
THEOREM OnlyListedRepeat == Spec => []RepeatsListed
<1>1. ASSUME NEW given \in SUBSET Nat, NEW s \in Statuses, Contains(StatusSet(given), s)
      PROVE  s \in given /\ s < 640
  <2>1. s \in Nat /\ s \div 64 \in Nat
    BY DEF Statuses
  <2>2. s \div 64 \in 0..9
    BY <1>1 DEF Contains, WordBits, Words
  <2>3. PICK g \in given : g \div 64 = s \div 64 /\ g % 64 = s % 64
    BY <1>1, <2>2 DEF Contains, StatusSet, WordBits, Words
  <2>4. g \in Nat
    OBVIOUS
  <2>5. g = s /\ s < 640
    BY <2>1, <2>2, <2>3, <2>4
  <2>6. QED
    BY <2>5
<1>2. ASSUME IInv, Recorded, Chosen PROVE RepeatsListed
  <2> SUFFICES ASSUME NEW i \in 1..(Len(sent) - 1),
                      ends[i].error.status # None, ends[i].error.kind \notin policy.predicate
               PROVE  LET e == ends[i].error
                      IN  e.status \in policy.http_statuses /\ ~Success(e.status) /\ e.status < 640
    BY DEF RepeatsListed
  <2>1. Reported(ends[i].error) /\ Retryable(policy, ends[i].error)
    BY <1>2, SMTT(60) DEF Recorded, Chosen, Repeated, IInv, TypeOK
  <2>2. ends[i].error.kind = "Api"
    BY <2>1 DEF Reported, Retryable
  <2>3. Contains(StatusSet(policy.http_statuses), ends[i].error.status)
    BY <2>1, <2>2 DEF Retryable
  <2>4. policy.http_statuses \in SUBSET Nat
    BY <1>2, PolicyTyped DEF IInv, Policy
  <2>5. QED
    BY <1>1, <2>1, <2>2, <2>3, <2>4 DEF Reported
<1>3. QED
  BY HistoryKept, <1>2, PTL
===========================================================================
