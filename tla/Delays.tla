------------------------------- MODULE Delays -------------------------------
(***************************************************************************)
(* The numbers of the retry loop: the wait a response's headers ask for    *)
(* (crates/sdk/src/error.rs, parse_retry_after), the backoff (retry.rs,    *)
(* backoff_seconds) and the bitmap of retried statuses (retry.rs,          *)
(* StatusSet).                                                             *)
(*                                                                         *)
(* Time is counted in ticks, of which a millisecond has TicksPerMilli, so  *)
(* that a setting can be finer than the milliseconds a wait is rounded to. *)
(***************************************************************************)
EXTENDS Integers

CONSTANTS
  MaxDuration,    \* Duration::MAX, in ticks
  TicksPerMilli,  \* how much finer than a millisecond a Duration is
  None            \* stands for "not set"

ASSUME DelaysAssumption ==
  /\ MaxDuration \in Nat
  /\ TicksPerMilli \in Nat \ {0}
  /\ None \notin Int

Delays == 0..MaxDuration
Maybe(S) == S \cup {None}
Lesser(a, b) == IF a < b THEN a ELSE b

\* seconds_to_duration, millis_to_duration, Duration::saturating_add: what no
\* Duration holds becomes the longest one.
Saturated(ticks) == Lesser(ticks, MaxDuration)

-----------------------------------------------------------------------------
(* The wait a server asks for. *)

\* The value of one header, by how it reads: a finite number in thousandths
\* of the header's unit, one whose thousandfold is not finite, infinity or
\* NaN, nothing, a date in milliseconds, or anything else.
Header ==
  [form: {"number"}, value: Int] \cup [form: {"date"}, value: Nat]
    \cup [form: {"huge", "infinite", "empty", "junk"}, value: {0}]

\* The two headers of a response.
Headers == [ms: Maybe(Header), after: Maybe(Header)]

NoHeaders == [ms |-> None, after |-> None]

\* An empty header asks for no wait at all.
IsCount(h) == h # None /\ (h.form = "empty" \/ (h.form = "number" /\ h.value >= 0))

\* Whole milliseconds: a count of milliseconds loses its fraction, and a
\* count of seconds what is below a thousandth.
Whole(thousandths) == (thousandths \div 1000) * TicksPerMilli

\* Mutant: a negative or unreadable count of milliseconds ends the search.
ParseMillisOnly(headers, now) ==
  IF headers.ms # None /\ ~IsCount(headers.ms) THEN None
  ELSE IF IsCount(headers.ms) THEN Saturated(Whole(headers.ms.value))
  ELSE IF IsCount(headers.after) THEN Saturated(headers.after.value * TicksPerMilli)
  ELSE None

\* parse_retry_after: `retry-after-ms` if it is a count, else `Retry-After`
\* if it is one or a date, which is measured against the clock.
ParseRetryAfter(headers, now) ==
  LET wait(date) == date * TicksPerMilli - now
  IN CASE IsCount(headers.ms) -> Saturated(Whole(headers.ms.value))
       [] headers.ms # None /\ headers.ms.form = "huge" -> MaxDuration
       [] OTHER ->
            CASE IsCount(headers.after) -> Saturated(headers.after.value * TicksPerMilli)
              [] headers.after # None /\ headers.after.form = "date" ->
                   IF wait(headers.after.value) < 0
                     THEN 0
                     ELSE Saturated((wait(headers.after.value) \div TicksPerMilli) * TicksPerMilli)
              [] OTHER -> None

-----------------------------------------------------------------------------
(* The backoff. *)

\* How often `initial` goes into the nth doubling of itself.
Doubled[n \in Nat] == IF n = 0 THEN 1 ELSE 2 * Doubled[n - 1]

\* Mutant: the first backoff is doubled already.
ExponentialFromOne(initial, longest, attempt) ==
  Lesser(longest, initial * Doubled[Lesser(attempt, longest)])

\* `initial` doubled once per attempt, no further than `longest`.  The cap is
\* tested on the exponent, so no power past it is computed.
Exponential(initial, longest, attempt) ==
  Lesser(longest, initial * Doubled[Lesser(attempt - 1, longest)])

\* round_to_millis: an exact half goes either way, as the nearest binary
\* number lies.
RoundToMillis(ticks) ==
  LET below == (ticks \div TicksPerMilli) * TicksPerMilli
      over  == ticks - below
  IN CASE 2 * over < TicksPerMilli -> {below}
       [] 2 * over = TicksPerMilli -> {below, below + TicksPerMilli}
       [] OTHER -> {below + TicksPerMilli}

\* backoff_seconds: less a random share of up to `jitter` hundredths, rounded
\* and never above what it was rounded from.
Backoffs(initial, longest, jitter, attempt) ==
  IF initial = 0 \/ longest = 0
    THEN {0}
    ELSE LET exponential == Exponential(initial, longest, attempt)
             drawn == {d \in 0..exponential : 100 * (exponential - d) <= exponential * jitter}
         IN  {Lesser(exponential, r) : r \in UNION {RoundToMillis(d) : d \in drawn}}

-----------------------------------------------------------------------------
(* The statuses, as ten words of 64 bits. *)

WordBits == 64
Words == 0..9

\* Mutant: the word of a status wraps round.
ContainsWrapped(set, status) ==
  status % WordBits \in set[(status \div WordBits) % 10]

Contains(set, status) ==
  status \div WordBits \in Words /\ status % WordBits \in set[status \div WordBits]

\* FromIterator: the statuses given, without those no word holds.
StatusSet(given) ==
  [w \in Words |-> {s % WordBits : s \in {s \in given : s \div WordBits = w}}]
===========================================================================
