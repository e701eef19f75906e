------------------------------- MODULE MCRetry -------------------------------
(* Instances of Retry for TLC. *)
EXTENDS Retry

\* Status 200 is listed, which must have no effect, and 840, which no word of
\* the set holds.
PolicyOf(m, i, r, p, b) ==
  [max_retries |-> m, backoff_initial |-> i, backoff_max |-> 3, backoff_jitter |-> 50,
   http_statuses |-> {200, 503, 840}, respect_retry_after |-> r,
   api_connection_error |-> r, api_timeout_error |-> TRUE, predicate |-> p, timeout |-> b]

\* Policies that differ in everything the properties depend on: one retry
\* under every backoff, predicate and budget, and two retries under each
\* budget with the doubled backoff reaching its cap.
MCPolicies ==
  {PolicyOf(m, i, r, p, b) : m \in {0, 1}, i \in {0, 2}, r \in BOOLEAN,
     p \in {{}, {"ResponseValidation"}}, b \in {None, 1, 4}}
  \cup {PolicyOf(2, i, TRUE, {}, b) : i \in {1, 2}, b \in {None, 4}}

Count(n) == [form |-> "number", value |-> n]
Form(f) == [form |-> f, value |-> 0]
Ms(h) == [ms |-> h, after |-> None]
After(h) == [ms |-> None, after |-> h]
Answering(status, fits, decodes, headers) ==
  [status |-> status, fits |-> fits, decodes |-> decodes, headers |-> headers]

\* An answer, listed and unlisted failures, and success responses that end
\* an attempt; the waits asked for are short, long, cut, endless, past, a
\* date, unreadable in one header or in both.
MCResponses ==
  {Answering(200, TRUE, TRUE, NoHeaders),
   Answering(200, TRUE, FALSE, Ms(Count(1999))),
   Answering(200, FALSE, FALSE, NoHeaders),
   Answering(840, TRUE, FALSE, NoHeaders),
   Answering(503, TRUE, FALSE, NoHeaders),
   Answering(503, TRUE, FALSE, After(Count(3))),
   Answering(503, TRUE, FALSE, After(Count(4))),
   Answering(503, TRUE, FALSE, After([form |-> "date", value |-> 2])),
   Answering(503, TRUE, FALSE, After(Count(-1))),
   Answering(503, TRUE, FALSE, [ms |-> Form("junk"), after |-> Count(2)]),
   Answering(503, TRUE, FALSE, [ms |-> Count(-1), after |-> Form("empty")]),
   Answering(503, TRUE, FALSE, After(Form("infinite"))),
   Answering(503, FALSE, FALSE, Ms(Form("huge")))}

MCDeadlines == {None, 2}
===========================================================================
