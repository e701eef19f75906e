------------------------------ MODULE Provider ------------------------------
(***************************************************************************)
(* One attempt of a built-in provider (Provider::request of openai.rs,     *)
(* anthropic.rs and gemini.rs over post of provider/http.rs): the provider *)
(* is resolved and its settings are checked (see Vendors), one POST is     *)
(* made under a deadline, the body is read up to a limit, and the caller   *)
(* is told of a failure or of a success that is no answer.                 *)
(*                                                                         *)
(* Text others wrote is searched for the API key before it is kept, and    *)
(* messages are escaped and cut: the model keeps the order of decoding,    *)
(* searching, escaping and cutting, which decides what a search can find.  *)
(***************************************************************************)
EXTENDS Vendors, FiniteSets

CONSTANTS
  Asks,        \* what is asked, by a client and a call, in which environment
  MaxMessage,  \* MAX_MESSAGE_CHARS
  Responses,   \* what the servers may answer, and of which API
  Failures     \* how the service or the body may fail

\* An error of the service: the text of its chain, whether it is an error of
\* the SDK's, and whether the chain is short enough to search to its end.
Failure == [text: Text, ours: BOOLEAN, short: BOOLEAN]

\* A response: the text of its headers, the length they declare (zero for
\* none), how long the body is and what it says.
Response == [api: Apis, status: 100..599, headers: Text, declared: Nat, size: Nat, body: Body]

ASSUME ProviderAssumption ==
  /\ DefaultLimit \in Nat \ {0} /\ MaxMessage \in Nat \ {0}
  /\ \A a \in Asks : \A b \in {a.client.instance, a.call.instance} \ {None} :
       b.max_response_bytes \in Nat \cup {None} /\ ~IsRefused(b)
  /\ Responses \subseteq Response
  /\ Failures \subseteq Failure
  /\ None \notin Seq(Tokens) /\ None \notin Body /\ None \notin Response

\* What a call can ask, by the types of its parts: an URL of no text breaks a
\* rule, and what a variable holds counts once it is set.
IsPath(p) == p \in Seq(ToSet(p))
IsUrl(u) == IsPath(u.prefix) /\ (u.text = "" => u.broken \cap ToSet(UrlRules) # {})

ASSUME AsksAssumption ==
  /\ None # "schema" /\ None \notin Seq(STRING)
  /\ \A a \in Asks :
       /\ a.messages \in Seq([role: {"system"} \cup DOMAIN StepKind, content: STRING])
       /\ a.structured \in BOOLEAN
       /\ {a.client.provider, a.call.provider} \subseteq DOMAIN Vendor \cup {None}
       /\ \A b \in {a.client.instance, a.call.instance} \ {None} :
            /\ b.vendor \in DOMAIN Vendor /\ b.api \in {None, "responses", "chat_completions"}
            /\ b.base_url # None => IsUrl(b.base_url)
       /\ \A v \in UNION {ToSet(Vendor[n].urls) : n \in DOMAIN Vendor} :
            a.env[v] # None /\ a.env[v].text # "" => IsPath(a.env[v].prefix)

VARIABLES
  ask,       \* what is asked: the targets, the messages and the mode
  provider,  \* the provider the call goes to
  pc,        \* where the attempt is
  wire,      \* the request that was sent
  response,  \* the response whose head arrived
  read,      \* how many bytes of its body were read
  trace,     \* AttemptTrace
  outcome    \* what the attempt returned

vars == <<ask, provider, pc, wire, response, read, trace, outcome>>

Init ==
  /\ ask \in Asks
  /\ provider = None
  /\ pc = "resolving" /\ wire = None /\ response = None /\ read = 0
  /\ trace = [request |-> None, response |-> None, finish |-> None]
  /\ outcome = None

-----------------------------------------------------------------------------
(* Text: the search for the key, the escaping and the cut. *)

\* KeyHeader::occurs_in
Holds(t) == \E i \in DOMAIN t : t[i] = "key"

\* A control character is written as its escape, which can spell the key.
Escape(t) == [i \in DOMAIN t |-> IF t[i] = "tabbed" THEN "key" ELSE t[i]]

\* A key is two characters long, anything else is one.
Width(t) == Len(t) + Cardinality({i \in DOMAIN t : t[i] = "key"})

\* Capped: the text up to the limit; a key that crosses it is cut.
Cut(t) ==
  IF Width(t) <= MaxMessage THEN t
  ELSE LET fits == {n \in 0..Len(t) : Width(SubSeq(t, 1, n)) <= MaxMessage}
           n == CHOOSE n \in fits : \A m \in fits : m <= n
           whole == SubSeq(t, 1, n)
       IN  IF t[n + 1] = "key" /\ Width(whole) < MaxMessage THEN Append(whole, "part") ELSE whole

Bounded(t) == Cut(Escape(t))

\* The bytes of a body as they arrived.
Optional(t) == IF t = None THEN <<>> ELSE t
Raw(b) == Optional(b.stop) \o Optional(b.why) \o Optional(b.message) \o b.rest

-----------------------------------------------------------------------------
(* What the caller is told. *)

Success(status) == status \in 200..299

\* The text a caller can read: the message, and what else the value keeps,
\* the body and headers of an API error or the source of a connection error.
Told(kind, status, message, kept) ==
  [kind |-> kind, status |-> status, message |-> message, kept |-> kept, text |-> None]

\* The message the SDK reads out of a failure's body (ApiError::from_response).
ApiMessage(b) ==
  Bounded(IF b.message \in {None, <<>>} THEN Raw(b) ELSE Decode(b.message))

NotShown(status) == Told("Api", status, Fixed, <<>>)

\* api_error: the bytes are searched as they arrived, and the error that was
\* built once more, with the request id it shows of the headers.  A body over
\* the limit is replaced and only the headers are searched.
ApiError(r, whole) ==
  LET message == IF whole THEN ApiMessage(r.body) ELSE Fixed
      received == r.headers \o (IF whole THEN Raw(r.body) ELSE <<>>)
  IN  IF Holds(received) \/ Holds(message \o Bounded(r.headers))
        THEN NotShown(r.status)
        ELSE Told("Api", r.status, message, received)

Withheld == Told("Connection", None, Fixed, <<>>)

\* connection
Connection(f) ==
  IF ~f.short \/ Holds(f.text) THEN Withheld
  ELSE IF f.ours THEN Told("Passed", None, f.text, <<>>)
  ELSE IF Holds(Bounded(f.text)) THEN Withheld
  ELSE Told("Connection", None, Bounded(f.text), f.text)

\* Mutant: every body over the limit is a response too large.
TooLargeAlways(r) == Told("ResponseTooLarge", None, Fixed, <<>>)

\* A body over the limit: the status decides what it is reported as.
TooLarge(r) ==
  IF Success(r.status) THEN Told("ResponseTooLarge", None, Fixed, <<>>) ELSE ApiError(r, FALSE)

\* non_answer, with the vendor's name before the reason.
NonAnswer(reason, status) == Told("NonAnswer", status, Bounded(reason), <<>>)

-----------------------------------------------------------------------------
(* The attempt. *)

End(told) == pc' = "ended" /\ outcome' = told

\* The client resolves the provider; an instance's builder reads the same
\* environment, when its caller builds it.
Build ==
  /\ pc = "resolving"
  /\ LET builder == Resolve(ask.client, ask.call) IN
     provider' = IF IsRefused(builder) THEN builder ELSE Settle(builder, ask.env)
  /\ pc' = IF IsRefused(provider') THEN "ended" ELSE "idle"
  /\ UNCHANGED <<ask, wire, response, read, trace, outcome>>

Asked == BodyOf(provider, ask.messages, ask.structured)

\* The body is encoded and recorded before anything is sent.
Request ==
  /\ pc = "idle" /\ pc' = "waiting"
  /\ trace' = [trace EXCEPT !.request = Asked]
  /\ UNCHANGED <<ask, provider, wire, response, read, outcome>>

\* poll_ready gives way, and the request is sent.
Call ==
  /\ pc = "waiting" /\ pc' = "sent"
  /\ wire' = [uri |-> provider.endpoint.wire, headers |-> provider.headers, body |-> Asked]
  /\ UNCHANGED <<ask, provider, response, read, trace, outcome>>

\* The service fails before it is ready, before it answers, or in the body.
Fail(f) ==
  /\ pc \in {"waiting", "sent", "reading"}
  /\ End(Connection(f))
  /\ UNCHANGED <<ask, provider, wire, response, read, trace>>

\* Mutant: the declared length is not looked at.
ReceiveAnyHead(r) ==
  /\ pc = "sent" /\ r.api = provider.api /\ response' = r
  /\ pc' = "reading" /\ UNCHANGED outcome
  /\ UNCHANGED <<ask, provider, wire, read, trace>>

\* The head of the response: a declared length over the limit is refused.
ReceiveHead(r) ==
  /\ pc = "sent" /\ r.api = provider.api /\ response' = r
  /\ IF r.declared > provider.limit THEN End(TooLarge(r)) ELSE pc' = "reading" /\ UNCHANGED outcome
  /\ UNCHANGED <<ask, provider, wire, read, trace>>

\* A frame of the body that fits what is left of the limit, or does not.
Frame(n) ==
  /\ pc = "reading" /\ read + n <= response.size
  /\ IF read + n > provider.limit
       THEN End(TooLarge(response)) /\ UNCHANGED read
       ELSE read' = read + n /\ UNCHANGED <<pc, outcome>>
  /\ UNCHANGED <<ask, provider, wire, response, trace>>

\* Mutant: the stop reason that was recorded is not searched.
ScreenedBody(b, finish, told) ==
  IF Holds(Raw(b)) \/ Holds(told.message)
    THEN [finish |-> None, told |-> NonAnswer(Fixed, told.status)]
    ELSE [finish |-> finish, told |-> told]

\* Exchange::screened: a non-answer whose response or message spells the key
\* is told without its reason, and the recorded stop reason is cleared.
Screened(b, finish, told) ==
  IF Holds(Raw(b)) \/ Holds(Optional(finish)) \/ Holds(told.message)
    THEN [finish |-> None, told |-> NonAnswer(Fixed, told.status)]
    ELSE [finish |-> finish, told |-> told]

\* What a reply is told as, and the stop reason left in the trace.
Reading(b, status) ==
  LET result == Read(provider.api, b)
  IN  IF result.answers
        THEN [finish |-> StopRecorded(provider.api, b),
              told |-> [Told("Answer", status, <<>>, <<>>) EXCEPT !.text = result.text]]
        ELSE Screened(b, StopRecorded(provider.api, b), NonAnswer(result.reason, status))

\* Mutant: only an answer is recorded.
ReplyAnswer(b, status) ==
  /\ trace' = IF Reading(b, status).told.kind = "Answer"
                THEN [trace EXCEPT !.response = b, !.finish = Reading(b, status).finish]
                ELSE trace
  /\ End(Reading(b, status).told)

\* The reply is recorded before it is read, so that one refused is kept.
Reply(b, status) ==
  /\ trace' = [trace EXCEPT !.response = b, !.finish = Reading(b, status).finish]
  /\ End(Reading(b, status).told)

\* The body ended within the limit.
Whole ==
  /\ pc = "reading" /\ read = response.size
  /\ LET r == response IN
       \/ /\ ~Success(r.status)
          /\ End(ApiError(r, TRUE)) /\ UNCHANGED trace
       \/ /\ Success(r.status) /\ ~r.body.json
          /\ End(NonAnswer(Fixed, r.status)) /\ UNCHANGED trace
       \/ /\ Success(r.status) /\ r.body.json
          /\ Reply(r.body, r.status)
  /\ UNCHANGED <<ask, provider, wire, response, read>>

\* The deadline drops whatever the attempt waits for.
Deadline ==
  /\ pc \in {"waiting", "sent", "reading"}
  /\ End(Told("Timeout", None, Fixed, <<>>))
  /\ UNCHANGED <<ask, provider, wire, response, read, trace>>

Next ==
  \/ Build
  \/ Request
  \/ Call
  \/ \E f \in Failures : Fail(f)
  \/ pc = "sent" /\ \E r \in Responses : ReceiveHead(r)
  \/ pc = "reading" /\ \E n \in 1..response.size : Frame(n)
  \/ Whole
  \/ Deadline

Spec == Init /\ [][Next]_vars

-----------------------------------------------------------------------------
(* Properties. *)

\* What each vendor reads out of a request: the system prompt, the turns and the schema.
Heard(api, body) ==
  CASE api = "responses" ->
         [prompt |-> Or(body.instructions, <<>>) \o System(body.input),
          turns |-> Turns(body.input), schema |-> body.format = "schema"]
    [] api = "chat_completions" ->
         [prompt |-> System(body.messages), turns |-> Turns(body.messages),
          schema |-> body.response_format # None]
    [] api = "messages" ->
         [prompt |-> body.system \o System(body.messages), turns |-> Turns(body.messages),
          schema |-> body.output_config # None]
    [] api = "interactions" ->
         [prompt |-> Or(body.system_instruction, <<>>),
          turns |-> [i \in DOMAIN body.input |->
             [role |-> CHOOSE r \in DOMAIN StepKind : StepKind[r] = body.input[i].kind,
              content |-> body.input[i].text]],
          schema |-> body.response_format # None]

\* The instance the call goes to, if it names one nearer than a model; and its vendor.
InstanceOf(a) ==
  IF a.call.instance # None THEN a.call.instance
  ELSE IF a.call.model # None THEN None ELSE a.client.instance
VendorOf(a) ==
  IF InstanceOf(a) # None THEN InstanceOf(a).vendor ELSE Or(a.call.provider, a.client.provider)

\* What is sent is what was recorded, and says what was asked: every message
\* reaches the vendor once and in its order, the system prompt apart or within,
\* with the schema if the mode is the vendor's own, for the model named nearest to
\* the call.  A key of one vendor is never sent to the host of another, nor to a
\* place that neither its instance nor its environment names (client.rs:225-250,
\* http.rs:280-418, and the request bodies of openai.rs, anthropic.rs and gemini.rs).
AsksAsTold ==
  wire # None =>
    LET heard == Heard(provider.api, wire.body)
        Spoken(texts) == Sift(texts, {i \in DOMAIN texts : texts[i] # ""})
        instance == InstanceOf(ask)
        vendor == Vendor[VendorOf(ask)]
        given(member) == IF instance = None THEN {} ELSE {instance[member]} \ {None}
        Set(variables) == {ask.env[v] : v \in ToSet(variables)} \ {None}
        keys == {wire.headers[h].key : h \in DOMAIN wire.headers \cap {Vendor[v].header : v \in DOMAIN Vendor}}
        places == {u \in given("base_url") \cup Set(vendor.urls) : u.text # ""}
    IN /\ trace.request = wire.body
       /\ heard.turns = Turns(ask.messages) /\ heard.schema = ask.structured
       /\ Spoken(heard.prompt) = Spoken(System(ask.messages))
       /\ wire.body.model = IF instance # None THEN instance.model ELSE Or(ask.call.model, ask.client.model)
       /\ \E k \in given("api_key") \cup Set(vendor.keys) : keys = {k.text}
       /\ \E u \in IF places = {} THEN {vendor.url} ELSE places :
            wire.uri.host = u.host /\ IsPrefix(u.prefix, wire.uri.path)

\* No more of a body than the limit is held, nothing is read of a body that
\* declares more, and a body over the limit never becomes a reply, an error
\* text or a record (exchange_once, http.rs:747-757).
WithinLimit ==
  /\ read > 0 => read <= provider.limit
  /\ response # None /\ response.declared > provider.limit => read = 0
  /\ response # None /\ outcome # None /\ response.size > provider.limit =>
       /\ outcome.kind \notin {"Answer", "NonAnswer"}
       /\ outcome.kind = "Api" =>
            outcome.message = Fixed /\ outcome.kept \in {<<>>, response.headers}
       /\ trace.response = None

\* A response is reported by its status alone: a failure that was read, or
\* was too long to read, is an API error with the status the retry policy
\* looks at, and no success is one (post, http.rs:600-614).
StatusDecides ==
  outcome # None =>
    /\ outcome.kind = "Api" => ~Success(response.status) /\ outcome.status = response.status
    /\ outcome.kind \in {"Answer", "NonAnswer", "ResponseTooLarge"} => Success(response.status)

\* The key is in nothing a failed attempt returns, nor in the stop reason
\* recorded for a non-answer, and a part of it is there only when the key did
\* not arrive as written (api_error, connection, screened).
KeyNotShown ==
  outcome # None /\ outcome.kind # "Answer" =>
    LET respelled(t) == \E i \in DOMAIN t : t[i] \in {"escaped", "tabbed"}
    IN  /\ ~Holds(outcome.message) /\ ~Holds(outcome.kept) /\ ~Holds(Optional(trace.finish))
        /\ (\E i \in DOMAIN outcome.message : outcome.message[i] = "part") =>
             \/ response # None /\ respelled(Raw(response.body))
             \/ \E f \in Failures : respelled(f.text) /\ outcome = Connection(f)

\* An answer is the text of a reply its vendor finished: nothing cut short,
\* no refusal of a Responses reply (openai.rs:594-603), and for an
\* interaction the last run of text after the last input (gemini.rs:421-432).
AnswersAreFinished ==
  outcome # None /\ outcome.kind = "Answer" =>
    LET b == response.body
    IN  /\ b.json /\ b.stop \in {None, Finished}
        /\ provider.api = "responses" => \A i \in DOMAIN b.output : b.output[i].kind = "answer" =>
             Refusals(Content(b.output[i])) = {}
        /\ provider.api = "interactions" => outcome.text = LastRun(AfterInput(b.output))

\* A reply that was read is in the trace, answer or not, and so is its stop
\* reason unless the key was found; an attempt that failed has the request it was
\* to make in the trace and no response (mod.rs:395-422).
TraceTells ==
  outcome # None =>
    /\ trace.request = Asked
    /\ (trace.response # None) =
         (outcome.kind \in {"Answer", "NonAnswer"} /\ response.body.json)
    /\ trace.response # None /\ trace.finish = None /\ IsReply(provider.api, response.body) =>
         \/ response.body.stop = None
         \/ outcome.kind = "NonAnswer" /\ outcome.message = Fixed
=============================================================================
