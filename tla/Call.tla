-------------------------------- MODULE Call ----------------------------------
(***************************************************************************)
(* From settings to a request: a client is configured and built            *)
(* (crates/sdk/src/client.rs, config.rs), questions are added and prepared *)
(* (question.rs, see Questions) or declared (see Derive), a call is given its own settings and sent *)
(* (request.rs, models.rs), and each attempt carries the headers that      *)
(* transport/mod.rs puts together and the body that request.rs encodes.    *)
(* What decides whether there is a next attempt is in Retry.  What the     *)
(* caller is told when the transport fails is searched for credentials     *)
(* (see Redact).                                                           *)
(*                                                                         *)
(* A text of the caller or of the environment knows what Python's strip()  *)
(* leaves of it and whether that took anything away.                       *)
(***************************************************************************)
EXTENDS Derive, Redact

CONSTANTS
  Environments,    \* what the variables may hold
  BuilderCalls,    \* calls of `ClientBuilder`
  QuestionCalls,   \* calls of `Questions`
  Structs,         \* structs that derive `QuestionSet`
  RequestCalls,    \* calls of `SystemOne` and `ListModels`
  States,          \* states to decide on
  Failures,        \* what a transport may fail with
  Letters,         \* the characters of keys and of callers' header values
  MaxCalls,        \* bound on the number of calls before a request is sent
  DefaultTimeout, DefaultMaxBytes, DefaultRetries,
  Never            \* no deadline

ASSUME CallAssumption ==
  /\ MaxCalls \in Nat
  /\ {DefaultTimeout, DefaultMaxBytes} \subseteq Nat \ {0}
  /\ DefaultRetries \in Nat

VARIABLES
  pc,        \* what the caller does: "building", "asking", "calling", "sending", "failed", "done"
  env,       \* the environment of the process
  said,      \* the calls made so far
  settings,  \* the `ClientBuilder`
  client,    \* the client built
  entries,   \* the `Questions` builder
  prepared,  \* the `PreparedQuestions`
  request,   \* the `SystemOne` or `ListModels`
  exchange,  \* what the attempts of the call send
  sent,      \* the request of the latest attempt
  told       \* of a call that failed: its headers, the error, and what is told of it

vars == <<pc, env, said, settings, client, entries, prepared, request, exchange, sent, told>>

-----------------------------------------------------------------------------
(* Settings. *)

Plain(text) == [text |-> text, pad |-> FALSE]
Unprintable == "unprintable"

\* `from_env`: a variable that is not blank, trimmed.
IsUtf8(v) == v = None \/ v.text # Unreadable
FromEnv(v) == IF v = None THEN None ELSE IF v.text = "" THEN None ELSE [v EXCEPT !.pad = FALSE]
Or(v, otherwise) == IF v = None THEN otherwise ELSE v

\* The first check that fails counts.
FirstOf(checks) == Refuse(None, FirstFailing(checks))

\* A setter replaces what was set; headers and certificates are collected.
Collected == {"default_headers", "extra_roots", "headers", "extra"}
Apply(builder, call) ==
  [builder EXCEPT ![call.set] =
     CASE call.set = "extra" -> Upsert(@, call.value)
       [] call.set \in Collected \ {"extra"} -> Append(@, call.value)
       [] OTHER -> call.value]

NewBuilder ==
  [api_key |-> None, base_url |-> None, default_model |-> None, timeout |-> None,
   default_headers |-> <<>>, max_response_bytes |-> None, extra_roots |-> <<>>,
   http_version |-> None, connect_timeout |-> None, retry |-> None,
   user_agent_product |-> None, send_runtime_header |-> TRUE]

NewRequest == [model |-> None, timeout |-> None, headers |-> <<>>, extra |-> <<>>, retry |-> None]

\* What can be said: a setter takes a value, a variable is absent or a text.
ASSUME CallsAssumption ==
  /\ \A call \in BuilderCalls : DOMAIN call = {"set", "value"} /\ call.set \in DOMAIN NewBuilder
  /\ \A call \in RequestCalls : DOMAIN call = {"set", "value"} /\ call.set \in DOMAIN NewRequest
  /\ \A call \in BuilderCalls \cup RequestCalls :
       call.value # None /\ (call.set = "retry" => call.value \in Nat)
  /\ \A call \in QuestionCalls : DOMAIN call = {"set", "name", "value"} /\ call.set = "question"
  /\ \A e \in Environments : \A v \in {e.api_key, e.base_url, e.default_model} :
       v = None \/ {"text", "pad"} \subseteq DOMAIN v
  /\ \A struct \in Structs : struct.fields \in Seq(ToSet(struct.fields))

-----------------------------------------------------------------------------
(* Headers: a value for each name, which has no case. *)

Sdk(what) == [sdk |-> what]
Bearer(key) == [key |-> key.text]
UserAgent(product) == [product |-> IF product = None THEN None ELSE product.name]
Count(n) == [count |-> n]

Protected == {"authorization", "accept", "user-agent", "x-typesafe-sdk", "x-typesafe-runtime"}
RetryCount == "x-typesafe-retry-count"
TransportHeaders == {"content-length", "transfer-encoding", "connection", "keep-alive",
                     "proxy-connection", "te", "trailer", "upgrade"}

\* Mutant: the count of retries is the caller's to set.
CountIsTheirs(name, withBody) ==
  \/ name \in Protected \cup TransportHeaders
  \/ withBody /\ name = "content-type"

IsSdkOwned(name, withBody) ==
  \/ name \in Protected
  \/ name = RetryCount
  \/ withBody /\ name = "content-type"
  \/ name \in TransportHeaders

\* `parse_header` takes a name and a value that HTTP takes.
Parses(headers) == \A i \in DOMAIN headers : headers[i].valid

\* The value set last for each name the caller may set.
Callers(headers, withBody) ==
  LET theirs == {i \in DOMAIN headers : ~IsSdkOwned(headers[i].name, withBody)}
  IN [n \in {headers[i].name : i \in theirs} |->
        headers[Max({i \in theirs : headers[i].name = n})].value]

\* What the SDK says of itself.
OwnHeaders(config, withBody) ==
  [n \in (Protected \ IF config.send_runtime_header THEN {} ELSE {"x-typesafe-runtime"})
         \cup (IF withBody THEN {"content-type"} ELSE {}) |->
     CASE n = "authorization"             -> config.authorization
       [] n \in {"accept", "content-type"} -> Sdk("json")
       [] n = "user-agent"                -> config.user_agent
       [] n = "x-typesafe-sdk"            -> Sdk("name")
       [] n = "x-typesafe-runtime"        -> Sdk("runtime")]

BaseHeaders(config, withBody) ==
  Over(OwnHeaders(config, withBody), Callers(config.default_headers, withBody))

-----------------------------------------------------------------------------
(* The client. *)

\* An explicit setting, even a blank one, is the setting.
Given(explicit, variable) == IF explicit = None THEN FromEnv(variable) ELSE explicit

\* The rules a value may break, the first of which is named.
Broken(rules, broken) == [i \in DOMAIN rules |-> <<rules[i] \in broken, rules[i]>>]
UrlRules == <<"fragment", "query", "url", "absolute", "scheme", "credentials", "host">>
ProductRules == <<"empty", "long", "ascii", "whitespace", "control", "no version", "slashes",
                  "no name", "version", "token">>

\* `build_with_service` refuses what configures the default transport.
ServiceChecks(b) ==
  <<<<b.extra_roots # <<>> \/ b.http_version # None \/ b.connect_timeout # None, "transport">>>>

\* `split` checks what only the builder can.
SplitChecks(b) ==
  <<<<b.connect_timeout = 0, "connect_timeout">>, <<~Parses(b.default_headers), "header">>>>

\* A variable is read only when it is needed, and must then be UTF-8.
NeedsUtf8(explicit, variable) == <<explicit = None /\ ~IsUtf8(variable), "utf-8">>

\* `validate_api_key`: a blank key is a missing one.
KeyChecks(key) == <<<<key.text = "", "no key">>, <<key.text = Unprintable, "key">>>>

\* `endpoints`: whitespace that nobody trims spoils a URL.
UrlChecks(url) ==
  IF url = None THEN <<<<TRUE, "no base URL">>>>
  ELSE Broken(UrlRules, url.broken \cup IF url.pad THEN {"url"} ELSE {})

\* `check_product`.
ProductChecks(product) ==
  IF product = None THEN <<>> ELSE Broken(ProductRules, product.broken)

\* `Config::resolve`, in its order.
ResolveChecks(b) ==
  <<NeedsUtf8(b.api_key, env.api_key)>> \o KeyChecks(Or(Given(b.api_key, env.api_key), Plain("")))
  \o <<NeedsUtf8(b.base_url, env.base_url)>> \o UrlChecks(Given(b.base_url, env.base_url))
  \o <<<<Or(b.default_model, Plain("model")).text = "", "model">>,
       NeedsUtf8(b.default_model, env.default_model),
       <<b.timeout = 0, "timeout">>,
       <<b.max_response_bytes = 0, "max_response_bytes">>>>
  \o ProductChecks(b.user_agent_product)

BuildChecks(b, transport) ==
  (IF transport = "service" THEN ServiceChecks(b) ELSE <<>>) \o SplitChecks(b) \o ResolveChecks(b)

\* The default transport speaks HTTP/2 to an https URL unless it is told otherwise.
Version(b, url) == Or(b.http_version, IF url.https THEN "http2" ELSE "auto")

Assemble(b, transport) ==
  LET url == Given(b.base_url, env.base_url) IN
  [authorization |-> Bearer(Given(b.api_key, env.api_key)),
   address |-> url.text,
   default_model |-> Given(b.default_model, env.default_model),
   timeout |-> Or(b.timeout, DefaultTimeout),
   default_headers |-> b.default_headers,
   max_response_bytes |-> Or(b.max_response_bytes, DefaultMaxBytes),
   user_agent |-> UserAgent(b.user_agent_product),
   send_runtime_header |-> b.send_runtime_header,
   retry |-> Or(b.retry, DefaultRetries),
   version |-> IF transport = "service" THEN None ELSE Version(b, url)]

-----------------------------------------------------------------------------
(* The body. *)

Named(members, n, otherwise) == IF Has(members, n) THEN LastOf(members, n) ELSE otherwise

ModelText(model) == IF model = None THEN None ELSE [json |-> "string", text |-> model]

ModelNamed == ModelText(Or(request.model, client.default_model))

\* What `encode` refuses: an extra member first, then the state, and last a call
\* nobody named a model for.
EncodeChecks(state) ==
  <<<<\E i \in DOMAIN request.extra : request.extra[i].value = Unencodable, "extra member">>,
    <<~Has(request.extra, "state") /\ state = Unencodable, "state">>,
    <<~Has(request.extra, "state") /\ state.json \notin {"string", "object", "array"}, "content">>,
    <<~Has(request.extra, "model") /\ ModelNamed = None, "no model">>>>

\* Mutant: an extra member is written after the SDK's own, whatever its name.
ExtraLast(state) ==
  Object(<<Member("state", state), Member("model", ModelNamed), Member("questions", prepared.json)>>
         \o request.extra)

Encode(state) ==
  LET OwnName == {"state", "model", "questions"}
      extra == request.extra
  IN Object(<<Member("state", Named(extra, "state", state)),
              Member("model", Named(extra, "model", ModelNamed)),
              Member("questions", Named(extra, "questions", prepared.json))>>
            \o Sift(extra, {i \in DOMAIN extra : extra[i].name \notin OwnName}))

\* What is left of a body that was handed over.
NoBytes == [json |-> "no bytes"]

-----------------------------------------------------------------------------
(* A program. *)

Init ==
  /\ pc = "building"
  /\ env \in Environments
  /\ said = <<>>
  /\ settings = NewBuilder
  /\ client = None
  /\ entries = <<>>
  /\ prepared = None
  /\ request = NewRequest
  /\ exchange = None
  /\ sent = None
  /\ told = None

Says(to, call) ==
  /\ Len(said) < MaxCalls
  /\ said' = Append(said, Over([to |-> to], call))

Configure(call) ==
  /\ pc = "building"
  /\ Says("client", call)
  /\ settings' = Apply(settings, call)
  /\ UNCHANGED <<pc, env, client, entries, prepared, request, exchange, sent, told>>

\* `build` or `build_with_service`.
Build(transport) ==
  /\ pc = "building"
  /\ IF Failing(BuildChecks(settings, transport)) = {}
       THEN /\ pc' = "asking"
            /\ client' = Assemble(settings, transport)
       ELSE /\ pc' = "done"
            /\ client' = FirstOf(BuildChecks(settings, transport))
  /\ settings' = NewBuilder
  /\ UNCHANGED <<env, said, entries, prepared, request, exchange, sent, told>>

\* What is to describe something becomes content before it is given to a question.
Ask(call) ==
  LET refused == {v \in Contents(call.value) \ {None} : IsRefused(ContentOf(v))} IN
  /\ pc = "asking"
  /\ Says("questions", call)
  /\ IF refused = {}
       THEN /\ entries' = Add(entries, call.name, call.value)
            /\ UNCHANGED <<pc, prepared>>
       ELSE /\ pc' = "done"
            /\ prepared' = ContentOf(CHOOSE v \in refused : TRUE)
            /\ entries' = <<>>
  /\ UNCHANGED <<env, settings, client, request, exchange, sent, told>>

PrepareQuestions ==
  /\ pc = "asking"
  /\ prepared' = Prepare(entries)
  /\ entries' = <<>>
  /\ pc' = IF IsRefused(prepared') THEN "done" ELSE "calling"
  /\ UNCHANGED <<env, said, settings, client, request, exchange, sent, told>>

\* A derived set is part of the program; one that is refused is no program.  What is
\* said is each attribute, as the question it means.
Means(field) ==
  LET attr == CHOOSE a \in ToSet(field.attrs) : a.path # "question"
      rename == {a \in ToSet(field.attrs) : a.path = "question"}
      Key(n) == KeyOr(attr.keys, n, None)
  IN [to |-> "questions", set |-> "field",
      name |-> IF rename = {} THEN field.member
              ELSE (CHOOSE a \in rename : TRUE).keys[1].value.text,
      value |->
        CASE attr.path = "noul" -> Noul(Key("instructions"), Key("yes"), Key("no"))
          [] attr.path = "choice" ->
               Choice(Key("instructions"),
                 [i \in DOMAIN Key("options").items |->
                    Member(Key("options").items[i].label.text, Key("options").items[i].description)])
          [] attr.path = "score" -> Score(Key("instructions"), Key("levels").items)]

Declare(struct) ==
  /\ pc = "asking"
  /\ \A i \in DOMAIN said : said[i].to = "client"
  /\ prepared' = Expand(struct)
  /\ IF IsRefused(prepared')
       THEN pc' = "done" /\ said' = said
       ELSE pc' = "calling" /\ said' = said \o [i \in DOMAIN struct.fields |-> Means(struct.fields[i])]
  /\ UNCHANGED <<env, settings, client, entries, request, exchange, sent, told>>

SetOption(call) ==
  /\ pc = "calling"
  /\ Says("request", call)
  /\ request' = Apply(request, call)
  /\ UNCHANGED <<pc, env, settings, client, entries, prepared, exchange, sent, told>>

\* `Deadline::resolve`.
Deadline == Or(request.timeout, client.timeout)

\* The checks both calls make before anything is sent, in their order.
SendChecks == <<<<request.timeout = 0, "timeout">>, <<~Parses(request.headers), "header">>>>

Start(checks, withBody, body) ==
  /\ pc = "calling"
  /\ IF Failing(SendChecks \o checks) = {}
       THEN /\ pc' = "sending"
            /\ LET retries == Or(request.retry, client.retry) IN
               exchange' = [with_body |-> withBody, headers |-> request.headers,
                            deadline |-> Deadline, body |-> body, retry |-> 0,
                            retries |-> retries, retain |-> retries > 0]
       ELSE /\ pc' = "done"
            /\ exchange' = FirstOf(SendChecks \o checks)
  /\ UNCHANGED <<env, said, settings, client, entries, prepared, request, sent, told>>

\* `SystemOne::send`.
SendSystemOne(state) == Start(EncodeChecks(state), TRUE, Encode(state))

\* `ListModels::send`, which has neither a model nor members to name.
SendList ==
  /\ request.model = None
  /\ request.extra = <<>>
  /\ Start(<<>>, FALSE, None)

\* A call that cannot retry gives its one attempt the body itself.
Takes(x) == ~x.retain

\* One attempt, the first or one that Retry allows.
Attempt ==
  /\ pc = "sending"
  /\ exchange.retry <= exchange.retries
  /\ sent' = [address |-> client.address,
              headers |-> Over([n \in (IF exchange.retry > 0 THEN {RetryCount} ELSE {}) |->
                                  Count(exchange.retry)],
                          Over(Callers(exchange.headers, exchange.with_body),
                               BaseHeaders(client, exchange.with_body))),
              deadline |-> exchange.deadline,
              limit |-> client.max_response_bytes,
              body |-> exchange.body]
  /\ exchange' = [exchange EXCEPT !.retry = @ + 1,
                                  !.body = IF @ # None /\ Takes(exchange) THEN NoBytes ELSE @]
  /\ UNCHANGED <<pc, env, said, settings, client, entries, prepared, request, told>>

\* The value of a header that a caller or the client's key gave it.
Spelled(text) == IF text \in DOMAIN Letters THEN Letters[text] ELSE <<>>
ValueText(value) ==
  CASE "key" \in DOMAIN value    -> <<"B", "space">> \o Spelled(value.key)
    [] "theirs" \in DOMAIN value -> Spelled(value.theirs)
    [] OTHER -> <<>>

\* What the headers of a call may hold: none of what the SDK puts into a message
\* in a secret's place and no line break, which HTTP refuses; and no form of a
\* secret is a lone quotation mark, in which `{:?}` puts every text.
HeaderTexts ==
  LET written == {Letters[text] : text \in DOMAIN Letters} \cup {<<>>}
  IN written \cup {<<"B", "space">> \o text : text \in written}
Writing == Characters \ {"*", "...", "withheld", "newline"}

ASSUME SecretsAssumption ==
  \A text \in HeaderTexts :
    /\ text \in Seq(Writing)
    /\ <<"quote">> \notin FormsOf(text) \cup FormsOf(AfterScheme(text))

\* What a transport fails with: texts, and how each link prints.
Texts == Seq(Characters)
Links == [display : Texts, debug : Texts, alternate : Texts]

ASSUME FailuresAssumption ==
  \A failure \in Failures :
    /\ failure = [kind |-> failure.kind, message |-> failure.message, chain |-> failure.chain]
    /\ failure.message \in Texts /\ failure.chain \in Seq(Links)

HeadersOf(map) ==
  {[name |-> n, value |-> ValueText(map[n]), sensitive |-> "key" \in DOMAIN map[n]] : n \in DOMAIN map}

\* The transport fails the last attempt.  What is left of the call are the headers
\* it was made from, those of the client that a header of the call replaced included.
Fail(failure) ==
  /\ pc = "sending" /\ sent # None
  /\ exchange.retry > exchange.retries
  /\ pc' = "failed"
  /\ told' = [headers |-> HeadersOf(BaseHeaders(client, exchange.with_body))
                         \cup HeadersOf(Callers(exchange.headers, exchange.with_body)),
              error |-> Connection(failure), shown |-> None]
  /\ said' = <<>> /\ client' = None /\ prepared' = None
  /\ request' = NewRequest /\ exchange' = None /\ sent' = None
  /\ UNCHANGED <<env, settings, entries>>

\* The error the caller gets.
Tell ==
  /\ pc = "failed"
  /\ pc' = "done"
  /\ told' = [told EXCEPT !.shown = Redacted(told.error, Credentials(told.headers))]
  /\ UNCHANGED <<env, said, settings, client, entries, prepared, request, exchange, sent>>

Next ==
  \/ \E call \in BuilderCalls : Configure(call)
  \/ \E transport \in {"hyper", "service"} : Build(transport)
  \/ \E call \in QuestionCalls : Ask(call)
  \/ PrepareQuestions
  \/ \E struct \in Structs : Declare(struct)
  \/ \E call \in RequestCalls : SetOption(call)
  \/ \E state \in States : SendSystemOne(state)
  \/ SendList
  \/ Attempt
  \/ \E failure \in Failures : Fail(failure)
  \/ Tell

Spec == Init /\ [][Next]_vars

-----------------------------------------------------------------------------
(* Properties: what the caller said, read from the calls themselves.        *)

Sayings(to, set) == {i \in DOMAIN said : said[i].to = to /\ said[i].set = set}

\* Those that name a header or a member.
Naming(to, set, name) == {i \in Sayings(to, set) : said[i].value.name = name}

\* What was said last, or else what goes for it.
Wanted(to, set, otherwise) ==
  LET all == Sayings(to, set) IN IF all = {} THEN otherwise ELSE said[Max(all)].value

\* The value a caller gave a header last: on the call, else on the client.
Wished(name) ==
  LET nearest == IF Naming("request", "headers", name) = {}
                   THEN Naming("client", "default_headers", name)
                   ELSE Naming("request", "headers", name)
  IN said[Max(nearest)].value.value

\* Every request says truthfully who sends it, with the key of the client, and
\* which attempt it is, whatever headers its caller set and in whatever order;
\* its framing is the transport's; and any other header is the one the caller
\* set last, the call's before the client's (transport/mod.rs:210-287).
IdentityKept ==
  sent # None =>
    LET headers == sent.headers
        post == exchange.with_body
        product == Wanted("client", "user_agent_product", None)
        key == Wanted("client", "api_key", env.api_key)
        count == exchange.retry - 1
        Carries(name, value) == name \in DOMAIN headers /\ headers[name] = value
    IN /\ Carries("authorization", [key |-> key.text])
       /\ Carries("accept", Sdk("json"))
       /\ Carries("x-typesafe-sdk", Sdk("name"))
       /\ Carries("user-agent", [product |-> IF product = None THEN None ELSE product.name])
       /\ IF Wanted("client", "send_runtime_header", TRUE)
            THEN Carries("x-typesafe-runtime", Sdk("runtime"))
            ELSE "x-typesafe-runtime" \notin DOMAIN headers
       /\ IF count = 0 THEN RetryCount \notin DOMAIN headers ELSE Carries(RetryCount, Count(count))
       /\ post => Carries("content-type", Sdk("json"))
       /\ DOMAIN headers \cap TransportHeaders = {}
       /\ \A i \in DOMAIN said :
            said[i].set \in {"headers", "default_headers"} =>
              LET name == said[i].value.name IN
              ~IsSdkOwned(name, post) => Carries(name, Wished(name))

\* What a call is sent with is what was last said about it: an extra member of its
\* body, the request's own setting, the client's, the environment's, in this
\* order; no member of the body comes twice; and a retry sends the whole body
\* again (request.rs:264-384, config.rs:77-166).
SettingsTell ==
  sent # None =>
    LET clientModel == Wanted("client", "default_model", FromEnv(env.default_model))
        model == Wanted("request", "model", clientModel)
        extras == {said[i].value.name : i \in Sayings("request", "extra")}
        LastExtra(n) == said[Max(Naming("request", "extra", n))].value.value
    IN /\ sent.deadline = Wanted("request", "timeout", Wanted("client", "timeout", DefaultTimeout))
       /\ sent.limit = Wanted("client", "max_response_bytes", DefaultMaxBytes)
       /\ sent.address = Wanted("client", "base_url", env.base_url).text
       /\ exchange.with_body =>
            /\ sent.body.json = "object"
            /\ LET members == sent.body.members IN
               /\ \A i, j \in DOMAIN members : members[i].name = members[j].name => i = j
               /\ \A n \in extras : Has(members, n) /\ LastOf(members, n) = LastExtra(n)
               /\ Has(members, "model")
               /\ "model" \in extras \/ LastOf(members, "model").text = model
               /\ "questions" \in extras \/ LastOf(members, "questions") = prepared.json

\* The question given last under a name.
LastAsked(n) ==
  said[Max({i \in DOMAIN said : said[i].to = "questions" /\ said[i].name = n})].value

\* The outcomes a question of a kind of the SDK has, with what was said of them last.
Described(question) ==
  LET LastSaid(label) == CHOOSE i \in DOMAIN question.said :
        /\ question.said[i].name = label
        /\ \A j \in DOMAIN question.said : question.said[j].name = label => j <= i
  IN CASE question.kind = "noul" -> {}
       [] question.kind = "choice" ->
            {[label |-> question.said[i].name,
              description |-> question.said[LastSaid(question.said[i].name)].value] :
               i \in DOMAIN question.said}
       [] question.kind = "score" ->
            {[label |-> ToString(i - 1), description |-> question.levels[i]] :
               i \in DOMAIN question.levels}

\* A prepared set reads back as what was asked: the adapter finds the names the
\* set hands out, each once and in the order they were first given, and under
\* each the question given last, with its outcomes as they were last described;
\* it takes every set whose questions are all of the SDK's kinds and have outcomes
\* to decide between; and a derived set is the one the builder prepares from the
\* same questions, which it does not refuse (question.rs:367-429, 844-936;
\* macros parse.rs, json.rs; adapter model.rs).
QuestionsReread ==
  prepared # None /\ ~IsRefused(prepared) =>
    LET asked == {call.name : call \in {c \in {said[i] : i \in DOMAIN said} : c.to = "questions"}}
        typed == {n \in asked : LastAsked(n).kind # "raw"}
        read == FromJson(prepared.json)
        declared == Sayings("questions", "field") # {}
        fields == SelectSeq(said, LAMBDA call : call.set = "field")
        First(n) == CHOOSE i \in DOMAIN said :
          /\ said[i].to = "questions" /\ said[i].name = n
          /\ \A j \in 1..(i - 1) : ~(said[j].to = "questions" /\ said[j].name = n)
    IN /\ ToSet(prepared.names) = asked
       /\ \A i, j \in DOMAIN prepared.names :
            i < j => First(prepared.names[i]) < First(prepared.names[j])
       /\ IF declared
            THEN prepared = [Prepare(FoldLeft(LAMBDA all, call : Add(all, call.name, call.value), <<>>, fields))
                             EXCEPT !.max_levels = 0]
            ELSE \A n \in typed : LastAsked(n).kind = "score" =>
                   Len(LastAsked(n).levels) <= prepared.max_levels
       /\ IsRefused(read) =>
            \E n \in asked :
              \/ n \notin typed
              \/ LastAsked(n).kind # "noul" /\ Cardinality(Described(LastAsked(n))) < 2
       /\ ~IsRefused(read) =>
            /\ [i \in DOMAIN read.questions |-> read.questions[i].id] = prepared.names
            /\ \A i \in DOMAIN read.questions :
                 LET question == read.questions[i] IN
                 question.id \in typed =>
                   /\ question.kind = LastAsked(question.id).kind
                   /\ ToSet(question.outcomes) = Described(LastAsked(question.id))

\* The secrets of a request, as they are given and as a server reads them, which
\* reads no blank one.
Secrets(headers) ==
  LET secret == {h \in headers : IsSecret(h)}
      schemed == {h \in secret : h.name \in {"authorization", "proxy-authorization"}}
      values == {h.value : h \in secret} \cup {AfterScheme(h.value) : h \in schemed}
      hidden == {value \in values : Trimmed(value) # <<>>}
  IN hidden \cup {Trimmed(value) : value \in hidden}

\* Escaped on the way into an error, and once more as that is printed.
Spellings(text) ==
  {Escaped(Escaped(text, one), two) : one \in {{}, ByDebug, ByChar, ByHeader}, two \in {{}, ByDebug}}

\* Whatever a caller can print of an error, the lines of a cause pushed in included.
PushedPieces(text) ==
  [i \in DOMAIN text |-> IF text[i] = "newline" THEN <<"newline", "space">> ELSE <<text[i]>>]
Pushed(text) == Flat(PushedPieces(text))
Prints(link) == {link.display, link.debug, link.alternate, Pushed(link.alternate)}
Renderings(error) ==
  {error.message, Debug(error.message)} \cup UNION {Prints(error.chain[i]) : i \in DOMAIN error.chain}

\* A message made anew that shows a text up to some place, and is cut there.
ShowsUpto(message, text, n) == message = SubSeq(text, 1, n) \o Ellipsis

\* What a message shows of a chain before a place in a link.
Before(chain, k, j) ==
  Flat(Render(Append(SubSeq(chain, 1, k - 1),
                     [chain[k] EXCEPT !.display = SubSeq(chain[k].display, 1, j - 1)])))

\* No secret of a request is in what a caller can print of the connection error it
\* failed with, in any spelling; an error that spells none is the transport's own,
\* which a caller can downcast, unless its chain is too long to be looked through;
\* and a message made anew that was cut shows no part of a secret: what it shows
\* unchanged of the links, or of their copies, ends before any (redact.rs:63-292,
\* transport/mod.rs:507-706).
CredentialsHidden ==
  told # None /\ pc = "done" =>
    LET spelled == UNION {Spellings(text) : text \in Secrets(told.headers)}
        Clean(error) == \A text \in Renderings(error) : ~OccurIn(spelled, text)
        error == told.error
        shown == told.shown
        whole == Flat(Render(error.chain))
        copied == Flat(Render(shown.chain))
    IN IF error.kind = "connection"
         THEN /\ Clean(shown)
              /\ Clean(error) /\ Len(error.chain) <= MaxScanned => shown = error
              /\ shown.chain # error.chain =>
                   \A form \in spelled :
                     /\ \A n \in DOMAIN whole : ShowsUpto(shown.message, whole, n) =>
                          \A k \in 1..Min({MaxShown, Len(error.chain)}) :
                            \A j \in DOMAIN error.chain[k].display :
                              OccursAt(form, error.chain[k].display, j) =>
                                n <= Len(Before(error.chain, k, j))
                     /\ \A n \in DOMAIN copied : ShowsUpto(shown.message, copied, n) =>
                          \A i \in 1..n : ~OccursAt(form, copied, i)
         ELSE shown = error
===========================================================================
