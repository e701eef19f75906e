------------------------------- MODULE Vendors -------------------------------
(***************************************************************************)
(* How a built-in provider comes to be and what it asks: which provider a  *)
(* call goes to (crates/adapter/src/client.rs), the settings its builder   *)
(* checks and where its requests go (provider/openai.rs, anthropic.rs,     *)
(* gemini.rs, factory.rs and http.rs), and the body of a request for each  *)
(* of the four vendor APIs.                                                *)
(*                                                                         *)
(* A key, a URL and a variable's value are records with a text; a system   *)
(* prompt is the sequence of the texts it joins.                           *)
(***************************************************************************)
EXTENDS Replies

CONSTANT DefaultLimit  \* DEFAULT_MAX_RESPONSE_BYTES

Or(v, otherwise) == IF v = None THEN otherwise ELSE v

\* A value that is not UTF-8, and a key no header can hold.
Unreadable == "unreadable"
Unsendable == "unsendable"

Refused(why) == [refused |-> why]
IsRefused(p) == "refused" \in DOMAIN p

Url(host) == [text |-> host, scheme |-> "https", host |-> host, port |-> None, prefix |-> <<>>, broken |-> {}]
OpenAiHost == "api.openai.com"

Only(name, value) == [n \in {name} |-> value]

OpenAi ==
  [keys |-> <<"OPENAI_API_KEY">>, urls |-> <<"OPENAI_BASE_URL">>,
   url |-> [Url(OpenAiHost) EXCEPT !.prefix = <<"v1">>],
   header |-> "authorization", bearer |-> TRUE, fixed |-> <<>>]
Anthropic ==
  [keys |-> <<"ANTHROPIC_API_KEY">>, urls |-> <<"ANTHROPIC_BASE_URL">>,
   url |-> Url("api.anthropic.com"),
   header |-> "x-api-key", bearer |-> FALSE, fixed |-> Only("anthropic-version", "2023-06-01")]
Gemini ==
  [keys |-> <<"GOOGLE_API_KEY", "GEMINI_API_KEY">>, urls |-> <<>>,
   url |-> Url("generativelanguage.googleapis.com"),
   header |-> "x-goog-api-key", bearer |-> FALSE, fixed |-> <<>>]
Vendor == [openai |-> OpenAi, anthropic |-> Anthropic, gemini |-> Gemini]

\* The path under the base URL, and the one a log names.
Paths(api) ==
  CASE api = "responses" -> [wire |-> <<"responses">>, log |-> <<"v1", "responses">>]
    [] api = "chat_completions" ->
         [wire |-> <<"chat", "completions">>, log |-> <<"v1", "chat", "completions">>]
    [] api = "messages" -> [wire |-> <<"v1", "messages">>, log |-> <<"v1", "messages">>]
    [] api = "interactions" ->
         [wire |-> <<"v1beta", "interactions">>, log |-> <<"v1beta", "interactions">>]

-----------------------------------------------------------------------------
(* The builder's settings. *)

NewBuilder(vendor, model) ==
  [vendor |-> vendor, model |-> model, api_key |-> None, base_url |-> None, api |-> None,
   max_tokens |-> 4096, timeout |-> None, max_response_bytes |-> None,
   extra_roots |-> {}, service |-> FALSE]

\* The value of the first of some variables that is set and not empty.
FirstSet(env, variables) ==
  LET set == {i \in DOMAIN variables : env[variables[i]] # None /\ env[variables[i]].text # ""} IN
  IF set = {} THEN None ELSE env[variables[CHOOSE i \in set : \A j \in set : i <= j]]

KeyOf(b, env) == Or(b.api_key, FirstSet(env, Vendor[b.vendor].keys))
UrlOf(b, env) == Or(Or(b.base_url, FirstSet(env, Vendor[b.vendor].urls)), Vendor[b.vendor].url)

\* Checks, in their order: pairs of what is wrong and how it is reported.
LimitChecks(b) ==
  <<<<b.timeout = 0, "timeout">>, <<b.max_response_bytes = 0, "max_response_bytes">>>>

\* `key_header`; a variable that is read must be UTF-8.
KeyChecks(key) ==
  <<<<key = None, "no key">>,
    <<key # None /\ key.text = Unreadable, "utf-8">>,
    <<key # None /\ key.text = "", "empty key">>,
    <<key # None /\ key.text = Unsendable, "key">>>>

\* `BaseUrl::parse` names the first rule that is broken.
UrlRules == <<"fragment", "query", "url", "absolute", "scheme", "credentials", "host">>
UrlChecks(url) ==
  <<<<url.text = Unreadable, "utf-8">>>>
  \o [i \in DOMAIN UrlRules |-> <<UrlRules[i] \in url.broken, UrlRules[i]>>]

\* A service of the caller's own has no use for roots; the default transport
\* takes certificates only.
ServiceChecks(b) == <<<<b.service /\ b.extra_roots # {}, "roots">>>>
TransportChecks(b) == <<<<~b.service /\ "not a certificate" \in b.extra_roots, "certificate">>>>

\* `settle`, `settings` and `provider` make the same checks, each in an order of its own.
OpenAiChecks(b, key, url) ==
  LimitChecks(b) \o KeyChecks(key) \o UrlChecks(url) \o ServiceChecks(b) \o TransportChecks(b)
AnthropicChecks(b, key, url) ==
  ServiceChecks(b) \o <<<<b.max_tokens = 0, "max_tokens">>>> \o LimitChecks(b)
  \o KeyChecks(key) \o UrlChecks(url) \o TransportChecks(b)
GeminiChecks(b, key, url) ==
  ServiceChecks(b) \o KeyChecks(key) \o UrlChecks(url) \o LimitChecks(b) \o TransportChecks(b)

Checks(b, key, url) ==
  CASE b.vendor = "openai" -> OpenAiChecks(b, key, url)
    [] b.vendor = "anthropic" -> AnthropicChecks(b, key, url)
    [] b.vendor = "gemini" -> GeminiChecks(b, key, url)

\* `default_api`: OpenAI's own host speaks Responses, any other the older API.
ApiOf(b, url) ==
  CASE b.vendor = "openai" ->
         Or(b.api, IF url.host = OpenAiHost THEN "responses" ELSE "chat_completions")
    [] b.vendor = "anthropic" -> "messages"
    [] b.vendor = "gemini" -> "interactions"

\* `BaseUrl::endpoint`: the log names the fixed path, and no port of the scheme's own.
Endpoint(url, api) ==
  LET own == IF url.scheme = "https" THEN 443 ELSE 80
      Uri(port, path) == [scheme |-> url.scheme, host |-> url.host, port |-> port, path |-> path]
  IN [wire |-> Uri(url.port, url.prefix \o Paths(api).wire),
      log |-> Uri(IF url.port = own THEN None ELSE url.port, Paths(api).log)]

\* `request_headers`, and the fixed ones of a vendor.
Headers(vendor, key) ==
  Over(Only(vendor.header, [bearer |-> vendor.bearer, key |-> key.text]),
       Over(vendor.fixed,
            [h \in {"content-type", "accept", "user-agent"} |->
               IF h = "user-agent" THEN "adapter" ELSE "json"]))

\* `build` and `build_with_service`: the first thing that is wrong is reported.
Settle(b, env) ==
  LET url == UrlOf(b, env)
      checks == Checks(b, KeyOf(b, env), url)
  IN IF Failing(checks) # {} THEN Refused(FirstFailing(checks))
     ELSE [api |-> ApiOf(b, url), model |-> b.model, max_tokens |-> b.max_tokens,
           endpoint |-> Endpoint(url, ApiOf(b, url)),
           headers |-> Headers(Vendor[b.vendor], KeyOf(b, env)),
           limit |-> Or(b.max_response_bytes, DefaultLimit)]

\* Mutant: the client's instance is asked although the call names a model.
ResolveInstanceFirst(client, call) ==
  LET model == Or(call.model, client.model)
      provider == Or(call.provider, client.provider)
  IN IF Or(call.instance, client.instance) # None THEN Or(call.instance, client.instance)
     ELSE IF model = None THEN Refused("no model")
     ELSE IF provider = None THEN Refused("no provider")
     ELSE NewBuilder(provider, model)

\* `Client::resolve`: a call's own instance or model goes before its client's, and
\* `factory::build` sets nothing but the model.
Resolve(client, call) ==
  LET model == Or(call.model, client.model)
      provider == Or(call.provider, client.provider)
  IN IF call.instance # None THEN call.instance
     ELSE IF call.model = None /\ client.instance # None THEN client.instance
     ELSE IF model = None THEN Refused("no model")
     ELSE IF provider = None THEN Refused("no provider")
     ELSE NewBuilder(provider, model)

-----------------------------------------------------------------------------
(* The body of a request. *)

IsSystem(message) == message.role = "system"
System(messages) ==
  LET system == Sift(messages, {i \in DOMAIN messages : IsSystem(messages[i])})
  IN  [i \in DOMAIN system |-> system[i].content]
Turns(messages) == Sift(messages, {i \in DOMAIN messages : ~IsSystem(messages[i])})

\* What a joined prompt spells: the joint is no text of its own only if there is none.
IsEmpty(prompt) == prompt \in {<<>>, <<"">>}

\* Responses: a JSON mode wants the prompt inside the input.
ResponsesBody(messages, schema) ==
  IF schema = None
    THEN [input |-> messages, instructions |-> None, format |-> "json_object", store |-> FALSE]
    ELSE [input |-> Turns(messages), instructions |-> System(messages),
          format |-> schema, store |-> FALSE]

ChatBody(messages, schema) == [messages |-> messages, response_format |-> schema]

MessagesBody(messages, schema) ==
  [system |-> System(messages), messages |-> Turns(messages), output_config |-> schema]

StepKind == [user |-> "user_input", assistant |-> "model_output"]

InteractionBody(messages, schema) ==
  LET turns == Turns(messages) IN
  [input |-> [i \in DOMAIN turns |-> [kind |-> StepKind[turns[i].role], text |-> turns[i].content]],
   store |-> FALSE,
   system_instruction |-> IF IsEmpty(System(messages)) THEN None ELSE System(messages),
   response_format |-> schema]

\* A prompted model is told the schema in its prompt, and the request has none.
BodyOf(provider, messages, structured) ==
  LET schema == IF structured THEN "schema" ELSE None IN
  Over([model |-> provider.model],
       CASE provider.api = "responses" -> ResponsesBody(messages, schema)
         [] provider.api = "chat_completions" -> ChatBody(messages, schema)
         [] provider.api = "messages" ->
              Over([max_tokens |-> provider.max_tokens], MessagesBody(messages, schema))
         [] provider.api = "interactions" -> InteractionBody(messages, schema))
==============================================================================
