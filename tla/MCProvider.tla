----------------------------- MODULE MCProvider -----------------------------
(* Instances of Provider for TLC. *)
EXTENDS Provider

W == "word"
MkBody(stop, why, message, rest, output) ==
  [stop |-> stop, why |-> why, message |-> message, rest |-> rest, output |-> output,
   json |-> TRUE, shape |-> TRUE, counts |-> TRUE]
MkResponse(status, headers, declared, size, body) ==
  [api |-> None, status |-> status, headers |-> headers, declared |-> declared, size |-> size, body |-> body]

Item(kind, id) == [kind |-> kind, id |-> id]
Step(kind, content) == [kind |-> kind, content |-> content]

\* A text follows `before` words: alone, across the cut, or past it.
Spelled(before) ==
  {[i \in 1..n |-> W] \o <<token>> : n \in before, token \in {W, "key", "escaped", "tabbed"}}

\* Failures: the message and the rest of the body, the headers, the length.
Errors ==
  {MkResponse(503, headers, declared, size, MkBody(None, None, message, rest, <<>>)) :
     headers \in {<<>>, <<"key">>, <<"tabbed">>}, declared \in {0, 3}, size \in {3},
     message \in {None}, rest \in {<<W>>, <<"key">>}}
  \cup
  {MkResponse(503, headers, 0, 2, MkBody(None, None, message, rest, <<>>)) :
     headers \in {<<>>, <<"key">>, <<"tabbed">>},
     message \in {None, <<>>} \cup Spelled({0, 3, 4, 5}), rest \in {<<>>, <<"key">>, <<"escaped">>}}

OneText == <<Step("answer", <<Item("text", <<1, 1>>)>>)>>

\* Success responses that say why they stopped.
Stops(whys) ==
  {MkResponse(200, <<>>, 0, 2, MkBody(stop, why, None, rest, OneText)) :
     stop \in {None, Finished, CutShort} \cup Spelled({0, 2, 3, 4}), why \in whys,
     rest \in {<<>>, <<"key">>}}

\* Success responses with nothing to read, or too much.
Odd ==
  LET b == MkBody(Finished, None, None, <<>>, OneText)
  IN  {MkResponse(200, <<>>, 0, 2, [b EXCEPT !.json = FALSE]),
       MkResponse(200, <<>>, 0, 2, [b EXCEPT !.shape = FALSE]),
       MkResponse(200, <<>>, 0, 2, [b EXCEPT !.counts = FALSE]),
       MkResponse(200, <<>>, 0, 3, b), MkResponse(200, <<>>, 3, 3, b)}

Outputs(outputs) ==
  {MkResponse(200, <<>>, 1, 1, MkBody(Finished, None, None, <<>>, output)) : output \in outputs}

\* The contents of the i-th step, of at most two items of these kinds.
Contents(i, kinds) ==
  {None, <<>>} \cup {<<Item(k, <<i, 1>>)>> : k \in kinds}
  \cup {<<Item(k, <<i, 1>>), Item(l, <<i, 2>>)>> : k \in kinds, l \in kinds}
StepsAt(i, kinds) ==
  {Step("input", None), Step("other", None)} \cup {Step("answer", c) : c \in Contents(i, kinds)}

Interactions ==
  LET kinds == {"text", "bare", "other"}
  IN  {<<>>} \cup {<<s>> : s \in StepsAt(1, kinds)}
      \cup {<<s, t>> : s \in StepsAt(1, kinds), t \in StepsAt(2, kinds)}
      \cup {<<s, t, u>> : s \in StepsAt(1, {"text"}), t \in StepsAt(2, {"text", "other"}),
                          u \in StepsAt(3, {"text"})}
ResponseOutputs ==
  LET steps(i) == {Step("other", None)}
                  \cup {Step("answer", c) : c \in Contents(i, {"text", "bare", "refusal"})}
  IN  {<<>>} \cup {<<s, t>> : s \in steps(1), t \in steps(2)}
ChatOutputs ==
  LET choices(i) == {Step("answer", None), Step("answer", <<Item("text", <<i, 1>>)>>)}
  IN  {<<>>} \cup {<<c, d>> : c \in choices(1), d \in choices(2)}
MessageContents == {<<Step("answer", c)>> : c \in Contents(1, {"text", "bare", "other"})}

Answers(a) ==
  Errors \cup Odd
  \cup CASE a = "responses" -> Stops({None} \cup Spelled({0, 2})) \cup Outputs(ResponseOutputs)
         [] a = "chat_completions" -> Stops({None}) \cup Outputs(ChatOutputs)
         [] a = "messages" -> Stops({None}) \cup Outputs(MessageContents)
         [] a = "interactions" -> Stops({None}) \cup Outputs(Interactions)

MCResponses ==
  {[p[2] EXCEPT !.api = p[1]] : p \in UNION {{a} \X Answers(a) : a \in Apis}}

MCFailures ==
  {[text |-> t, ours |-> FALSE, short |-> TRUE] : t \in Spelled({0, 4})}
  \cup {[text |-> <<t>>, ours |-> o, short |-> s] : t \in {W, "key"}, o \in BOOLEAN, s \in BOOLEAN}
-----------------------------------------------------------------------------
(* What is asked. *)

Value(text) == [text |-> text]
Env(pairs) == pairs @@ [OPENAI_API_KEY |-> Value("openai key"), OPENAI_BASE_URL |-> None,
                        ANTHROPIC_API_KEY |-> Value("anthropic key"), ANTHROPIC_BASE_URL |-> Value(""),
                        GOOGLE_API_KEY |-> Value(""), GEMINI_API_KEY |-> Value("gemini key")]
Mine == [Url("mine") EXCEPT !.prefix = <<"proxy">>, !.port = 443]

Say(role, content) == [role |-> role, content |-> content]
First == <<Say("system", "rules"), Say("user", "document")>>
Corrected == First \o <<Say("assistant", "reply"), Say("user", "problems")>>
Loose == <<Say("user", "document"), Say("system", "rules"), Say("assistant", ""), Say("system", "more")>>

NoTarget == [provider |-> None, model |-> None, instance |-> None]
Named(vendor, model) == [provider |-> vendor, model |-> model, instance |-> None]
Instance(b) == [NoTarget EXCEPT !.instance = b]
Case(client, call, env, messages, structured) ==
  [client |-> client, call |-> call, env |-> env, messages |-> messages, structured |-> structured]

\* Calls whose provider is built: each vendor's, by name and as an instance.
Sound ==
  {Case(Named("openai", "m"), NoTarget, Env(<<>>), First, TRUE),
   Case(Named("openai", "m"), Named(None, "n"), Env("OPENAI_BASE_URL" :> Mine), Corrected, TRUE),
   Case(Instance([NewBuilder("openai", "i") EXCEPT !.base_url = Mine, !.api = "responses"]),
        NoTarget, Env("OPENAI_BASE_URL" :> Url("other")), Corrected, FALSE),
   Case(Instance(NewBuilder("openai", "i")), Named("anthropic", "n"), Env(<<>>), Loose, TRUE),
   Case(Named("openai", "m"), Named("gemini", None), Env(<<>>), Loose, FALSE),
   Case(Instance(NewBuilder("openai", "i")),
        Instance([NewBuilder("gemini", "j") EXCEPT !.api_key = Value("mine"), !.base_url = Mine]),
        Env("GEMINI_API_KEY" :> None), Corrected, TRUE)}

\* Calls that name no provider, or one that is refused.
RefusedBuilders ==
  LET Own(v) == [NewBuilder(v, "m") EXCEPT !.service = TRUE] IN
  UNION {{[Own(v) EXCEPT !.timeout = 0], [Own(v) EXCEPT !.max_response_bytes = 0],
          [Own(v) EXCEPT !.max_tokens = 0, !.api_key = Value("")],
          [Own(v) EXCEPT !.api_key = Value(Unsendable), !.base_url = [Mine EXCEPT !.broken = {"host", "query"}]],
          [Own(v) EXCEPT !.extra_roots = {"certificate"}, !.timeout = 0],
          [NewBuilder(v, "m") EXCEPT !.extra_roots = {"certificate", "not a certificate"}]} : v \in DOMAIN Vendor}

MCAsks ==
  Sound
  \cup {Case(Instance(b), NoTarget, Env(<<>>), First, TRUE) : b \in RefusedBuilders}
  \cup {Case(NoTarget, NoTarget, Env(<<>>), First, TRUE), Case(NoTarget, Named(None, "n"), Env(<<>>), First, TRUE),
        Case(Named("openai", "m"), NoTarget, Env("OPENAI_BASE_URL" :> [Mine EXCEPT !.text = Unreadable]), First, TRUE),
        Case(Named("gemini", "m"), NoTarget, Env("GOOGLE_API_KEY" :> Value(Unreadable)), First, TRUE),
        Case(Named("openai", "m"), NoTarget, Env("OPENAI_API_KEY" :> None), First, TRUE)}
=============================================================================
