-------------------------------- MODULE MCCall --------------------------------
(* Programs for TLC: short ones, of calls that get in one another's way. *)
EXTENDS Call

Padded(text) == [text |-> text, pad |-> TRUE]
Address(text, broken) == [text |-> text, pad |-> FALSE, https |-> text = "https", broken |-> broken]

MCEnvironments ==
  {[api_key |-> Padded("env key"), base_url |-> Address("https", {}), default_model |-> None],
   [api_key |-> Plain("env key"), base_url |-> Address("http", {}),
    default_model |-> Padded("env model")],
   [api_key |-> Padded(""), base_url |-> [Address("https", {}) EXCEPT !.pad = TRUE],
    default_model |-> Plain(Unreadable)]}

Header(set, name, value) ==
  [set |-> set, value |-> [name |-> name, value |-> [theirs |-> value], valid |-> TRUE]]
Setting(set, value) == [set |-> set, value |-> value]

MCBuilderCalls ==
  {Setting("api_key", Padded("key")), Setting("api_key", Plain("")),
   Setting("base_url", Address("mine", {})), Setting("base_url", Address("mine", {"query", "host"})),
   Setting("default_model", Padded("client model")),
   Setting("timeout", Never), Setting("timeout", 7),
   Setting("max_response_bytes", 0), Setting("user_agent_product", [name |-> "mine", broken |-> {}]),
   Setting("send_runtime_header", FALSE), Setting("retry", 0),
   Setting("connect_timeout", 0), Setting("http_version", "auto"),
   Header("default_headers", "x-auth-token", "one"), Header("default_headers", "authorization", "one"),
   Header("default_headers", RetryCount, "one")}

Question_(name, question) == [set |-> "question", name |-> name, value |-> question]
Two == <<Member("x", None), Member("y", Text("why"))>>

MCQuestionCalls ==
  {Question_("k", Choice(None, Two \o <<Member("x", Object(<<>>))>>)),
   Question_("k", Choice(Text("which"), <<Member("x", None), Member("x", Text("why"))>>)),
   Question_("k", Score(None, <<Text("low"), Array(<<>>), Text("high")>>)),
   Question_("s", Score(None, <<>>)),
   Question_("s", Score(Number(1), <<Text("low")>>)),
   Question_("n", Noul(Text("is it"), None, Object(<<>>))),
   Question_("r", Raw("score", <<Member("criteria", Array(<<Text("a"), Text("b")>>)),
                                 Member("type", Text("other"))>>)),
   Question_("r", Raw("score", <<Member("criteria", Integer(0))>>)),
   Question_("r", Raw("noul", <<Member("criteria", Unencodable), Member("criteria", Null)>>))}

Attr(path, keys) == [path |-> path, form |-> "list", keys |-> keys]
Bare(path) == [path |-> path, form |-> "bare", keys |-> <<>>]
Field(member, type, attrs) == [member |-> member, type |-> type, attrs |-> attrs]
Struct(fields) ==
  [name |-> "Triage", generic |-> FALSE, container |-> <<>>, shape |-> "named", fields |-> fields]
Listed(label, description) == [label |-> Text(label), description |-> description]
Named_(n) == Attr("question", <<Member("name", Text(n))>>)
Key_(n, items) == Member(n, Array(items))

Tone == Attr("choice", <<Key_("options", <<Listed("x", Text("why")), Listed("y", None)>>)>>)
Urgency == Attr("score", <<Member("instructions", Text("how")),
                           Key_("levels", <<Text("low"), Text("high")>>)>>)

MCStructs ==
  {Struct(<<Field("n", "NoulAnswer", <<Bare("noul")>>),
            Field("m", "NoulAnswer", <<Named_("k"), Attr("noul", <<Member("no", Text("not"))>>)>>),
            Field("tone", "ChoiceAnswer", <<Tone>>), Field("s", "ScoreAnswer", <<Urgency>>)>>),
   Struct(<<Field("k", "ScoreAnswer", <<Attr("score", <<Key_("levels", <<Text("low")>>)>>)>>)>>),
   Struct(<<Field("s", "ScoreAnswer", <<Attr("score", <<Key_("levels", <<>>)>>)>>)>>),
   Struct(<<Field("k", "ChoiceAnswer", <<Attr("choice",
              <<Key_("options", <<Listed("x", None), Listed("y", None), Listed("x", Text("why"))>>)>>)>>)>>),
   Struct(<<Field("n", "NoulAnswer", <<Bare("noul"), Bare("choice")>>),
            Field("m", "Option", <<Bare("noul")>>), Field("o", "NoulAnswer", <<>>),
            Field("p", "ChoiceAnswer", <<Bare("choice")>>), Field("q", "ScoreAnswer", <<Bare("score")>>),
            Field("r", "NoulAnswer", <<Named_("s"), Named_("t"), Bare("noul")>>),
            Field("s", "NoulAnswer", <<Attr("noul", <<Member("yes", NotText)>>)>>),
            Field("t", "NoulAnswer", <<Attr("question", <<>>), [Bare("noul") EXCEPT !.form = "equals"]>>)>>),
   Struct(<<Field("a", "NoulAnswer", <<Bare("noul")>>),
            Field("b", "NoulAnswer", <<Named_("a"), Bare("noul")>>)>>),
   Struct(<<>>), [Struct(<<>>) EXCEPT !.shape = "enum"],
   [Struct(<<Field("n", "NoulAnswer", <<Bare("noul")>>)>>) EXCEPT !.name = "__D", !.generic = TRUE,
      !.container = <<"crate", "crate">>]}

Extra(name, value) == Setting("extra", Member(name, value))

MCRequestCalls ==
  {Setting("model", Plain("call model")), Setting("timeout", 0), Setting("timeout", 3),
   Setting("timeout", Never), Setting("retry", 1),
   Extra("state", Null), Extra("model", Text("extra model")), Extra("seed", Integer(1)),
   Extra("seed", Integer(2)), Extra("seed", Unencodable), Extra("questions", Object(<<>>)),
   Header("headers", "x-auth-token", "two"), Header("headers", "content-type", "two"),
   Header("headers", RetryCount, "two"), Header("headers", "connection", "two"),
   [set |-> "headers", value |-> [name |-> "x-auth-token", value |-> None, valid |-> FALSE]]}

MCStates == {Text("state"), Integer(1), Unencodable}

(* Secrets that escapes spell, with blanks around them, and letters. *)
MCLetters ==
  [key |-> <<"a", "backslash", "t">>, one |-> <<"space", "c", ":", "space", "c">>, two |-> <<"d", "d", "d">>]
  @@ ("env key" :> <<"e", "quote", "apostrophe", "backslash">>)

MCCharacters ==
  {"a", "c", "d", "e", "x", "y", "t", "n", "B", "E", "tab", "space", "newline", ":", "backslash",
   "quote", "apostrophe", "*", "...", "withheld"}

\* An error that derives Debug, one that prints nothing of itself, one that prints lines.
Link(text) ==
  [display |-> text, debug |-> <<"E">> \o Debug(text),
   alternate |-> <<"E", "newline", "space">> \o Debug(text)]
Opaque(text) == [display |-> text, debug |-> <<"E">>, alternate |-> <<"E">>]
Lines(text) == [Opaque(<<"y">>) EXCEPT !.alternate = <<"y", "newline">> \o text]
Foreign(chain) == [kind |-> "foreign", message |-> <<>>, chain |-> chain]
Own(message, chain) == [kind |-> "connection", message |-> message, chain |-> chain]

MCFailures ==
  LET key == MCLetters["key"]
      variable == MCLetters["env key"]
      chains ==
        {<<Opaque(<<"x", "x", "x", "x">>), Opaque(<<"c", ":", "space", "c">>)>>,
         <<Link(<<"y">>), Link(<<"d", "d">>)>>, <<Link(<<"a", "tab">>)>>, <<Opaque(<<"a", "tab">>)>>,
         <<Opaque(<<"x", "x", "x", "x", "a", "tab">>)>>, <<Opaque(<<"c">>), Opaque(<<"c">>)>>,
         <<Link(<<"x", "x", "x">> \o key)>>, <<Link(<<"x", "x", "x", "x">> \o variable)>>,
         <<Link(<<"x", "x", "x", "x", "d", "d", "d", "d">>)>>,
         <<Opaque(<<"y">>), Opaque(<<"y">>), Link(Debug(Escaped(variable, ByHeader)))>>,
         <<Opaque(Escaped(variable, ByHeader))>>, <<Opaque(Escaped(variable, ByChar))>>,
         <<Opaque(<<"a", "tab">>), Link(<<"d", "d", "d">>)>>,
         <<Opaque(Escaped(key, ByDebug)), Opaque(<<"a">>)>>, <<Lines(<<"c", ":", "space", "c">>)>>,
         <<Link(<<"y">>), Link(<<"y">>), Link(<<"y">>), Link(<<"d", "d", "d">>)>>}
      own ==
        {Own(<<"a", "tab", "c">>, <<>>), Own(<<"x">> \o variable \o variable, <<>>),
         Own(<<"a", "tab">>, <<Opaque(<<"y">>)>>),
         Own(<<"d", "d", "d", "d", "d", "d", "d">>, <<Opaque(<<"y">>)>>)}
  IN {Foreign(chain) : chain \in chains} \cup own
     \cup {[Own(<<"d", "d", "d">>, <<>>) EXCEPT !.kind = "api"]}
===========================================================================
