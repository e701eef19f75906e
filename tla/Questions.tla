------------------------------ MODULE Questions -------------------------------
(***************************************************************************)
(* The questions a caller builds and prepares for its calls                *)
(* (crates/sdk/src/question.rs), and the text or JSON they are made of     *)
(* (content.rs).  A question is the calls it was built with, a set of      *)
(* questions the entries the builder holds; the bytes of the prepared set  *)
(* are the JSON value they spell, and the names that follow them.          *)
(***************************************************************************)
EXTENDS Asked, FiniteSetsExt

\* A value whose own `Serialize` fails.
Unencodable == [json |-> "unencodable"]

\* `Content::json`: what a value gives that is to describe something.
ContentOf(v) ==
  IF v = Unencodable THEN Refuse(None, "encode")
  ELSE IF v.json \notin {"string", "object", "array"} THEN Refuse(None, "shape")
  ELSE IF v.json = "string" /\ v.text = Unreadable THEN Refuse(None, "decode")
  ELSE v

Noul(instructions, yes, no) ==
  [kind |-> "noul", instructions |-> instructions, yes |-> yes, no |-> no]
Choice(instructions, said) ==
  [kind |-> "choice", instructions |-> instructions, said |-> said]
Score(instructions, levels) ==
  [kind |-> "score", instructions |-> instructions, levels |-> levels]
Raw(type, said) ==
  [kind |-> "raw", said |-> <<Member("type", Text(type))>> \o said]

\* What describes a question and its outcomes, each made by `ContentOf`.
Contents(question) ==
  {question[f] : f \in DOMAIN question \cap {"instructions", "yes", "no"}}
  \cup (IF question.kind = "choice" THEN {m.value : m \in ToSet(question.said)} ELSE {})
  \cup (IF question.kind = "score" THEN ToSet(question.levels) ELSE {})

\* The options of a choice: an option named again keeps its place, and `None` is
\* one that `Choice::new` names.
Options(choice) == FoldLeft(Upsert, <<>>, choice.said)

\* A field that could not be encoded is not kept; the first such is remembered.
Fields(raw) ==
  FoldLeft(Upsert, <<>>, SelectSeq(raw.said, LAMBDA m : m.value # Unencodable))
Fails(raw) == \E i \in DOMAIN raw.said : raw.said[i].value = Unencodable

-----------------------------------------------------------------------------
(* What `prepare` refuses. *)

\* `string_value`: the value of a JSON string, if it has one.
StringValue(v) == IF v.json = "string" /\ v.text # Unreadable THEN v.text ELSE ""

\* `is_falsy`: what Python takes for false.
IsFalsy(v) ==
  \/ v = Null
  \/ v = Flag(FALSE)
  \/ v = Text("")
  \/ v.json = "number" /\ v.parts = 0
  \/ v.json = "array" /\ v.items = <<>>
  \/ v.json = "object" /\ v.members = <<>>

ValidateRaw(id, raw) ==
  LET fields == Fields(raw)
      type == IF Has(fields, "type") THEN StringValue(LastOf(fields, "type")) ELSE ""
  IN IF Fails(raw) THEN Refuse(id, "field")
     ELSE IF type = "" THEN Refuse(id, "type")
     ELSE IF type \in {"choice", "score"} /\ ~Has(fields, "criteria") THEN Refuse(id, "criteria")
     ELSE IF type = "score" /\ IsFalsy(LastOf(fields, "criteria")) THEN Refuse(id, "no levels")
     ELSE raw

Validate(id, question) ==
  CASE question.kind = "raw" -> ValidateRaw(id, question)
    [] question.kind = "score" ->
         IF question.levels = <<>> THEN Refuse(id, "no levels") ELSE question
    [] OTHER -> question

-----------------------------------------------------------------------------
(* What `prepare` writes. *)

Optional(n, v) == IF v = None THEN <<>> ELSE <<Member(n, v)>>

Criteria(question) ==
  CASE question.kind = "noul" ->
         LET described == Optional("true", question.yes) \o Optional("false", question.no) IN
         IF described = <<>> THEN <<>> ELSE <<Member("criteria", Object(described))>>
    [] question.kind = "choice" ->
         LET options == Options(question)
             Described(m) == Member(m.name, IF m.value = None THEN Null ELSE m.value)
         IN <<Member("criteria", Object([i \in DOMAIN options |-> Described(options[i])]))>>
    [] question.kind = "score" -> <<Member("criteria", Array(question.levels))>>

WriteQuestion(question) ==
  IF question.kind = "raw" THEN Object(Fields(question))
  ELSE Object(<<Member("type", Text(question.kind))>>
              \o Optional("instructions", question.instructions) \o Criteria(question))

\* Mutant: the questions are a list, and a name added again is asked twice.
AddTwice(entries, name, question) == Append(entries, Member(name, question))

\* `Questions::question`.
Add(entries, name, question) == Upsert(entries, Member(name, question))

\* `Questions::prepare`: the first question at fault is the one refused.
Prepare(entries) ==
  LET checked == [i \in DOMAIN entries |-> Validate(entries[i].name, entries[i].value)]
      refused == SelectSeq(checked, IsRefused)
      levels == {Len(entries[i].value.levels) :
                   i \in {j \in DOMAIN entries : entries[j].value.kind = "score"}}
  IN IF entries = <<>> THEN Refuse(None, "empty")
     ELSE IF refused # <<>> THEN Head(refused)
     ELSE [json |-> Object([i \in DOMAIN entries |->
                     Member(entries[i].name, WriteQuestion(entries[i].value))]),
           names |-> [i \in DOMAIN entries |-> entries[i].name],
           max_levels |-> Max({0} \cup levels)]
===========================================================================
