-------------------------------- MODULE Derive --------------------------------
(***************************************************************************)
(* `#[derive(QuestionSet)]` (crates/macros): reading a struct's fields     *)
(* into questions, reporting what is wrong with every one of them          *)
(* (parse.rs), and writing the set the program is compiled with (json.rs). *)
(*                                                                         *)
(* A key of an attribute is what it is called and the string it is given,  *)
(* `NotText` when that is no string literal; a list is the sequence of its *)
(* entries.  The wording of a problem is left out: it is the field it      *)
(* names, or `None`, and what it is about.                                 *)
(***************************************************************************)
EXTENDS Questions

\* Anything but a string literal, and a place the grammar does not allow.
NotText == [json |-> "tokens"]
IsText(v) == v.json = "string"

QuestionKinds == {"noul", "choice", "score"}
AnswerType == [noul |-> "NoulAnswer", choice |-> "ChoiceAnswer", score |-> "ScoreAnswer"]

Reserved == {"__QuestionSetField", "__QuestionSetFieldVisitor", "__QuestionSetVisitor",
             "__D", "__M", "__private"}

-----------------------------------------------------------------------------
(* One attribute: `parse_nested_meta` stops at the first key it refuses.    *)

KeysOf(kind) ==
  CASE kind = "noul"   -> {"instructions", "yes", "no"}
    [] kind = "choice" -> {"instructions", "options"}
    [] kind = "score"  -> {"instructions", "levels"}

\* `choice_options`: names, each listed once, with a description or without.
BadOption(options, i) ==
  \/ ~IsText(options[i].label)
  \/ options[i].description # None /\ ~IsText(options[i].description)
  \/ \E j \in 1..(i - 1) : options[j].label = options[i].label

BadKey(kind, keys, i) ==
  LET key == keys[i] IN
  \/ key.name \notin KeysOf(kind)
  \/ \E j \in 1..(i - 1) : keys[j].name = key.name
  \/ key.name \notin {"options", "levels"} /\ ~IsText(key.value)
  \/ key.name \in {"options", "levels"} /\ key.value.json # "array"
  \/ /\ key.name = "options"
     /\ key.value.json = "array"
     /\ \E j \in DOMAIN key.value.items : BadOption(key.value.items, j)
  \/ /\ key.name = "levels"
     /\ key.value.json = "array"
     /\ \E j \in DOMAIN key.value.items : ~IsText(key.value.items[j])

KeyOr(keys, n, otherwise) == IF Has(keys, n) THEN LastOf(keys, n) ELSE otherwise

\* Mutant: a score without levels is left to the server.
AttributeOrEmpty(attr, member) ==
  LET kind == attr.path
      Key(n) == KeyOr(attr.keys, n, None)
      No(why) == Refuse(member, why)
  IN IF attr.form = "equals" \/ \E i \in DOMAIN attr.keys : BadKey(kind, attr.keys, i)
       THEN No("grammar")
     ELSE CASE kind = "noul" -> Noul(Key("instructions"), Key("yes"), Key("no"))
            [] kind = "choice" ->
                 IF Key("options") = None THEN No("options")
                 ELSE LET items == Key("options").items IN
                      Choice(Key("instructions"),
                        [i \in DOMAIN items |-> Member(items[i].label.text, items[i].description)])
            [] kind = "score" ->
                 IF Key("levels") = None THEN No("levels")
                 ELSE Score(Key("instructions"), Key("levels").items)

\* `question`: what an attribute asks, or its problem.
AttributeQuestion(attr, member) ==
  LET question == AttributeOrEmpty(attr, member) IN
  IF IsRefused(question) THEN question
  ELSE IF question.kind = "score" /\ question.levels = <<>> THEN Refuse(member, "no levels")
  ELSE question

-----------------------------------------------------------------------------
(* One field. *)

\* `question_name`: the one key is `name`.
RenameProblem(attr) ==
  \/ attr.keys = <<>>
  \/ \E i \in DOMAIN attr.keys :
       attr.keys[i].name # "name" \/ ~IsText(attr.keys[i].value) \/ i > 1

\* `check_answer_type`: a field has the answer type of its question.
TypeFits(type, kind) == type = AnswerType[kind]

Problems(member, whys) == [i \in DOMAIN whys |-> Refuse(member, whys[i])]

\* `field_question`: the problems of a field, in the order they are met, or the
\* question it asks and its name.
FieldQuestion(field) ==
  LET asks == SelectSeq(field.attrs, LAMBDA a : a.path \in QuestionKinds)
      renames == SelectSeq(field.attrs, LAMBDA a : a.path = "question")
      rename == IF renames = <<>> THEN <<>>
                ELSE IF RenameProblem(Head(renames)) THEN <<"name">> ELSE <<>>
      named == rename \o [i \in 1..(Max({1, Len(renames)}) - 1) |-> "two names"]
      question == AttributeQuestion(Head(asks), field.member)
      attribute == IF IsRefused(question) THEN <<question.refused>> ELSE <<>>
      type == IF TypeFits(field.type, Head(asks).path) THEN <<>> ELSE <<"type">>
      problems == IF asks = <<>> THEN named \o <<"no question">>
                  ELSE IF Len(asks) > 1 THEN named \o [i \in 1..(Len(asks) - 1) |-> "two questions"]
                  ELSE named \o attribute \o type
  IN IF problems # <<>> THEN [problems |-> Problems(field.member, problems)]
     ELSE [problems |-> <<>>,
           question |-> Member(IF renames = <<>> THEN field.member
                               ELSE Head(Head(renames).keys).value.text, question)]

-----------------------------------------------------------------------------
(* The struct. *)

\* `container_root`: the one key is `crate`, given once.
BadContainer(struct) ==
  struct.container # <<>> /\ struct.container # <<"crate">>

StructProblems(struct) ==
  Problems(None,
    (IF BadContainer(struct) THEN <<"container">> ELSE <<>>)
    \o (IF struct.name \in Reserved THEN <<"reserved">> ELSE <<>>)
    \o (IF struct.generic THEN <<"generic">> ELSE <<>>)
    \o (IF struct.shape # "named" THEN <<struct.shape>>
        ELSE IF struct.fields = <<>> THEN <<"empty">> ELSE <<>>))

\* A field joins the questions unless it has problems or takes a name that is taken.
AddField(read, field) ==
  LET found == FieldQuestion(field) IN
  IF found.problems # <<>> THEN [read EXCEPT !.problems = @ \o found.problems]
  ELSE IF Has(read.questions, found.question.name)
    THEN [read EXCEPT !.problems = Append(@, Refuse(field.member, "same name"))]
  ELSE [read EXCEPT !.questions = Append(@, found.question)]

\* `parse`: every problem of the struct and of its fields, or its questions.
Parse(struct) ==
  FoldLeft(AddField, [problems |-> StructProblems(struct), questions |-> <<>>],
           IF struct.shape = "named" THEN struct.fields ELSE <<>>)

\* `push_question`: json.rs writes a question once more, as its fields give it.
PushQuestion(question) ==
  LET options == question.said
      criteria ==
        CASE question.kind = "noul" ->
               Optional("true", question.yes) \o Optional("false", question.no)
          [] question.kind = "choice" ->
               [i \in DOMAIN options |->
                  Member(options[i].name,
                         IF options[i].value = None THEN Null ELSE options[i].value)]
  IN Object(
       <<Member("type", Text(question.kind))>> \o Optional("instructions", question.instructions)
       \o (IF question.kind = "score" THEN <<Member("criteria", Array(question.levels))>>
           ELSE IF question.kind = "noul" /\ criteria = <<>> THEN <<>>
           ELSE <<Member("criteria", Object(criteria))>>))

\* The set a struct is compiled into, whose levels are not counted.
Expand(struct) ==
  LET read == Parse(struct)
      questions == read.questions
  IN IF read.problems # <<>> THEN [refused |-> read.problems, id |-> None]
     ELSE [json |-> Object([i \in DOMAIN questions |->
                     Member(questions[i].name, PushQuestion(questions[i].value))]),
           names |-> [i \in DOMAIN questions |-> questions[i].name],
           max_levels |-> 0]
===========================================================================
