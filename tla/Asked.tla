-------------------------------- MODULE Asked ---------------------------------
(***************************************************************************)
(* The questions of a call as the adapter reads them again from their JSON *)
(* form (crates/adapter/src/model.rs), and the JSON schema it tells a      *)
(* model to follow (crates/adapter/src/schema.rs).  The wording of prompts *)
(* and descriptions, and the order of a schema's members, are left out.    *)
(***************************************************************************)
EXTENDS Values, SequencesExt, FiniteSets, TLC

CONSTANT None  \* no description

Kinds == {"noul", "choice", "score"}

\* Why a set of questions is refused, and the question that is at fault.
Refuse(id, why) == [refused |-> why, id |-> id]
IsRefused(x) == "refused" \in DOMAIN x

\* `Members`: a repeated name keeps its first position and its last value.
Merged(v) ==
  LET Upto[i \in 0..Len(v.members)] ==
        IF i = 0 THEN <<>> ELSE Upsert(Upto[i - 1], v.members[i])
  IN Upto[Len(v.members)]

\* `optional_content` accepts a string, an object, an array and null.
IsContent(v) ==
  \/ v.json \in {"object", "array"}
  \/ v.json = "string" /\ v.text # Unreadable
IsOptionalContent(v) == v.json = "null" \/ IsContent(v)

\* An outcome of a choice or a score and what describes it.
Outcome(label, description) ==
  [label |-> label, description |-> IF description.json = "null" THEN None ELSE description]

Question(id, kind, outcomes) == [id |-> id, kind |-> kind, outcomes |-> outcomes]

NoulCriteria(id, v) ==
  IF /\ v.json # "null"
     /\ \/ ~IsReadable(v)
        \/ \E i \in DOMAIN v.members : v.members[i].name \notin {"true", "false"}
        \/ \E i \in DOMAIN Merged(v) : ~IsOptionalContent(Merged(v)[i].value)
    THEN Refuse(id, "criteria")
    ELSE Question(id, "noul", <<>>)

ChoiceCriteria(id, v) ==
  IF ~IsReadable(v) \/ \E i \in DOMAIN Merged(v) : ~IsOptionalContent(Merged(v)[i].value)
    THEN Refuse(id, "criteria")
    ELSE LET labels == Merged(v) IN
         Question(id, "choice",
                  [i \in DOMAIN labels |-> Outcome(labels[i].name, labels[i].value)])

\* The levels of a score are written 0, 1, ...; each is described.
ScoreCriteria(id, v) ==
  IF v.json # "array" \/ \E i \in DOMAIN v.items : ~IsContent(v.items[i])
    THEN Refuse(id, "criteria")
    ELSE Question(id, "score", [i \in DOMAIN v.items |-> Outcome(ToString(i - 1), v.items[i])])

\* The type is looked for first, then each member is checked in its place, then
\* the criteria for their shape.
ParseQuestion(id, v) ==
  LET members == Merged(v)
      type == LastOf(v.members, "type")
      criteria == LastOf(v.members, "criteria")
      Strange(m) ==
        \/ m.name \notin {"type", "instructions", "criteria"}
        \/ m.name = "instructions" /\ ~IsOptionalContent(m.value)
  IN IF ~IsReadable(v) THEN Refuse(id, "object")
     ELSE IF ~Has(v.members, "type") THEN Refuse(id, "type")
     ELSE IF type.json # "string" THEN Refuse(id, "type")
     ELSE IF type.text \notin Kinds THEN Refuse(id, "type")
     ELSE IF \E i \in DOMAIN members : Strange(members[i]) THEN Refuse(id, "member")
     ELSE IF ~Has(v.members, "criteria")
       THEN IF type.text = "noul" THEN Question(id, "noul", <<>>) ELSE Refuse(id, "criteria")
     ELSE CASE type.text = "noul"   -> NoulCriteria(id, criteria)
            [] type.text = "choice" -> ChoiceCriteria(id, criteria)
            [] type.text = "score"  -> ScoreCriteria(id, criteria)

\* Every question is checked for its shape, in order, before any for the number
\* of its criteria.
FromJson(v) ==
  LET members == Merged(v)
      read == [i \in DOMAIN members |-> ParseQuestion(members[i].name, members[i].value)]
      refused == {i \in DOMAIN read : IsRefused(read[i])}
  IN IF members = <<>> THEN Refuse(None, "empty")
     ELSE IF refused # {} THEN read[Min(refused)]
     ELSE IF \E i \in DOMAIN read : read[i].kind # "noul" /\ Len(read[i].outcomes) < 2
       THEN Refuse(None, "too few")
     ELSE [questions |-> read]

-----------------------------------------------------------------------------
(* The schema: definitions by name, and a root that refers to one of them. *)

IsMap(question, mode) == mode = "probabilities" /\ question.kind # "noul"

\* The labels of a question, in their order.
Labels(question) == [i \in DOMAIN question.outcomes |-> question.outcomes[i].label]

\* A closed object: the names of its properties, all required, and their schemas.
Closed(names, Property(_)) ==
  [type |-> "object", required |-> ToSet(names),
   properties |-> [n \in ToSet(names) |-> Property(CHOOSE i \in DOMAIN names : names[i] = n)]]

ValueKind(question, mode) ==
  CASE mode = "probabilities" -> [type |-> "number"]
    [] mode = "discrete" /\ question.kind = "noul"   -> [type |-> "boolean"]
    [] mode = "discrete" /\ question.kind = "score"  -> [type |-> "integer"]
    [] mode = "discrete" /\ question.kind = "choice" ->
         [type |-> "string", enum |-> ToSet(Labels(question))]

ProbabilityMap(question) ==
  LET Probability(i) == [type |-> "number"] IN Closed(Labels(question), Probability)

AnswersDef == <<"TypeSafeAnswers">>
Reference(n) == [ref |-> n]

\* A map has a definition of its own, numbered by its question's place.
WriteSchema(questions, mode) ==
  LET maps == {i \in DOMAIN questions : IsMap(questions[i], mode)}
      Property(i) == IF i \in maps THEN Reference(<<"ProbabilityMap", i - 1>>)
                                   ELSE ValueKind(questions[i], mode)
      ids == [i \in DOMAIN questions |-> questions[i].id]
  IN [defs |-> Over([n \in {AnswersDef} |-> Closed(ids, Property)],
                    [n \in {<<"ProbabilityMap", i - 1>> : i \in maps} |->
                       ProbabilityMap(questions[n[2] + 1])]),
      root |-> Closed(<<"answers">>, LAMBDA i : Reference(AnswersDef))]
===========================================================================
