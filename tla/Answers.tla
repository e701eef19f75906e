------------------------------- MODULE Answers --------------------------------
(***************************************************************************)
(* What the adapter makes of a model's reply: the strict decoder driven by *)
(* the questions (crates/adapter/src/decode.rs), which names every problem *)
(* of a reply it refuses, and the conversion of what it accepts into the   *)
(* SDK's answers (convert.rs, metrics.rs).                                 *)
(*                                                                         *)
(* A reply is the pieces of its text, "value" standing for the JSON value  *)
(* it holds.  Floats are exact here: a distribution is its parts and what  *)
(* they are parts of, and any other number a pair <<numerator, denominator>>. *)
(***************************************************************************)
EXTENDS Asked, FiniteSetsExt, Integers

CONSTANTS
  Unit,        \* the parts of the number 1
  Tolerance,   \* PROBABILITY_TOLERANCE, in parts
  MaxProblems  \* MAX_PROBLEMS

\* A distribution as it is reported, how far it misses the unit, and what the
\* model gave if it was rescaled.
Normalizations ==
  [probabilities : [parts : Seq(Nat), whole : Nat], error : Nat, original : Seq(Nat) \cup {None}]

\* What is not there is no value of what may be.
ASSUME AnswersAssumption ==
  /\ Unit \in Nat \ {0} /\ Tolerance \in 0..(Unit - 1) /\ MaxProblems \in Nat \ {0}
  /\ None \notin Seq(Nat) \cup Normalizations

-----------------------------------------------------------------------------
(* The text of a reply. *)

Trim(pieces) ==
  LET kept == {i \in DOMAIN pieces : pieces[i] # "space"} IN
  IF kept = {} THEN <<>> ELSE SubSeq(pieces, Min(kept), Max(kept))

\* `extract_json`: the text without the fence that may be around it.
ExtractJson(pieces) ==
  LET text == Trim(pieces)
      tagged == IsPrefix(<<"fence", "json">>, text)
      body == Trim(SubSeq(text, IF tagged THEN 3 ELSE 2, Len(text)))
  IN IF ~IsPrefix(<<"fence">>, text) THEN text
     ELSE IF IsSuffix(<<"fence">>, body) THEN Trim(Front(body)) ELSE body

-----------------------------------------------------------------------------
(* The decoder: each reader gives a value, or the problems that keep it     *)
(* from one.  A place is the path of names that leads to it.                *)

Reply == <<>>
AnswersAt == <<"answers">>

Problem(what, at) == [what |-> what, at |-> at]
Missing(at, n) == [what |-> "Missing", at |-> at, member |-> n]

Good(value) == [problems |-> <<>>, value |-> value]
Bad(problem) == [problems |-> <<problem>>, value |-> None]

\* Mutant: the first part that has a problem ends the collection.
CollectFirst(before, parts) ==
  LET all == SelectSeq(parts, LAMBDA part : part.problems # <<>>)
      problems == before \o (IF all = <<>> THEN <<>> ELSE Head(all).problems)
  IN [problems |-> problems,
      value |-> IF problems = <<>> THEN [i \in DOMAIN parts |-> parts[i].value] ELSE None]

\* The values of all parts, or the problems of all of them, in order.
Collect(before, parts) ==
  LET problems == before \o Flat([i \in DOMAIN parts |-> parts[i].problems]) IN
  [problems |-> problems,
   value |-> IF problems = <<>> THEN [i \in DOMAIN parts |-> parts[i].value] ELSE None]

\* Mutant: a member that was not asked for is skipped.
LenientMembers(v, names, at) ==
  [problems |-> <<>>,
   value |-> [i \in DOMAIN names |->
                IF Has(v.members, names[i]) THEN LastOf(v.members, names[i]) ELSE None]]

\* The last value of each name in an object that can be read; a member that is
\* none of the names is a problem once.
Members(v, names, at) ==
  [problems |-> IF \E i \in DOMAIN v.members : v.members[i].name \notin ToSet(names)
                  THEN <<Problem("Unexpected", at)>> ELSE <<>>,
   value |-> [i \in DOMAIN names |->
                IF Has(v.members, names[i]) THEN LastOf(v.members, names[i]) ELSE None]]

\* An object's named members, each read by its own reader.
ReadObject(v, names, at, Read(_, _)) ==
  IF v.json # "object" THEN Bad(Problem("WrongType", at))
  ELSE IF ~IsReadable(v) THEN Bad(Problem("NotJson", Reply))
  ELSE LET members == Members(v, names, at) IN
       Collect(members.problems,
               [i \in DOMAIN names |->
                  IF members.value[i] = None THEN Bad(Missing(at, names[i]))
                                             ELSE Read(i, members.value[i])])

Probability(v, at) ==
  IF v.json # "number" THEN Bad(Problem("WrongType", at))
  ELSE IF v.parts \in 0..Unit THEN Good(v.parts)
  ELSE Bad(Problem("NotAllowed", at))

Boolean(v, at) ==
  IF v.json = "boolean" THEN Good(v.is) ELSE Bad(Problem("WrongType", at))

\* A number that is not written as an integer is no level, whatever it denotes.
Level(v, question, at) ==
  IF v.json # "number" THEN Bad(Problem("WrongType", at))
  ELSE IF v.integer /\ v.parts \div Unit \in 0..(Len(question.outcomes) - 1)
    THEN Good(v.parts \div Unit + 1)
  ELSE Bad(Problem("NotAllowed", at))

Label(v, question, at) ==
  IF v.json # "string" THEN Bad(Problem("WrongType", at))
  ELSE IF v.text \in ToSet(Labels(question))
    THEN Good(CHOOSE i \in DOMAIN Labels(question) : Labels(question)[i] = v.text)
  ELSE Bad(Problem("NotAllowed", at))

Distribution(v, question, at) ==
  LET Weight(i, w) == Probability(w, Append(at, Labels(question)[i])) IN
  ReadObject(v, Labels(question), at, Weight)

DecodeAnswer(question, mode, v) ==
  LET at == Append(AnswersAt, question.id) IN
  CASE IsMap(question, mode)                            -> Distribution(v, question, at)
    [] question.kind = "noul" /\ mode = "probabilities" -> Probability(v, at)
    [] question.kind = "noul" /\ mode = "discrete"      -> Boolean(v, at)
    [] question.kind = "score" /\ mode = "discrete"     -> Level(v, question, at)
    [] question.kind = "choice" /\ mode = "discrete"    -> Label(v, question, at)

DecodeReply(questions, mode, root) ==
  LET ids == [i \in DOMAIN questions |-> questions[i].id]
      One(i, v) == DecodeAnswer(questions[i], mode, v)
      All(i, v) == ReadObject(v, ids, AnswersAt, One)
      read == ReadObject(root, <<"answers">>, Reply, All)
  IN IF read.problems = <<>> THEN Good(read.value[1]) ELSE read

\* `decode`, of the text of a reply.
Decode(questions, mode, reply) ==
  LET text == ExtractJson(reply.pieces) IN
  IF ~IsPrefix(<<"value">>, text) THEN Bad(Problem("NotJson", Reply))
  ELSE IF Len(text) > 1 THEN Bad(Problem("TrailingText", Reply))
  ELSE DecodeReply(questions, mode, reply.value)

\* What the model, the trace and the error are told of a refused reply.
ValidationMessage(problems) ==
  [count |-> Len(problems), listed |-> SubSeq(problems, 1, Min({MaxProblems, Len(problems)}))]

-----------------------------------------------------------------------------
(* Probabilities. *)

Sum(parts) ==
  LET Upto[i \in 0..Len(parts)] == IF i = 0 THEN 0 ELSE Upto[i - 1] + parts[i]
  IN Upto[Len(parts)]
FirstMax(parts) ==
  CHOOSE i \in DOMAIN parts :
    \A j \in DOMAIN parts : parts[j] <= parts[i] /\ (parts[j] = parts[i] => i <= j)

\* Divided by their total, or all alike when it is zero.
Rescale(parts) ==
  IF Sum(parts) = 0
    THEN [parts |-> [i \in DOMAIN parts |-> 1], whole |-> Len(parts)]
    ELSE [parts |-> parts, whole |-> Sum(parts)]

OneHot(outcomes, selected) ==
  [probabilities |-> [parts |-> [i \in 1..outcomes |-> IF i = selected THEN 1 ELSE 0],
                      whole |-> 1],
   error |-> 0, original |-> None]

Distance(a, b) == IF a < b THEN b - a ELSE a - b

\* Mutant: what the model gave is not kept when it is rescaled.
NormalizeOnly(parts, enabled) ==
  LET error == Distance(Sum(parts), Unit) IN
  IF ~enabled \/ error <= Tolerance
    THEN [probabilities |-> [parts |-> parts, whole |-> Unit], error |-> error, original |-> None]
    ELSE [probabilities |-> Rescale(parts), error |-> error, original |-> None]

\* The model's values, rescaled when that is asked for and they miss the unit.
Normalize(parts, enabled) ==
  LET error == Distance(Sum(parts), Unit) IN
  IF ~enabled \/ error <= Tolerance
    THEN [probabilities |-> [parts |-> parts, whole |-> Unit], error |-> error, original |-> None]
    ELSE [probabilities |-> Rescale(parts), error |-> error, original |-> parts]

\* Both confidences are of the rescaled distribution d; a choice's is not clamped.
ChoiceConfidence(d) ==
  LET n == Len(d.parts) IN
  <<n * d.parts[FirstMax(d.parts)] - d.whole, d.whole * (n - 1)>>

\* One less the distance from the likeliest level, against that of the uniform
\* distribution from its center, and never below zero.
ScoreConfidence(d) ==
  LET n == Len(d.parts)
      mode == FirstMax(d.parts)
      spread == Sum([i \in 1..n |-> d.parts[i] * Distance(i, mode)])
      uniform == Sum([i \in 1..n |-> Distance(2 * i, n + 1)])
  IN <<Max({0, d.whole * uniform - 2 * n * spread}), d.whole * uniform>>

ExpectedScore(d) == <<Sum([i \in DOMAIN d.parts |-> (i - 1) * d.parts[i]]), d.whole>>

-----------------------------------------------------------------------------
(* The conversion of one reply. *)

\* The distribution of a choice or a score; a noul has none.
NormalizationOf(question, mode, value, enabled) ==
  CASE question.kind = "noul" -> None
    [] IsMap(question, mode)  -> Normalize(value, enabled)
    [] question.kind # "noul" /\ mode = "discrete" -> OneHot(Len(question.outcomes), value)

\* `probabilities` are reported as they are; the numbers drawn from them are
\* drawn from the rescaled ones.
ConvertAnswer(question, mode, value, enabled) ==
  LET normalization == NormalizationOf(question, mode, value, enabled)
      reported == normalization.probabilities
      d == Rescale(reported.parts)
  IN CASE question.kind = "noul" ->
            [kind |-> "noul",
             probability |-> IF mode = "probabilities" THEN <<value, Unit>>
                             ELSE <<IF value THEN 1 ELSE 0, 1>>]
       [] question.kind = "choice" ->
            [kind |-> "choice", choice |-> Labels(question)[FirstMax(reported.parts)],
             confidence |-> ChoiceConfidence(d), probabilities |-> reported]
       [] question.kind = "score" ->
            [kind |-> "score", score |-> ExpectedScore(d), confidence |-> ScoreConfidence(d),
             legend |-> [i \in DOMAIN question.outcomes |-> question.outcomes[i].description],
             probabilities |-> reported]

\* `probability_debug`: the questions whose totals miss the unit by more than
\* the tolerance, what the model gave where it was rescaled, the largest miss.
ProbabilityDebug(questions, normalizations) ==
  LET maps == {i \in DOMAIN questions : normalizations[i] # None}
      missed == {i \in maps : normalizations[i].error > Tolerance}
      rescaled == {i \in maps : normalizations[i].original # None}
  IN [errors |-> [id \in {questions[i].id : i \in missed} |->
                    normalizations[CHOOSE i \in missed : questions[i].id = id].error],
      originals |-> [id \in {questions[i].id : i \in rescaled} |->
                       normalizations[CHOOSE i \in rescaled : questions[i].id = id].original],
      max |-> Max({0} \cup {normalizations[i].error : i \in maps}),
      invalid |-> Cardinality(missed)]

Convert(questions, mode, values, enabled) ==
  [answers |-> [id \in {questions[i].id : i \in DOMAIN questions} |->
                  LET i == CHOOSE j \in DOMAIN questions : questions[j].id = id IN
                  ConvertAnswer(questions[i], mode, values[i], enabled)],
   probabilities |-> ProbabilityDebug(questions,
                       [i \in DOMAIN questions |->
                          NormalizationOf(questions[i], mode, values[i], enabled)])]
===========================================================================
