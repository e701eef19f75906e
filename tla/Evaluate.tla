------------------------------- MODULE Evaluate -------------------------------
(***************************************************************************)
(* One call of the adapter (crates/adapter/src/client.rs, send): what is   *)
(* checked before the first model request, then the evaluation: the        *)
(* corrective loop over replies that do not match the schema               *)
(* (crates/adapter/src/run.rs, evaluate and attempt), each turn of it a    *)
(* run of the retry policy that notes why it retried                       *)
(* (crates/adapter/src/retry.rs, run_with_retries), and the answers that   *)
(* end it.                                                                 *)
(*                                                                         *)
(* Which failures the policy repeats, and when, is Retry's subject: here   *)
(* it may stop at any failure, and must at the limit.  What a provider     *)
(* makes of an exchange is Provider's: here it replies, declares that it   *)
(* has no answer, or fails.                                                *)
(***************************************************************************)
EXTENDS Answers

CONSTANTS
  QuestionSets,  \* the questions a call may ask, by name: JSON objects
  Replies,       \* what a model may reply, by name: a text, and its count of tokens
  MaxRetries,    \* the policy's limit of retries
  MaxCorrective, \* n_retry_malformed_structure
  MaxCount,      \* u64::MAX
  Texts,         \* texts of failures
  NoText,        \* the empty text
  Json           \* the JSON values that occur, and what they are made of

ASSUME EvaluateAssumption ==
  /\ MaxRetries \in Nat /\ MaxCorrective \in Nat /\ MaxCount \in Nat
  /\ \A r \in DOMAIN Replies : Replies[r].tokens \in (0..MaxCount) \cup {None}
  /\ NoText \notin Texts
  /\ None \notin Nat /\ None \notin Texts \cup {NoText}

Pieces == {"value", "space", "fence", "json", "words"}

\* A number that is written as an integer denotes one.
ASSUME JsonAssumption ==
  /\ None \notin Json
  /\ \A v \in Json :
       /\ v.json = "object" => v.members \in Seq([name : STRING, value : Json])
       /\ v.json = "array" => v.items \in Seq(Json)
       /\ v.json = "number" =>
            v.parts \in Int /\ v.integer \in BOOLEAN /\ (v.integer => v.parts % Unit = 0)
       /\ v.json = "boolean" => v.is \in BOOLEAN
  /\ \A s \in DOMAIN QuestionSets : QuestionSets[s] \in Json /\ QuestionSets[s].json = "object"
  /\ \A r \in DOMAIN Replies : Replies[r].value \in Json /\ Replies[r].pieces \in Seq(Pieces)

VARIABLES
  call,      \* what is asked: the questions, the mode, whether to normalize
  asked,     \* the questions as read, and the schema the model is told
  pc,        \* where the call is
  retry,     \* the retries of this turn
  failure,   \* run_with_retries' slot for the text of the last failure
  messages,  \* the corrections: each refused reply and what was wrong with it
  attempts,  \* the trace: every provider call made
  reasons,   \* the trace: why each retry was made
  usage,     \* Usage: its retries, corrective retries and total of tokens
  result     \* what the call gives: answers, or the message of the error

vars == <<call, asked, pc, retry, failure, messages, attempts, reasons, usage, result>>

Modes == {"probabilities", "discrete"}

\* The questions of each set as the adapter reads them, or why it refuses them.
Model == [s \in DOMAIN QuestionSets |-> FromJson(QuestionSets[s])]
Askable == {s \in DOMAIN QuestionSets : ~IsRefused(Model[s])}

\* What the decoder makes of each reply to each set of questions it is asked.
Decoded == [s \in Askable |-> [m \in Modes |-> [r \in DOMAIN Replies |->
              Decode(Model[s].questions, m, Replies[r])]]]
Problems(r) == Decoded[call.set][call.mode][r].problems
Message(r) == ValidationMessage(Problems(r))

Init ==
  /\ call \in [set: DOMAIN QuestionSets, mode: Modes, normalize: BOOLEAN]
  /\ asked = None /\ pc = "ready" /\ retry = 0 /\ failure = None /\ messages = <<>>
  /\ attempts = <<>> /\ reasons = <<>> /\ result = None
  /\ usage = [n_retries |-> 0, n_malformed |-> 0, last |-> None, total |-> 0]

\* Mutant: the total skips what is not reported.
AddKnown(total, count) == IF count = None THEN total ELSE total + count

\* `add`: a running total, unknown once a count is or it would overflow.
Add(total, count) ==
  IF total # None /\ count # None
    THEN IF total + count <= MaxCount THEN total + count ELSE None
    ELSE None

\* A finished call goes into the trace, whether it answered or failed.
Record(outcome, text, tokens) ==
  attempts' = Append(attempts, [messages |-> messages, outcome |-> outcome,
                                text |-> text, tokens |-> tokens])

\* The usage after a turn that got a reply, and a corrective retry more or not.
UsageAfter(tokens, corrective) ==
  [n_retries |-> usage.n_retries + retry,
   n_malformed |-> usage.n_malformed + corrective,
   last |-> tokens,
   total |-> Add(usage.total, tokens)]

-----------------------------------------------------------------------------

\* The provider is resolved, the state is written, the questions are read: the
\* first that fails ends the call before any request.
Send ==
  /\ pc = "ready"
  /\ \/ pc' = "invalid" /\ UNCHANGED asked
     \/ /\ call.set \in Askable /\ pc' = "asking"
        /\ asked' = LET questions == Model[call.set].questions IN
                    [questions |-> questions, schema |-> WriteSchema(questions, call.mode)]
  /\ UNCHANGED <<call, retry, failure, messages, attempts, reasons, usage, result>>

\* The call failed: its text waits in the slot for the retry, if any.
CallFails(text) ==
  /\ pc = "asking"
  /\ Record("error", text, None)
  /\ failure' = text
  /\ \/ retry < MaxRetries /\ pc' = "sleeping"
     \/ pc' = "failed"
  /\ UNCHANGED <<call, asked, retry, messages, reasons, usage, result>>

\* Mutant: a call that is repeated leaves the corrections out.
RetryFromStart ==
  /\ pc = "sleeping"
  /\ pc' = "asking"
  /\ retry' = retry + 1
  /\ failure' = None
  /\ messages' = <<>>
  /\ reasons' = Append(reasons, [category |-> "provider_error",
                                 text |-> IF failure = None THEN NoText ELSE failure])
  /\ UNCHANGED <<call, asked, attempts, usage, result>>

\* The policy calls again: the reason is noted before the call is made.
Retry ==
  /\ pc = "sleeping"
  /\ pc' = "asking"
  /\ retry' = retry + 1
  /\ failure' = None
  /\ reasons' = Append(reasons, [category |-> "provider_error",
                                 text |-> IF failure = None THEN NoText ELSE failure])
  /\ UNCHANGED <<call, asked, messages, attempts, usage, result>>

\* A reply the vendor declares unfinished or refused ends the evaluation.
NonAnswer(text) ==
  /\ pc = "asking"
  /\ Record("nonanswer", text, None)
  /\ pc' = "refused"
  /\ UNCHANGED <<call, asked, retry, failure, messages, reasons, usage, result>>

\* The type of a question set takes the answers, or refuses them: the error has
\* the trace but no probabilities.
Finish(converted) ==
  \/ pc' = "answered" /\ result' = converted
  \/ pc' = "unfit" /\ UNCHANGED result

\* A reply that is accepted is converted, and that ends the call.
Answer(r) ==
  /\ pc = "asking"
  /\ Problems(r) = <<>>
  /\ Record("reply", r, Replies[r].tokens)
  /\ usage' = UsageAfter(Replies[r].tokens, 0)
  /\ Finish(Convert(asked.questions, call.mode,
                    Decoded[call.set][call.mode][r].value, call.normalize))
  /\ UNCHANGED <<call, asked, retry, failure, messages, reasons>>

\* Mutant: the reason is noted before the limit is checked.
MalformedNotedFirst(r) ==
  /\ pc = "asking"
  /\ Problems(r) # <<>>
  /\ Record("reply", r, Replies[r].tokens)
  /\ reasons' = Append(reasons, [category |-> "malformed_structure", text |-> Message(r)])
  /\ IF usage.n_malformed = MaxCorrective
       THEN /\ pc' = "malformed" /\ result' = Message(r)
            /\ usage' = UsageAfter(Replies[r].tokens, 0)
            /\ UNCHANGED <<retry, failure, messages>>
       ELSE /\ usage' = UsageAfter(Replies[r].tokens, 1)
            /\ messages' = Append(messages, [reply |-> r, message |-> Message(r)])
            /\ retry' = 0 /\ failure' = None
            /\ UNCHANGED <<pc, result>>
  /\ UNCHANGED <<call, asked>>

\* The reply does not match the schema: the model is shown it and what is
\* wrong with it, and the next turn begins, unless this was the last.
Malformed(r) ==
  /\ pc = "asking"
  /\ Problems(r) # <<>>
  /\ Record("reply", r, Replies[r].tokens)
  /\ IF usage.n_malformed = MaxCorrective
       THEN /\ pc' = "malformed" /\ result' = Message(r)
            /\ usage' = UsageAfter(Replies[r].tokens, 0)
            /\ UNCHANGED <<retry, failure, messages, reasons>>
       ELSE /\ usage' = UsageAfter(Replies[r].tokens, 1)
            /\ messages' = Append(messages, [reply |-> r, message |-> Message(r)])
            /\ reasons' = Append(reasons, [category |-> "malformed_structure",
                                           text |-> Message(r)])
            /\ retry' = 0 /\ failure' = None
            /\ UNCHANGED <<pc, result>>
  /\ UNCHANGED <<call, asked>>

\* The future of the call is dropped at one of its awaits.
Drop ==
  /\ pc \in {"ready", "asking", "sleeping"}
  /\ pc' = "dropped"
  /\ UNCHANGED <<call, asked, retry, failure, messages, attempts, reasons, usage, result>>

Next ==
  \/ Send
  \/ \E text \in Texts : CallFails(text) \/ NonAnswer(text)
  \/ \E r \in DOMAIN Replies : Answer(r) \/ Malformed(r)
  \/ Retry \/ Drop

Spec == Init /\ [][Next]_vars

-----------------------------------------------------------------------------
(* What a reply should be, said without the decoder: the schema the model   *)
(* is told, as a JSON Schema validator reads it, and the bounds it leaves   *)
(* out.                                                                     *)

Schema == asked.schema

FitsValue(s, v) ==
  CASE s.type = "number"  -> v.json = "number"
    [] s.type = "integer" -> v.json = "number" /\ v.parts % Unit = 0
    [] s.type = "boolean" -> v.json = "boolean"
    [] s.type = "string"  -> v.json = "string" /\ v.text \in s.enum
    [] OTHER -> FALSE

\* A closed object has its required members, no other, and each fits.
FitsObject(s, v, Fits(_, _)) ==
  /\ IsReadable(v)
  /\ s.required = {v.members[i].name : i \in DOMAIN v.members}
  /\ \A n \in s.required : Fits(s.properties[n], LastOf(v.members, n))

FitsProperty(s, v) ==
  IF "ref" \in DOMAIN s THEN FitsObject(Schema.defs[s.ref], v, FitsValue) ELSE FitsValue(s, v)

FitsSchema(v) ==
  LET FitsAnswers(s, answers) == FitsObject(Schema.defs[s.ref], answers, FitsProperty)
  IN FitsObject(Schema.root, v, FitsAnswers)

\* The bounds the schema leaves out, of a value that fits it.
InBounds(question, v) ==
  CASE v.json = "object" ->
         \A l \in ToSet(Labels(question)) : LastOf(v.members, l).parts \in 0..Unit
    [] v.json = "number" /\ call.mode = "probabilities" -> v.parts \in 0..Unit
    [] v.json = "number" /\ call.mode = "discrete" ->
         v.integer /\ v.parts >= 0 /\ v.parts < Unit * Len(question.outcomes)
    [] OTHER -> TRUE

\* The text is one JSON value, at most with a fence and white space around it.
IsWhole(pieces) ==
  /\ Sift(pieces, {i \in DOMAIN pieces : pieces[i] # "space"}) \in
       {<<"value">>, <<"fence", "value">>, <<"fence", "json", "value">>,
        <<"fence", "value", "fence">>, <<"fence", "json", "value", "fence">>}
  /\ \A i \in DOMAIN pieces : pieces[i] = "json" => pieces[i - 1] = "fence"

Questions == asked.questions
AnswersOf(r) == LastOf(Replies[r].value.members, "answers")

\* The reply answers this question as asked.
AnswersQuestion(r, question) ==
  LET s == Schema.defs[AnswersDef].properties[question.id] IN
  /\ Has(AnswersOf(r).members, question.id)
  /\ FitsProperty(s, LastOf(AnswersOf(r).members, question.id))
  /\ InBounds(question, LastOf(AnswersOf(r).members, question.id))

\* The last call, when it got a reply.
LastReply == IF attempts # <<>> /\ attempts[Len(attempts)].outcome = "reply"
               THEN {attempts[Len(attempts)].text} ELSE {}

-----------------------------------------------------------------------------
(* Properties. *)

\* The trace explains itself: every call but the last has one reason for the
\* retry that followed it, in order, with the text of that very failure or what
\* was wrong with that very reply; a reply that is no answer is not repeated.
ReasonsExplain ==
  /\ pc \in {"asking", "sleeping", "answered", "unfit", "failed", "refused", "malformed"} =>
       Len(reasons) = Len(attempts) - (IF pc = "asking" THEN 0 ELSE 1)
  /\ \A i \in DOMAIN reasons :
       LET call_i == attempts[i] IN
       reasons[i] = IF call_i.outcome = "reply"
                      THEN [category |-> "malformed_structure", text |-> Message(call_i.text)]
                      ELSE [category |-> "provider_error", text |-> call_i.text]
  /\ \A i \in DOMAIN attempts : attempts[i].outcome = "nonanswer" => i = Len(attempts) /\ pc # "asking"
  /\ pc = "malformed" => result = Message(attempts[Len(attempts)].text)

\* What is wrong with a reply goes to the next call after what its own call
\* carried; a call that failed leaves what it carried.
Leaves(i) ==
  IF attempts[i].outcome = "reply"
    THEN Append(attempts[i].messages,
                [reply |-> attempts[i].text, message |-> Message(attempts[i].text)])
    ELSE attempts[i].messages

\* A call carries the document and, in order, each reply that was refused before
\* it with what was wrong with that one; a repeated call carries the same again;
\* and no more replies are corrected than the caller allows.
CarriesCorrections ==
  /\ Len(messages) <= MaxCorrective /\ usage.n_malformed <= MaxCorrective
  /\ \A i \in DOMAIN attempts :
       attempts[i].messages = IF i = 1 THEN <<>> ELSE Leaves(i - 1)

\* The tokens the first n calls reported.
TokensOf(calls) ==
  LET tokens[n \in 0..Len(calls)] ==
        IF n = 0 THEN 0
        ELSE tokens[n - 1] + (IF calls[n].tokens = None THEN 0 ELSE calls[n].tokens)
  IN tokens

\* The usage of an answer counts every call of its trace once, and its total is
\* the sum of what the replies reported: unknown if one reported nothing or the
\* sum does not fit, however the rest turned out.
UsageTells ==
  LET known == \A i \in DOMAIN attempts : attempts[i].outcome = "reply" => attempts[i].tokens # None
      sum == TokensOf(attempts)[Len(attempts)]
  IN pc = "answered" =>
       /\ usage.n_retries + usage.n_malformed + 1 = Len(attempts)
       /\ usage.n_malformed = Len(messages)
       /\ usage.last = attempts[Len(attempts)].tokens
       /\ usage.total = IF ~known THEN None ELSE IF sum > MaxCount THEN None ELSE sum

\* A reply is accepted exactly if its text is one JSON value that fits the schema
\* the model was told, within the bounds the schema does not carry.
SchemaAgrees ==
  \A r \in LastReply :
    LET v == Replies[r].value IN
    Problems(r) = <<>> <=>
      /\ IsWhole(Replies[r].pieces)
      /\ FitsSchema(v)
      /\ \A i \in DOMAIN Questions : AnswersQuestion(r, Questions[i])

\* The problems of a refused reply are complete: there is one at least, each
\* question that is not answered as asked is named by one, and no other is.
CorrectionsComplete ==
  \A r \in LastReply :
    LET v == Replies[r].value
        problems == ToSet(Problems(r))
        Names(p, question) ==
          \/ IsPrefix(<<"answers", question.id>>, p.at)
          \/ p = Missing(AnswersAt, question.id)
    IN /\ pc \notin {"answered", "unfit"} => problems # {}
       /\ (IsWhole(Replies[r].pieces) /\ IsReadable(v)) =>
            IF ~Has(v.members, "answers") THEN Missing(Reply, "answers") \in problems
            ELSE IsReadable(AnswersOf(r)) =>
              \A i \in DOMAIN Questions :
                \/ (\E p \in problems : Names(p, Questions[i])) <=> ~AnswersQuestion(r, Questions[i])
                \/ Problem("NotJson", Reply) \in problems

\* The answers are those of the accepted reply: under its own label, the value
\* written last; rescaled only if that is asked for and they miss the unit, with
\* what the model gave beside them; a choice is the first of the likeliest labels,
\* a score lies among the levels that have weight.
AnswersTell ==
  pc = "answered" =>
    \A r \in LastReply : \A i \in DOMAIN Questions :
      LET question == Questions[i]
          v == LastOf(AnswersOf(r).members, question.id)
          a == result.answers[question.id]
          p == a.probabilities.parts
          whole == a.probabilities.whole
          labels == Labels(question)
          weights == [k \in DOMAIN labels |->
                        IF v.json = "object" THEN LastOf(v.members, labels[k]).parts
                        ELSE IF v.json = "string" THEN IF v.text = labels[k] THEN Unit ELSE 0
                        ELSE IF v.parts = (k - 1) * Unit THEN Unit ELSE 0]
          misses == Distance(Sum(weights), Unit) > Tolerance
          likeliest == {k \in DOMAIN p : \A l \in DOMAIN p : p[l] <= p[k]}
      IN IF question.kind = "noul"
           THEN a.probability = IF call.mode = "probabilities" THEN <<v.parts, Unit>>
                                ELSE IF v.is THEN <<1, 1>> ELSE <<0, 1>>
           ELSE /\ IF call.normalize /\ misses
                     THEN /\ Sum(p) = whole
                          /\ \A k, l \in DOMAIN p : p[k] * weights[l] = p[l] * weights[k]
                          /\ question.id \in DOMAIN result.probabilities.originals
                          /\ result.probabilities.originals[question.id] = weights
                     ELSE /\ \A k \in DOMAIN p : p[k] * Unit = weights[k] * whole
                          /\ question.id \notin DOMAIN result.probabilities.originals
                /\ question.id \in DOMAIN result.probabilities.errors <=> misses
                /\ a.confidence[1] \in 0..a.confidence[2]
                /\ a.confidence[1] = a.confidence[2] <=> Cardinality({k \in DOMAIN p : p[k] > 0}) = 1
                /\ question.kind = "choice" => a.choice = labels[Min(likeliest)]
                /\ question.kind = "score" =>
                     \E low, high \in DOMAIN p :
                       /\ Sum(p) = 0 \/ (p[low] > 0 /\ p[high] > 0)
                       /\ a.score[1] >= (low - 1) * a.score[2]
                       /\ a.score[1] <= (high - 1) * a.score[2]
===========================================================================
