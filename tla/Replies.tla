------------------------------- MODULE Replies -------------------------------
(***************************************************************************)
(* What a built-in provider reads out of a success response, for each of   *)
(* the four vendor APIs (crates/adapter/src/provider/openai.rs,            *)
(* anthropic.rs, gemini.rs).                                               *)
(*                                                                         *)
(* A text is a sequence of tokens.  What the properties tell apart is how  *)
(* a text spells the API key: as the search for it finds it ("key"), with  *)
(* a JSON escape that decoding resolves ("escaped"), with a control        *)
(* character whose escape spells it ("tabbed"), or cut off ("part").       *)
(***************************************************************************)
EXTENDS Lists, SequencesExt

CONSTANT None  \* stands for a member a reply does not have

Apis == {"responses", "chat_completions", "messages", "interactions"}

Tokens == {"word", "key", "escaped", "tabbed", "part", "finished", "max_tokens"}

\* The stop reason of a finished reply (`completed`, `stop`, `end_turn`) and
\* of one cut at the output token limit.
Finished == <<"finished">>
CutShort == <<"max_tokens">>

\* A body: the stop reason, why it is incomplete (responses), the message of
\* an error, the rest of its text, whether it is JSON and has the vendor's shape, whether
\* both token counts are there, and the output.  The output is a sequence of
\* steps, choices for chat_completions; a step's content is a sequence of
\* items, each with its kind and an identity.  A "bare" item is of the text
\* kind and has no text.  Only a cut leaves a part of a key.
Steps == {"answer", "input", "other"}
Items == {"text", "bare", "refusal", "other"}
Written == Tokens \ {"part"}
Text == Seq(Written)
Maybe(S) == S \cup {None}
Body ==
  [stop: Maybe(Text), why: Maybe(Text), message: Maybe(Text), rest: Text,
   json: BOOLEAN, shape: BOOLEAN, counts: BOOLEAN,
   output: Seq([kind: Steps, content: Maybe(Seq([kind: Items, id: Nat \X Nat]))])]

\* The string a JSON string decodes to.
Decode(t) == [i \in DOMAIN t |-> IF t[i] = "escaped" THEN "key" ELSE t[i]]

Answer(items) == [answers |-> TRUE, text |-> items]
Refuse(reason) == [answers |-> FALSE, reason |-> reason]
Fixed == <<"word">>  \* a reason, or a part of one, of the provider's own

Content(step) == IF step.content = None THEN <<>> ELSE step.content
Texts(items) == Sift(items, {i \in DOMAIN items : items[i].kind = "text"})
Because(t) == IF t = None THEN <<>> ELSE Fixed \o Decode(t)

Messages(output) == Sift(output, {i \in DOMAIN output : output[i].kind = "answer"})
Parts(output) == Flat([i \in DOMAIN Messages(output) |-> Content(Messages(output)[i])])
Refusals(items) == {i \in DOMAIN items : items[i].kind = "refusal"}

\* read_responses: every output_text part of every message item, unless one
\* of their parts is a refusal.
ReadResponses(b) ==
  IF ~b.shape \/ b.stop = None THEN Refuse(Fixed)
  ELSE IF b.stop # Finished THEN Refuse(Fixed \o Decode(b.stop) \o Because(b.why))
  ELSE IF Refusals(Parts(b.output)) # {} THEN Refuse(Fixed)
  ELSE Answer(Texts(Parts(b.output)))

\* Only the first choice is read, and there has to be one.
IsChat(b) == b.shape /\ b.output # <<>>

\* read_chat: the content of the first choice, empty when it is null.
ReadChat(b) ==
  IF ~IsChat(b) THEN Refuse(Fixed)
  ELSE IF b.stop \notin {None, Finished} THEN Refuse(Fixed \o Decode(b.stop))
  ELSE Answer(Texts(Content(b.output[1])))

\* The content of a Messages reply is a list, and a text block has its text.
IsMessage(b) ==
  /\ b.shape /\ b.output # <<>> /\ b.output[1].content # None
  /\ \A i \in DOMAIN b.output[1].content : b.output[1].content[i].kind # "bare"

\* read_reply of anthropic.rs: the text blocks of a message that was not cut.
ReadMessages(b) ==
  IF ~IsMessage(b) \/ b.stop = CutShort THEN Refuse(Fixed)
  ELSE IF b.stop \notin {None, Finished} THEN Refuse(Fixed \o Decode(b.stop))
  ELSE Answer(Texts(b.output[1].content))

-----------------------------------------------------------------------------
(* gemini.rs: output_text, a walk from the last item backwards. *)

\* The walk goes on over what is no text until it has text, and ends there.
Skip(w) == [w EXCEPT !.over = w.parts # <<>>]

WalkItem(item, w) ==
  IF w.over THEN w
  ELSE IF item.kind \in {"text", "bare"} THEN [w EXCEPT !.parts = <<item>> \o @]
  ELSE Skip(w)

\* Mutant: a walk that has text goes on over a step without content.
WalkStepOn(step, w) ==
  IF w.over \/ step.kind = "input" THEN [w EXCEPT !.over = TRUE]
  ELSE IF step.kind = "answer" /\ step.content # None THEN Backwards(WalkItem, step.content, w)
  ELSE w

WalkStep(step, w) ==
  IF w.over \/ step.kind = "input" THEN [w EXCEPT !.over = TRUE]
  ELSE IF step.kind = "answer" /\ step.content # None THEN Backwards(WalkItem, step.content, w)
  ELSE Skip(w)

\* A text item without a text is collected, and is the empty text.
OutputText(output) ==
  Texts(Backwards(WalkStep, output, [parts |-> <<>>, over |-> FALSE]).parts)

\* result: a completed interaction that reports both token counts.
ReadInteraction(b) ==
  IF b.stop = None THEN Refuse(Fixed)
  ELSE IF b.stop # Finished THEN Refuse(Fixed \o Decode(b.stop))
  ELSE IF b.counts THEN Answer(OutputText(b.output))
  ELSE Refuse(Fixed)

Read(api, b) ==
  CASE api = "responses" -> ReadResponses(b)
    [] api = "chat_completions" -> ReadChat(b)
    [] api = "messages" -> ReadMessages(b)
    [] api = "interactions" -> ReadInteraction(b)

\* Whether the body is a reply of this API; an interaction needs a status.
IsReply(api, b) ==
  CASE api = "responses" -> b.shape
    [] api = "chat_completions" -> IsChat(b)
    [] api = "messages" -> IsMessage(b)
    [] api = "interactions" -> b.stop # None

\* The stop reason recorded in the trace: none for a body that is no reply.
StopRecorded(api, b) == IF b.stop = None \/ ~IsReply(api, b) THEN None ELSE Decode(b.stop)

-----------------------------------------------------------------------------
(* What output_text is meant to return, stated without a walk. *)

\* The items after the last user_input, a wall for each step that has none.
AfterInput(output) ==
  LET inputs == {i \in DOMAIN output : output[i].kind = "input"}
      from == IF inputs = {} THEN 1 ELSE 1 + CHOOSE i \in inputs : \A j \in inputs : j <= i
      after == SubSeq(output, from, Len(output))
  IN  Flat([i \in DOMAIN after |->
        IF after[i].kind = "answer" /\ after[i].content # None
          THEN after[i].content ELSE <<[kind |-> "wall", id |-> None]>>])

\* The last run of text items with nothing between them.
LastRun(items) ==
  LET isText(i) == items[i].kind \in {"text", "bare"}
      runs == {r \in (DOMAIN items) \X (DOMAIN items) :
                 /\ r[1] <= r[2] /\ \A i \in r[1]..r[2] : isText(i)
                 /\ \A i \in DOMAIN items : i > r[2] => ~isText(i)}
  IN  IF runs = {} THEN <<>>
      ELSE LET run == CHOOSE r \in runs : \A s \in runs : r[1] <= s[1]
           IN  Texts(SubSeq(items, run[1], run[2]))
==============================================================================
