---------------------------- MODULE EvaluateProofs ----------------------------
(***************************************************************************)
(* What a call of the adapter keeps, for every set of questions, every     *)
(* repertoire of replies and every limit.                                  *)
(*                                                                         *)
(* First the loop: its trace, the corrections its requests carry, and its  *)
(* usage tell the same story, whatever the decoder makes of a reply.  Then *)
(* the decoder: it takes the replies the schema describes and blames the   *)
(* questions that are not answered as asked.  Last the answers: they are   *)
(* what the accepted reply says.                                           *)
(***************************************************************************)
EXTENDS Evaluate, Inductions, SequenceTheorems, FiniteSetTheorems

\* What the model may be told of a reply.
Told == {ValidationMessage(Decoded[s][m][r].problems) :
           s \in Askable, m \in Modes, r \in DOMAIN Replies}

\* A correction, what a call may report, a call of the trace, a reason in it.
Corrections == [reply : DOMAIN Replies, message : Told]
Tokens == (0..MaxCount) \cup {None}
Calls == [messages : Seq(Corrections), outcome : {"reply", "error", "nonanswer"},
          text : DOMAIN Replies \cup Texts, tokens : Tokens]
Reasons == [category : {"provider_error", "malformed_structure"}, text : Texts \cup {NoText} \cup Told]

\* Where a call is that has asked.
Asking == {"asking", "sleeping", "answered", "unfit", "failed", "refused", "malformed"}

\* The types of the state.
TypeOK ==
  /\ call \in [set : DOMAIN QuestionSets, mode : Modes, normalize : BOOLEAN]
  /\ pc \in Asking \cup {"ready", "invalid", "dropped"}
  /\ pc \in Asking => call.set \in Askable
  /\ retry \in 0..MaxRetries
  /\ failure \in Texts \cup {None}
  /\ messages \in Seq(Corrections)
  /\ attempts \in Seq(Calls)
  /\ reasons \in Seq(Reasons)
  /\ usage \in [n_retries : Nat, n_malformed : 0..MaxCorrective, last : Tokens, total : Tokens]

\* Where the call is, by its trace: what waits to be repeated is the failure of
\* the last call, and every retry has its reason.
InStep ==
  /\ pc \in {"ready", "invalid"} => attempts = <<>>
  /\ pc \in {"ready", "invalid", "asking"} => Len(reasons) = Len(attempts)
  /\ pc \in Asking \ {"asking"} => Len(reasons) + 1 = Len(attempts)
  /\ pc = "dropped" => Len(reasons) <= Len(attempts)
  /\ pc = "sleeping" =>
       /\ attempts[Len(attempts)].outcome = "error"
       /\ failure \in Texts /\ failure = attempts[Len(attempts)].text
       /\ retry < MaxRetries

\* The reason for the retry that follows a call.
ReasonFor(i) ==
  IF attempts[i].outcome = "reply"
    THEN [category |-> "malformed_structure", text |-> Message(attempts[i].text)]
    ELSE [category |-> "provider_error", text |-> attempts[i].text]

\* Each call but the last has its reason.
Explained ==
  /\ \A i \in DOMAIN reasons : reasons[i] = ReasonFor(i)
  /\ \A i \in DOMAIN attempts :
       attempts[i].outcome = "nonanswer" => i = Len(attempts) /\ pc # "asking"
  /\ pc = "malformed" => result = Message(attempts[Len(attempts)].text)

\* What the next call would carry is what the last one leaves.
Carried ==
  /\ \A i \in DOMAIN attempts : attempts[i].messages = IF i = 1 THEN <<>> ELSE Leaves(i - 1)
  /\ pc \in {"ready", "asking", "sleeping"} =>
       messages = IF attempts = <<>> THEN <<>> ELSE Leaves(Len(attempts))

\* The counters, of a call that goes on and of one that is over: the retries of
\* the turn that a reply ends are in the usage.
Counted ==
  /\ usage.n_malformed = Len(messages)
  /\ usage.n_retries + usage.n_malformed
       + (IF pc \in {"answered", "unfit", "malformed"} THEN 0 ELSE retry) = Len(reasons)
  /\ pc \in {"answered", "unfit", "malformed"} => usage.last = attempts[Len(attempts)].tokens

\* The total of the usage, of the calls made so far.
AllTold(calls) == \A i \in DOMAIN calls : calls[i].outcome = "reply" => calls[i].tokens # None
TotalOf(calls) ==
  LET sum == TokensOf(calls)[Len(calls)] IN
  IF ~AllTold(calls) THEN None ELSE IF sum > MaxCount THEN None ELSE sum

Totalled ==
  /\ usage.total = TotalOf(attempts)
  /\ \A i \in DOMAIN attempts : attempts[i].outcome # "reply" => attempts[i].tokens = None

\* The inductive invariant of the loop.
IInv == TypeOK /\ InStep /\ Explained /\ Carried /\ Counted /\ Totalled

-----------------------------------------------------------------------------
(* The trace grows by one call at a time. *)

\* What a step leaves of the call asked is what it told of a reply.
LEMMA SameMessage ==
  ASSUME UNCHANGED call, NEW r PROVE Message(r)' = Message(r)
BY DEF Message, Problems

\* What the model is told of a reply has its type.
LEMMA MessageTyped ==
  ASSUME TypeOK, call.set \in Askable, NEW r \in DOMAIN Replies PROVE Message(r) \in Told
<1>1. call.mode \in Modes
  BY DEF TypeOK
<1>2. ASSUME NEW s \in Askable, NEW m \in Modes
      PROVE  ValidationMessage(Decoded[s][m][r].problems) \in Told
  BY DEF Told
<1>3. QED
  BY <1>1, <1>2 DEF Message, Problems

\* What Append gives, position by position.
LEMMA Appended ==
  ASSUME NEW S, NEW seq \in Seq(S), NEW e \in S
  PROVE  /\ Append(seq, e) \in Seq(S)
         /\ Len(seq) \in Nat /\ DOMAIN seq = 1..Len(seq)
         /\ Len(Append(seq, e)) = Len(seq) + 1
         /\ DOMAIN Append(seq, e) = 1..(Len(seq) + 1)
         /\ \A i \in 1..Len(seq) : Append(seq, e)[i] = seq[i]
         /\ Append(seq, e)[Len(seq) + 1] = e
BY AppendProperties, LenProperties

\* A recorded call is one more at the end of the trace.
LEMMA Recorded ==
  ASSUME TypeOK, NEW outcome \in {"reply", "error", "nonanswer"},
         NEW text \in DOMAIN Replies \cup Texts, NEW tokens \in Tokens,
         Record(outcome, text, tokens)
  PROVE  /\ attempts' \in Seq(Calls)
         /\ Len(attempts) \in Nat /\ DOMAIN attempts = 1..Len(attempts)
         /\ Len(attempts') = Len(attempts) + 1
         /\ DOMAIN attempts' = 1..(Len(attempts) + 1)
         /\ \A i \in 1..Len(attempts) : attempts'[i] = attempts[i]
         /\ attempts'[Len(attempts) + 1] =
              [messages |-> messages, outcome |-> outcome, text |-> text, tokens |-> tokens]
<1> DEFINE made == [messages |-> messages, outcome |-> outcome, text |-> text, tokens |-> tokens]
<1>1. attempts \in Seq(Calls) /\ made \in Calls
  BY DEF TypeOK, Calls
<1>2. attempts' = Append(attempts, made)
  BY DEF Record
<1> HIDE DEF made
<1>3. QED
  <2>1. /\ Append(attempts, made) \in Seq(Calls)
        /\ Len(attempts) \in Nat /\ DOMAIN attempts = 1..Len(attempts)
        /\ Len(Append(attempts, made)) = Len(attempts) + 1
        /\ DOMAIN Append(attempts, made) = 1..(Len(attempts) + 1)
        /\ \A i \in 1..Len(attempts) : Append(attempts, made)[i] = attempts[i]
        /\ Append(attempts, made)[Len(attempts) + 1] = made
    BY <1>1, Appended
  <2>2. QED
    BY <1>2, <2>1 DEF made

\* What a call leaves is not changed by the calls after it.
LEMMA LeavesKept ==
  ASSUME UNCHANGED call, NEW i, attempts'[i] = attempts[i]
  PROVE  Leaves(i)' = Leaves(i)
<1>1. Message(attempts[i].text)' = Message(attempts'[i].text)
  BY DEF Message, Problems
<1>2. Message(attempts'[i].text) = Message(attempts[i].text)
  OBVIOUS
<1>3. QED
  BY <1>1, <1>2 DEF Leaves

-----------------------------------------------------------------------------
(* The sum of the tokens, call by call. *)

\* The tokens a call reported.
Reported(calls, i) == IF calls[i].tokens = None THEN 0 ELSE calls[i].tokens

\* The calls of the trace are calls.
LEMMA CallTyped ==
  ASSUME NEW calls \in Seq(Calls), NEW i \in 1..Len(calls)
  PROVE  calls[i] \in Calls /\ calls[i].tokens \in Tokens /\ Reported(calls, i) \in Nat
<1>1. calls[i] \in Calls
  BY ElementOfSeq, Zenon
<1>2. calls[i].tokens \in Tokens
  BY <1>1 DEF Calls
<1>3. QED
  BY <1>1, <1>2, EvaluateAssumption DEF Tokens, Reported

LEMMA TokensUnfold ==
  ASSUME NEW calls \in Seq(Calls)
  PROVE  /\ TokensOf(calls)[0] = 0
         /\ \A n \in 1..Len(calls) :
              TokensOf(calls)[n] = TokensOf(calls)[n - 1] + Reported(calls, n)
         /\ \A n \in 0..Len(calls) : TokensOf(calls)[n] \in Nat
<1> DEFINE length == Len(calls)
           step == [p \in Nat \X Nat |->
                      p[2] + (IF p[1] \in 1..length THEN Reported(calls, p[1]) ELSE 0)]
           Is(f) == f = [n \in 0..length |->
                           IF n = 0 THEN 0
                           ELSE f[n - 1] + (IF calls[n].tokens = None THEN 0 ELSE calls[n].tokens)]
<1>1. length \in Nat
  BY LenProperties
<1>2. \A i \in 1..length : Reported(calls, i) \in Nat
  BY CallTyped
<1> HIDE DEF length
<1>3. step \in [(Nat \X Nat) -> Nat]
  BY <1>2
<1>4. PICK g \in [0..length -> Nat] : Recursive(g, 0..length, 0, step)
  <2> HIDE DEF step
  <2>1. QED
    BY <1>1, <1>3, RecursionUpTo
<1>5. g[0] = 0 /\ \A i \in 1..length : g[i] = g[i - 1] + Reported(calls, i)
  <2>1. \A i \in 1..length : i \in (0..length) \ {0} /\ i \in Nat /\ i - 1 \in 0..length
    BY <1>1
  <2>2. \A i \in 1..length : g[i - 1] \in Nat
    BY <1>4, <2>1
  <2>3. \A i \in 1..length : g[i] = step[<<i, g[i - 1]>>]
    BY <1>4, <2>1, Zenon DEF Recursive
  <2>4. g[0] = 0
    BY <1>4 DEF Recursive
  <2>5. QED
    BY <2>1, <2>2, <2>3, <2>4
<1>6. Is(g)
  BY <1>1, <1>5 DEF Reported
<1>7. TokensOf(calls) = CHOOSE f : Is(f)
  BY DEF TokensOf, length
<1> HIDE DEF step
<1>8. Is(TokensOf(calls))
  <2> HIDE DEF Is
  <2>1. QED
    BY <1>6, <1>7
<1> DEFINE f == TokensOf(calls)
<1>9. f[0] = 0 /\ \A n \in 1..length : f[n] = f[n - 1] + Reported(calls, n)
  <2> HIDE DEF f
  <2>1. Is(f)
    BY <1>8 DEF f
  <2>2. \A n \in 0..length :
          f[n] = IF n = 0 THEN 0
                 ELSE f[n - 1] + (IF calls[n].tokens = None THEN 0 ELSE calls[n].tokens)
    BY <2>1
  <2>3. QED
    BY <1>1, <2>2 DEF Reported
<1> HIDE DEF f, Is
<1> DEFINE summed == {n \in Nat : n <= length => f[n] \in Nat}
<1>10. 0 \in summed
  BY <1>9
<1>11. ASSUME NEW n \in Nat, n \in summed PROVE n + 1 \in summed
  <2>1. SUFFICES ASSUME n + 1 <= length PROVE f[n + 1] \in Nat
    OBVIOUS
  <2>2. n + 1 \in 1..length /\ (n + 1) - 1 = n /\ f[n] \in Nat
    BY <1>1, <1>11, <2>1
  <2>3. QED
    BY <1>2, <1>9, <2>2
<1> HIDE DEF summed
<1>12. Nat \subseteq summed
  BY <1>10, <1>11, NatSetInduction
<1>13. \A n \in 0..length : f[n] \in Nat
  BY <1>1, <1>12 DEF summed
<1>14. QED
  BY <1>9, <1>13 DEF f, length

\* One more call adds what it reported.
LEMMA TokensGrow ==
  ASSUME NEW calls \in Seq(Calls), NEW more \in Seq(Calls), Len(more) = Len(calls) + 1,
         \A i \in 1..Len(calls) : more[i] = calls[i]
  PROVE  TokensOf(more)[Len(more)] = TokensOf(calls)[Len(calls)] + Reported(more, Len(more))
<1> DEFINE alike == {n \in Nat : n <= Len(calls) => TokensOf(more)[n] = TokensOf(calls)[n]}
<1>1. Len(calls) \in Nat
  BY LenProperties
<1>2. 0 \in alike
  BY TokensUnfold
<1>3. ASSUME NEW n \in Nat, n \in alike PROVE n + 1 \in alike
  <2>1. SUFFICES ASSUME n + 1 <= Len(calls)
                 PROVE  TokensOf(more)[n + 1] = TokensOf(calls)[n + 1]
    OBVIOUS
  <2>2. n + 1 \in 1..Len(calls) /\ n + 1 \in 1..Len(more) /\ (n + 1) - 1 = n
    BY <1>1, <2>1
  <2>3. Reported(more, n + 1) = Reported(calls, n + 1)
    BY <2>2 DEF Reported
  <2>4. TokensOf(more)[n] = TokensOf(calls)[n]
    BY <1>1, <1>3, <2>1
  <2>5. TokensOf(more)[n + 1] = TokensOf(more)[n] + Reported(more, n + 1)
    BY <2>2, TokensUnfold
  <2>6. TokensOf(calls)[n + 1] = TokensOf(calls)[n] + Reported(calls, n + 1)
    BY <2>2, TokensUnfold
  <2>7. QED
    BY <2>3, <2>4, <2>5, <2>6
<1> HIDE DEF alike
<1>4. Nat \subseteq alike
  BY <1>2, <1>3, NatSetInduction
<1>5. TokensOf(more)[Len(calls)] = TokensOf(calls)[Len(calls)]
  BY <1>1, <1>4 DEF alike
<1>6. Len(more) \in 1..Len(more) /\ Len(more) - 1 = Len(calls)
  BY <1>1
<1>7. QED
  BY <1>5, <1>6, TokensUnfold

\* The total takes in what a reply reported, and nothing of what is no reply.
LEMMA TotalGrows ==
  ASSUME NEW calls \in Seq(Calls), NEW more \in Seq(Calls), NEW last,
         Len(more) = Len(calls) + 1, last = more[Len(more)],
         \A i \in 1..Len(calls) : more[i] = calls[i]
  PROVE  /\ last.outcome = "reply" => TotalOf(more) = Add(TotalOf(calls), last.tokens)
         /\ last.outcome # "reply" /\ last.tokens = None => TotalOf(more) = TotalOf(calls)
<1> DEFINE m == Len(calls)
           n == Len(more)
           before == TokensOf(calls)[m]
           after == TokensOf(more)[n]
<1>1. /\ m \in Nat /\ n = m + 1
      /\ DOMAIN calls = 1..m /\ DOMAIN more = 1..n
  BY LenProperties
<1>2. after = before + Reported(more, n)
  BY TokensGrow
<1>3. before \in Nat
  BY <1>1, TokensUnfold
<1>4. last.tokens \in Tokens /\ Reported(more, n) = IF last.tokens = None THEN 0 ELSE last.tokens
  BY <1>1, CallTyped DEF Reported
<1>5. AllTold(more) <=> AllTold(calls) /\ (last.outcome = "reply" => last.tokens # None)
  <2>1. n \in 1..n /\ \A i \in 1..n : i \in 1..m \/ i = n
    BY <1>1
  <2>2. \A i \in 1..m : i \in 1..n
    BY <1>1
  <2> HIDE DEF m, n
  <2>3. last = more[n] /\ \A i \in 1..m : more[i] = calls[i]
    BY DEF m, n
  <2>4. QED
    BY <1>1, <2>1, <2>2, <2>3, Zenon DEF AllTold
<1>6. TotalOf(calls) = IF ~AllTold(calls) THEN None ELSE IF before > MaxCount THEN None ELSE before
  BY DEF TotalOf
<1>7. TotalOf(more) = IF ~AllTold(more) THEN None ELSE IF after > MaxCount THEN None ELSE after
  BY DEF TotalOf
<1> HIDE DEF m, n, before, after
<1>8. last.tokens = None \/ last.tokens \in Nat
  BY <1>4, EvaluateAssumption DEF Tokens
<1>9. ASSUME last.outcome = "reply" PROVE TotalOf(more) = Add(TotalOf(calls), last.tokens)
  <2>1. CASE last.tokens = None
    BY <1>5, <1>7, <1>9, <2>1 DEF Add
  <2>2. CASE last.tokens # None
    <3>1. last.tokens \in Nat /\ after = before + last.tokens
      BY <1>2, <1>4, <1>8, <2>2
    <3>2. AllTold(more) <=> AllTold(calls)
      BY <1>5, <2>2
    <3>3. before # None /\ after # None
      BY <1>3, <3>1, EvaluateAssumption
    <3>4. CASE ~AllTold(calls)
      BY <1>6, <1>7, <3>2, <3>4 DEF Add
    <3>5. CASE AllTold(calls) /\ before > MaxCount
      <4>1. after > MaxCount
        BY <1>3, <3>1, <3>5, EvaluateAssumption
      <4>2. QED
        BY <1>6, <1>7, <3>2, <3>5, <4>1 DEF Add
    <3>6. CASE AllTold(calls) /\ ~(before > MaxCount)
      <4>1. TotalOf(calls) = before
        BY <1>6, <3>6
      <4>2. ~(after > MaxCount) <=> before + last.tokens <= MaxCount
        BY <1>3, <3>1, EvaluateAssumption
      <4>3. QED
        BY <1>7, <2>2, <3>1, <3>2, <3>3, <3>6, <4>1, <4>2 DEF Add
    <3>7. QED
      BY <3>4, <3>5, <3>6
  <2>3. QED
    BY <2>1, <2>2
<1>10. ASSUME last.outcome # "reply", last.tokens = None PROVE TotalOf(more) = TotalOf(calls)
  <2>1. after = before
    BY <1>2, <1>3, <1>4, <1>10
  <2>2. QED
    BY <1>5, <1>6, <1>7, <1>10, <2>1
<1>11. QED
  BY <1>9, <1>10

-----------------------------------------------------------------------------
(* The steps. *)

LEMMA InitHolds == Init => IInv
<1> SUFFICES ASSUME Init PROVE IInv
  OBVIOUS
<1>1. TypeOK
  BY EvaluateAssumption, EmptySeq DEF Init, TypeOK, Asking, Tokens
<1>2. Len(attempts) = 0 /\ Len(reasons) = 0 /\ Len(messages) = 0
  BY EmptySeq DEF Init
<1>3. attempts \in Seq(Calls) /\ reasons \in Seq(Reasons)
  BY <1>1 DEF TypeOK
<1>4. DOMAIN attempts = {} /\ DOMAIN reasons = {}
  BY <1>2, <1>3, LenProperties
<1>5. InStep
  BY <1>2 DEF Init, InStep, Asking
<1>6. Explained
  BY <1>4 DEF Init, Explained
<1>7. Carried
  BY <1>4 DEF Init, Carried
<1>8. Counted
  BY <1>2 DEF Init, Counted
<1>9. Totalled
  <2>1. TokensOf(attempts)[0] = 0
    BY <1>3, TokensUnfold
  <2>2. QED
    BY <1>2, <1>4, <2>1, EvaluateAssumption DEF Init, Totalled, TotalOf, AllTold
<1>10. QED
  BY <1>1, <1>5, <1>6, <1>7, <1>8, <1>9 DEF IInv

\* What a finished call changes, whatever came of it: what was told of the calls
\* before it stays, and what it carried is what they left.
LEMMA TraceGrows ==
  ASSUME IInv, pc = "asking", UNCHANGED call,
         NEW outcome \in {"reply", "error", "nonanswer"},
         NEW text \in DOMAIN Replies \cup Texts, NEW tokens \in Tokens,
         Record(outcome, text, tokens)
  PROVE  /\ attempts' \in Seq(Calls) /\ attempts' # <<>>
         /\ Len(attempts) \in Nat /\ Len(attempts') = Len(attempts) + 1
         /\ Len(reasons) = Len(attempts) /\ DOMAIN reasons = 1..Len(attempts)
         /\ attempts'[Len(attempts')] =
              [messages |-> messages, outcome |-> outcome, text |-> text, tokens |-> tokens]
         /\ \A i \in DOMAIN reasons : reasons[i] = ReasonFor(i)'
         /\ \A i \in DOMAIN attempts' : attempts'[i].outcome = "nonanswer" =>
              i = Len(attempts') /\ outcome = "nonanswer"
         /\ \A i \in DOMAIN attempts' :
              attempts'[i].messages = IF i = 1 THEN <<>> ELSE Leaves(i - 1)'
         /\ Leaves(Len(attempts))' =
              IF outcome = "reply"
                THEN Append(messages, [reply |-> text, message |-> Message(text)])
                ELSE messages
<1>1. TypeOK /\ InStep /\ Explained /\ Carried
  BY DEF IInv
<1>0. PICK n : n = Len(attempts)
  OBVIOUS
<1> DEFINE made == [messages |-> messages, outcome |-> outcome, text |-> text, tokens |-> tokens]
<1>2. /\ attempts' \in Seq(Calls)
      /\ n \in Nat /\ DOMAIN attempts = 1..n
      /\ Len(attempts') = n + 1
      /\ DOMAIN attempts' = 1..(n + 1)
      /\ \A i \in 1..n : attempts'[i] = attempts[i]
      /\ attempts'[n + 1] = made
  BY <1>0, <1>1, Recorded
<1>3. attempts' # <<>>
  BY <1>2, EmptySeq
<1>4. Len(reasons) = n /\ DOMAIN reasons = 1..n
  <2>1. Len(reasons) = n
    BY <1>0, <1>1 DEF InStep
  <2>2. QED
    BY <1>1, <2>1, LenProperties DEF TypeOK
<1>5. made.messages = messages /\ made.outcome = outcome /\ made.text = text
  OBVIOUS
<1> HIDE DEF made
<1>7. ASSUME NEW i \in DOMAIN reasons PROVE reasons[i] = ReasonFor(i)'
  <2>1. attempts'[i] = attempts[i] /\ reasons[i] = ReasonFor(i)
    BY <1>1, <1>2, <1>4, <1>7 DEF Explained
  <2>2. Message(attempts[i].text)' = Message(attempts'[i].text)
    BY DEF Message, Problems
  <2>3. QED
    BY <2>1, <2>2 DEF ReasonFor
<1>8. ASSUME NEW i \in DOMAIN attempts', attempts'[i].outcome = "nonanswer"
      PROVE  i = Len(attempts') /\ outcome = "nonanswer"
  <2>1. CASE i \in 1..n
    BY <1>1, <1>2, <1>8, <2>1 DEF Explained
  <2>2. CASE i = n + 1
    BY <1>2, <1>5, <1>8, <2>2
  <2>3. QED
    BY <1>2, <2>1, <2>2
<1>9. ASSUME NEW i \in DOMAIN attempts'
      PROVE  attempts'[i].messages = IF i = 1 THEN <<>> ELSE Leaves(i - 1)'
  <2>1. CASE i \in 1..n
    <3>1. attempts[i].messages = IF i = 1 THEN <<>> ELSE Leaves(i - 1)
      BY <1>1, <1>2, <2>1 DEF Carried
    <3>2. ASSUME i # 1 PROVE Leaves(i - 1)' = Leaves(i - 1)
      <4>1. i - 1 \in 1..n
        BY <1>2, <2>1, <3>2
      <4>2. attempts'[i - 1] = attempts[i - 1]
        BY <1>2, <4>1
      <4>3. QED
        BY <4>2, LeavesKept
    <3>3. QED
      BY <1>2, <2>1, <3>1, <3>2
  <2>2. CASE i = n + 1
    <3>1. attempts'[i].messages = messages
      BY <1>2, <1>5, <2>2
    <3>2. CASE n = 0
      <4>1. attempts = <<>>
        BY <1>0, <1>1, <3>2, EmptySeq DEF TypeOK
      <4>2. QED
        BY <1>1, <2>2, <3>1, <3>2, <4>1 DEF Carried
    <3>3. CASE n # 0
      <4>1. attempts # <<>>
        BY <1>0, <3>3, EmptySeq
      <4>2. messages = Leaves(n)
        BY <1>0, <1>1, <4>1 DEF Carried
      <4>3. n \in 1..n /\ i - 1 = n /\ i # 1
        BY <1>2, <2>2, <3>3
      <4>4. attempts'[n] = attempts[n]
        BY <1>2, <4>3
      <4>5. Leaves(n)' = Leaves(n)
        BY <4>4, LeavesKept
      <4>6. Leaves(i - 1)' = Leaves(n)'
        BY <4>3
      <4>7. QED
        BY <3>1, <4>2, <4>3, <4>5, <4>6
    <3>4. QED
      BY <3>2, <3>3
  <2>3. QED
    BY <1>2, <2>1, <2>2
<1>10. Leaves(Len(attempts))' =
         IF outcome = "reply"
           THEN Append(messages, [reply |-> text, message |-> Message(text)])
           ELSE messages
  <2>1. attempts'[Len(attempts')] = made
    BY <1>2
  <2>2. Message(attempts[Len(attempts)].text)' = Message(text)
    BY <1>5, <2>1 DEF Message, Problems
  <2>3. QED
    BY <1>5, <2>1, <2>2 DEF Leaves
<1>11. QED
  BY <1>0, <1>2, <1>3, <1>4, <1>7, <1>8, <1>9, <1>10 DEF made

\* The total after a finished call: a reply's tokens are in it, a failure's not.
LEMMA TotalKept ==
  ASSUME IInv, pc = "asking", UNCHANGED call,
         NEW outcome \in {"reply", "error", "nonanswer"},
         NEW text \in DOMAIN Replies \cup Texts, NEW tokens \in Tokens,
         Record(outcome, text, tokens),
         outcome # "reply" => tokens = None,
         usage.total' = IF outcome = "reply" THEN Add(usage.total, tokens) ELSE usage.total
  PROVE  Totalled'
<1> DEFINE made == [messages |-> messages, outcome |-> outcome, text |-> text, tokens |-> tokens]
<1>1. attempts \in Seq(Calls) /\ Totalled /\ TypeOK
  BY DEF IInv, TypeOK
<1>2. /\ attempts' \in Seq(Calls)
      /\ Len(attempts) \in Nat /\ DOMAIN attempts = 1..Len(attempts)
      /\ Len(attempts') = Len(attempts) + 1
      /\ DOMAIN attempts' = 1..(Len(attempts) + 1)
      /\ \A i \in 1..Len(attempts) : attempts'[i] = attempts[i]
      /\ attempts'[Len(attempts) + 1] = made
  BY <1>1, Recorded
<1>3. made.outcome = outcome /\ made.tokens = tokens
  OBVIOUS
<1> HIDE DEF made
<1>4. attempts'[Len(attempts')] = made
  BY <1>2
<1>5. /\ outcome = "reply" => TotalOf(attempts') = Add(TotalOf(attempts), tokens)
      /\ outcome # "reply" => TotalOf(attempts') = TotalOf(attempts)
  BY <1>1, <1>2, <1>3, <1>4, TotalGrows
<1>6. usage'.total = TotalOf(attempts')
  BY <1>1, <1>5 DEF Totalled
<1>7. ASSUME NEW i \in DOMAIN attempts', attempts'[i].outcome # "reply"
      PROVE  attempts'[i].tokens = None
  <2>1. CASE i \in 1..Len(attempts)
    BY <1>1, <1>2, <1>7, <2>1 DEF Totalled
  <2>2. CASE i = Len(attempts) + 1
    BY <1>2, <1>3, <1>7, <2>2
  <2>3. QED
    BY <1>2, <2>1, <2>2
<1>8. QED
  BY <1>6, <1>7 DEF Totalled, TotalOf, AllTold

\* A step that finishes no call leaves what the trace tells.
LEMMA TraceKept ==
  ASSUME UNCHANGED <<call, attempts>>
  PROVE  /\ \A i : Leaves(i)' = Leaves(i) /\ ReasonFor(i)' = ReasonFor(i)
         /\ TotalOf(attempts)' = TotalOf(attempts)
<1>1. ASSUME NEW i PROVE Leaves(i)' = Leaves(i) /\ ReasonFor(i)' = ReasonFor(i)
  <2>1. Message(attempts[i].text)' = Message(attempts[i].text)
    BY DEF Message, Problems
  <2>2. QED
    BY <2>1 DEF Leaves, ReasonFor
<1>2. QED
  BY <1>1 DEF TotalOf, AllTold

\* Each action keeps it.
LEMMA SendHolds == ASSUME IInv, Send PROVE IInv'
<1>1. TypeOK'
  BY DEF IInv, TypeOK, Send, Asking
<1>2. QED
  BY <1>1, TraceKept DEF IInv, InStep, Explained, Carried, Counted, Totalled, Send, Asking, TypeOK

LEMMA DropHolds == ASSUME IInv, Drop PROVE IInv'
<1>1. TypeOK'
  BY DEF IInv, TypeOK, Drop, Asking
<1>2. Len(attempts) \in Nat /\ Len(reasons) \in Nat
  BY LenProperties DEF IInv, TypeOK
<1>3. UNCHANGED <<call, attempts>>
  BY DEF Drop
<1>4. InStep'
  BY <1>2 DEF IInv, InStep, Drop, Asking
<1>5. QED
  BY <1>1, <1>3, <1>4, TraceKept DEF IInv, Explained, Carried, Counted, Totalled, Drop

LEMMA StutterHolds == ASSUME IInv, UNCHANGED vars PROVE IInv'
<1>1. UNCHANGED <<call, attempts>>
  BY DEF vars
<1>2. QED
  BY <1>1, TraceKept, SameMessage
     DEF IInv, TypeOK, InStep, Explained, Carried, Counted, Totalled, vars

LEMMA RetryHolds == ASSUME IInv, Retry PROVE IInv'
<1>1. TypeOK /\ InStep /\ Explained /\ Carried /\ Counted /\ Totalled
  BY DEF IInv
<1>2. /\ pc = "sleeping" /\ pc' = "asking" /\ retry' = retry + 1 /\ failure' = None
      /\ UNCHANGED <<call, asked, messages, attempts, usage, result>>
  BY DEF Retry
<1> DEFINE reason == [category |-> "provider_error",
                      text |-> IF failure = None THEN NoText ELSE failure]
           n == Len(reasons)
<1>3. reasons' = Append(reasons, reason)
  BY DEF Retry
<1>4. reason \in Reasons /\ reasons \in Seq(Reasons)
  BY <1>1 DEF TypeOK, Reasons
<1>5. /\ Len(attempts) \in Nat /\ n + 1 = Len(attempts) /\ DOMAIN attempts = 1..(n + 1)
      /\ attempts[n + 1].outcome = "error" /\ failure = attempts[n + 1].text
      /\ retry < MaxRetries /\ n \in Nat
  BY <1>1, <1>2, LenProperties DEF TypeOK, InStep, Asking
<1>6. failure # None
  BY <1>1, <1>2, EvaluateAssumption DEF InStep
<1>7. reason = [category |-> "provider_error", text |-> attempts[n + 1].text]
  BY <1>5, <1>6
<1> HIDE DEF reason
<1>8. /\ reasons' \in Seq(Reasons)
      /\ DOMAIN reasons = 1..n
      /\ Len(reasons') = n + 1
      /\ DOMAIN reasons' = 1..(n + 1)
      /\ \A i \in 1..n : reasons'[i] = reasons[i]
      /\ reasons'[n + 1] = reason
  BY <1>3, <1>4, Appended
<1> HIDE DEF n
<1>9. TypeOK'
  <2>1. retry' \in 0..MaxRetries
    BY <1>1, <1>2, <1>5, EvaluateAssumption DEF TypeOK
  <2>2. QED
    BY <1>1, <1>2, <1>8, <2>1 DEF TypeOK, Asking
<1>10. InStep'
  BY <1>2, <1>5, <1>8 DEF InStep, Asking
<1>11. Explained'
  <2>1. ASSUME NEW i \in DOMAIN reasons' PROVE reasons'[i] = ReasonFor(i)'
    <3>1. ReasonFor(i)' = ReasonFor(i)
      BY <1>2, TraceKept
    <3>2. CASE i \in 1..n
      BY <1>1, <1>8, <3>1, <3>2 DEF Explained
    <3>3. CASE i = n + 1
      BY <1>5, <1>7, <1>8, <3>1, <3>3 DEF ReasonFor
    <3>4. QED
      BY <1>5, <1>8, <3>2, <3>3
  <2>2. ASSUME NEW i \in DOMAIN attempts, attempts[i].outcome = "nonanswer" PROVE FALSE
    BY <1>1, <1>5, <2>2 DEF Explained
  <2>3. QED
    BY <1>2, <2>1, <2>2 DEF Explained
<1>12. Carried'
  BY <1>1, <1>2, TraceKept DEF Carried
<1>13. Counted'
  <2>1. retry \in Nat /\ usage.n_retries \in Nat /\ usage.n_malformed \in Nat
    BY <1>1, EvaluateAssumption DEF TypeOK
  <2>2. usage.n_retries + usage.n_malformed + retry = n
    BY <1>1, <1>2 DEF Counted, n
  <2>3. usage.n_retries + usage.n_malformed + (retry + 1) = n + 1
    BY <2>1, <2>2, SMTT(60)
  <2>4. QED
    BY <1>1, <1>2, <1>8, <2>3 DEF Counted
<1>14. Totalled'
  BY <1>1, <1>2, TraceKept DEF Totalled
<1>15. QED
  BY <1>9, <1>10, <1>11, <1>12, <1>13, <1>14 DEF IInv

LEMMA CallFailsHolds == ASSUME IInv, NEW text \in Texts, CallFails(text) PROVE IInv'
<1>1. TypeOK /\ InStep /\ Explained /\ Carried /\ Counted
  BY DEF IInv
<1>2. /\ pc = "asking" /\ Record("error", text, None) /\ failure' = text /\ text \in Texts
      /\ pc' \in {"sleeping", "failed"} /\ (pc' = "sleeping" => retry < MaxRetries)
      /\ UNCHANGED <<call, asked, retry, messages, reasons, usage, result>>
  BY DEF CallFails
<1> DEFINE made == [messages |-> messages, outcome |-> "error", text |-> text, tokens |-> None]
           n == Len(attempts)
<1>3. /\ attempts' \in Seq(Calls) /\ attempts' # <<>>
      /\ n \in Nat /\ Len(attempts') = n + 1 /\ Len(reasons) = n
      /\ attempts'[n + 1] = made
      /\ \A i \in DOMAIN reasons : reasons[i] = ReasonFor(i)'
      /\ \A i \in DOMAIN attempts' : attempts'[i].outcome # "nonanswer"
      /\ \A i \in DOMAIN attempts' :
           attempts'[i].messages = IF i = 1 THEN <<>> ELSE Leaves(i - 1)'
      /\ Leaves(Len(attempts))' = messages
  BY <1>2, TraceGrows DEF Tokens
<1>4. made.outcome = "error" /\ made.text = text
  OBVIOUS
<1> HIDE DEF made, n
<1>5. TypeOK'
  BY <1>1, <1>2, <1>3 DEF TypeOK, Asking
<1>6. InStep'
  BY <1>2, <1>3, <1>4 DEF InStep, Asking
<1>7. Explained'
  BY <1>2, <1>3 DEF Explained
<1>8. Carried'
  BY <1>2, <1>3 DEF Carried
<1>9. Counted'
  BY <1>1, <1>2 DEF Counted
<1>10. Totalled'
  <2>1. usage.total' = usage.total
    BY <1>2
  <2>2. QED
    BY <1>2, <2>1, TotalKept DEF Tokens
<1>11. QED
  BY <1>5, <1>6, <1>7, <1>8, <1>9, <1>10 DEF IInv

LEMMA NonAnswerHolds == ASSUME IInv, NEW text \in Texts, NonAnswer(text) PROVE IInv'
<1>1. TypeOK /\ InStep /\ Explained /\ Carried /\ Counted
  BY DEF IInv
<1>2. /\ pc = "asking" /\ Record("nonanswer", text, None) /\ pc' = "refused"
      /\ UNCHANGED <<call, asked, retry, failure, messages, reasons, usage, result>>
  BY DEF NonAnswer
<1>3. /\ attempts' \in Seq(Calls)
      /\ Len(attempts) \in Nat /\ Len(attempts') = Len(attempts) + 1
      /\ Len(reasons) = Len(attempts)
      /\ \A i \in DOMAIN reasons : reasons[i] = ReasonFor(i)'
      /\ \A i \in DOMAIN attempts' : attempts'[i].outcome = "nonanswer" => i = Len(attempts')
      /\ \A i \in DOMAIN attempts' :
           attempts'[i].messages = IF i = 1 THEN <<>> ELSE Leaves(i - 1)'
  BY <1>2, TraceGrows DEF Tokens
<1>4. TypeOK'
  BY <1>1, <1>2, <1>3 DEF TypeOK, Asking
<1>5. InStep'
  BY <1>2, <1>3 DEF InStep, Asking
<1>6. Explained'
  BY <1>2, <1>3 DEF Explained
<1>7. Carried'
  BY <1>2, <1>3 DEF Carried
<1>8. Counted'
  BY <1>1, <1>2 DEF Counted
<1>9. Totalled'
  <2>1. usage.total' = usage.total
    BY <1>2
  <2>2. QED
    BY <1>2, <2>1, TotalKept DEF Tokens
<1>10. QED
  BY <1>4, <1>5, <1>6, <1>7, <1>8, <1>9 DEF IInv

\* What ends the turn of a reply: its calls are in the usage, and its tokens.
LEMMA ReplyCounts ==
  ASSUME IInv, pc = "asking", NEW tokens \in Tokens, NEW corrective \in {0, 1},
         usage' = UsageAfter(tokens, corrective)
  PROVE  /\ usage'.n_retries \in Nat
         /\ usage'.n_retries = usage.n_retries + retry
         /\ usage'.n_malformed = usage.n_malformed + corrective
         /\ usage'.last = tokens /\ usage'.total = Add(usage.total, tokens)
         /\ usage'.total \in Tokens
         /\ usage'.n_retries + usage'.n_malformed = Len(reasons) + corrective
         /\ usage'.n_malformed <= MaxCorrective =>
              usage' \in [n_retries : Nat, n_malformed : 0..MaxCorrective,
                          last : Tokens, total : Tokens]
<1>1. TypeOK /\ Counted
  BY DEF IInv
<1>2. /\ usage.n_retries \in Nat /\ usage.n_malformed \in Nat /\ usage.total \in Tokens
      /\ retry \in Nat
  BY <1>1, EvaluateAssumption DEF TypeOK
<1>3. usage' = [n_retries |-> usage.n_retries + retry,
                n_malformed |-> usage.n_malformed + corrective,
                last |-> tokens, total |-> Add(usage.total, tokens)]
  BY DEF UsageAfter
<1>4. Add(usage.total, tokens) \in Tokens
  <2>1. CASE usage.total = None \/ tokens = None
    BY <2>1 DEF Add, Tokens
  <2>2. CASE usage.total # None /\ tokens # None
    <3>1. usage.total \in Nat /\ tokens \in Nat
      BY <1>2, <2>2, EvaluateAssumption DEF Tokens
    <3>2. QED
      BY <2>2, <3>1, EvaluateAssumption DEF Add, Tokens
  <2>3. QED
    BY <2>1, <2>2
<1>5. usage.n_retries + usage.n_malformed + retry = Len(reasons)
  BY <1>1 DEF Counted
<1> DEFINE total == Add(usage.total, tokens)
<1> HIDE DEF total
<1>6. /\ usage'.n_retries = usage.n_retries + retry
      /\ usage'.n_malformed = usage.n_malformed + corrective
      /\ usage'.last = tokens /\ usage'.total = total
  BY <1>3 DEF total
<1>7. usage'.n_retries \in Nat /\ usage'.n_malformed \in Nat
  BY <1>2, <1>6
<1>8. usage'.n_retries + usage'.n_malformed = Len(reasons) + corrective
  <2>1. \A a, b, c, d \in Nat : (a + c) + (b + d) = (a + b + c) + d
    OBVIOUS
  <2>2. corrective \in Nat
    OBVIOUS
  <2>3. QED
    BY <1>2, <1>5, <1>6, <2>1, <2>2
<1>9. ASSUME usage'.n_malformed <= MaxCorrective
      PROVE  usage' \in [n_retries : Nat, n_malformed : 0..MaxCorrective,
                         last : Tokens, total : Tokens]
  <2>1. usage.n_retries + retry \in Nat /\ usage.n_malformed + corrective \in 0..MaxCorrective
    BY <1>6, <1>7, <1>9, EvaluateAssumption
  <2>2. QED
    BY <1>3, <1>4, <2>1
<1>10. QED
  BY <1>4, <1>6, <1>7, <1>8, <1>9 DEF total

LEMMA AnswerHolds == ASSUME IInv, NEW r \in DOMAIN Replies, Answer(r) PROVE IInv'
<1>1. TypeOK /\ InStep /\ Explained /\ Carried /\ Counted
  BY DEF IInv
<1> DEFINE tokens == Replies[r].tokens
           made == [messages |-> messages, outcome |-> "reply", text |-> r, tokens |-> tokens]
<1>2. /\ pc = "asking" /\ Record("reply", r, tokens) /\ pc' \in {"answered", "unfit"}
      /\ usage' = UsageAfter(tokens, 0)
      /\ UNCHANGED <<call, asked, retry, failure, messages, reasons>>
  BY DEF Answer, Finish
<1>3. tokens \in Tokens
  BY EvaluateAssumption DEF Tokens
<1> HIDE DEF tokens
<1>4. /\ attempts' \in Seq(Calls)
      /\ Len(attempts) \in Nat /\ Len(attempts') = Len(attempts) + 1
      /\ Len(reasons) = Len(attempts)
      /\ attempts'[Len(attempts')] = made
      /\ \A i \in DOMAIN reasons : reasons[i] = ReasonFor(i)'
      /\ \A i \in DOMAIN attempts' : attempts'[i].outcome # "nonanswer"
      /\ \A i \in DOMAIN attempts' :
           attempts'[i].messages = IF i = 1 THEN <<>> ELSE Leaves(i - 1)'
  BY <1>2, <1>3, TraceGrows
<1>5. made.tokens = tokens
  OBVIOUS
<1> HIDE DEF made
<1>6. /\ usage'.last = tokens /\ usage'.total = Add(usage.total, tokens)
      /\ usage'.n_malformed = usage.n_malformed + 0
      /\ usage'.n_retries \in Nat
      /\ usage'.n_retries + usage'.n_malformed = Len(reasons) + 0
      /\ usage'.n_malformed <= MaxCorrective =>
           usage' \in [n_retries : Nat, n_malformed : 0..MaxCorrective,
                       last : Tokens, total : Tokens]
  BY <1>2, <1>3, ReplyCounts
<1>7. usage.n_malformed \in 0..MaxCorrective
  BY <1>1 DEF TypeOK
<1>8. usage'.n_malformed = usage.n_malformed /\ usage'.n_malformed <= MaxCorrective
  BY <1>6, <1>7, EvaluateAssumption
<1>9. TypeOK'
  BY <1>1, <1>2, <1>4, <1>6, <1>8 DEF TypeOK, Asking
<1>10. InStep'
  BY <1>2, <1>4 DEF InStep, Asking
<1>11. Explained'
  BY <1>2, <1>4 DEF Explained
<1>12. Carried'
  BY <1>2, <1>4 DEF Carried
<1>13. Counted'
  <2>1. usage'.n_retries + usage'.n_malformed + 0 = Len(reasons)
    BY <1>4, <1>6, <1>7, <1>8, EvaluateAssumption
  <2>2. QED
    BY <1>1, <1>2, <1>4, <1>5, <1>6, <1>8, <2>1 DEF Counted
<1>14. Totalled'
  BY <1>2, <1>3, <1>6, TotalKept
<1>15. QED
  BY <1>9, <1>10, <1>11, <1>12, <1>13, <1>14 DEF IInv

LEMMA MalformedHolds == ASSUME IInv, NEW r \in DOMAIN Replies, Malformed(r) PROVE IInv'
<1>1. TypeOK /\ InStep /\ Explained /\ Carried /\ Counted
  BY DEF IInv
<1> DEFINE tokens == Replies[r].tokens
           made == [messages |-> messages, outcome |-> "reply", text |-> r, tokens |-> tokens]
           correction == [reply |-> r, message |-> Message(r)]
           reason == [category |-> "malformed_structure", text |-> Message(r)]
<1>2. /\ pc = "asking" /\ Record("reply", r, tokens) /\ UNCHANGED call
  BY DEF Malformed
<1>3. tokens \in Tokens
  BY EvaluateAssumption DEF Tokens
<1>4. call.set \in Askable /\ Message(r) \in Told
  BY <1>1, <1>2, MessageTyped DEF TypeOK, Asking
<1>5. correction \in Corrections /\ reason \in Reasons
  BY <1>4 DEF Corrections, Reasons
<1> HIDE DEF tokens
<1>6. /\ attempts' \in Seq(Calls)
      /\ Len(attempts) \in Nat /\ Len(attempts') = Len(attempts) + 1 /\ attempts' # <<>>
      /\ Len(reasons) = Len(attempts) /\ DOMAIN reasons = 1..Len(attempts)
      /\ attempts'[Len(attempts')] = made
      /\ \A i \in DOMAIN reasons : reasons[i] = ReasonFor(i)'
      /\ \A i \in DOMAIN attempts' : attempts'[i].outcome # "nonanswer"
      /\ \A i \in DOMAIN attempts' :
           attempts'[i].messages = IF i = 1 THEN <<>> ELSE Leaves(i - 1)'
      /\ Leaves(Len(attempts))' = Append(messages, correction)
  BY <1>2, <1>3, TraceGrows
<1>7. made.tokens = tokens /\ made.text = r /\ made.outcome = "reply"
  OBVIOUS
<1>8. Message(r)' = Message(r)
  BY <1>2, SameMessage
<1> HIDE DEF made, correction
<1>9. usage.n_malformed \in 0..MaxCorrective /\ Len(messages) \in Nat
  BY <1>1, LenProperties DEF TypeOK
<1>10. CASE usage.n_malformed = MaxCorrective
  <2>1. /\ pc' = "malformed" /\ result' = Message(r) /\ usage' = UsageAfter(tokens, 0)
        /\ UNCHANGED <<call, asked, retry, failure, messages, reasons>>
    BY <1>10 DEF Malformed, tokens
  <2>2. /\ usage'.last = tokens /\ usage'.total = Add(usage.total, tokens)
        /\ usage'.n_malformed = usage.n_malformed + 0
        /\ usage'.n_retries \in Nat
        /\ usage'.n_retries + usage'.n_malformed = Len(reasons) + 0
        /\ usage'.n_malformed <= MaxCorrective =>
             usage' \in [n_retries : Nat, n_malformed : 0..MaxCorrective,
                         last : Tokens, total : Tokens]
    BY <1>2, <1>3, <2>1, ReplyCounts
  <2>3. usage'.n_malformed = usage.n_malformed /\ usage'.n_malformed <= MaxCorrective
    BY <1>9, <2>2, EvaluateAssumption
  <2>4. TypeOK'
    BY <1>1, <1>2, <1>6, <2>1, <2>2, <2>3 DEF TypeOK, Asking
  <2>5. InStep'
    BY <1>6, <2>1 DEF InStep, Asking
  <2>6. Explained'
    <3>1. Message(attempts[Len(attempts)].text)' = Message(r)'
      BY <1>6, <1>7 DEF Message, Problems
    <3>2. QED
      BY <1>6, <1>8, <2>1, <3>1 DEF Explained
  <2>7. Carried'
    BY <1>6, <2>1 DEF Carried
  <2>8. Counted'
    <3>1. usage'.n_retries + usage'.n_malformed + 0 = Len(reasons)
      BY <1>6, <1>9, <2>2, <2>3, EvaluateAssumption
    <3>2. QED
      BY <1>1, <1>6, <1>7, <2>1, <2>2, <2>3, <3>1 DEF Counted
  <2>9. Totalled'
    BY <1>2, <1>3, <2>2, TotalKept
  <2>10. QED
    BY <2>4, <2>5, <2>6, <2>7, <2>8, <2>9 DEF IInv
<1>11. CASE usage.n_malformed # MaxCorrective
  <2>1. /\ usage' = UsageAfter(tokens, 1) /\ messages' = Append(messages, correction)
        /\ reasons' = Append(reasons, reason) /\ retry' = 0 /\ failure' = None
        /\ UNCHANGED <<call, asked, pc, result>>
    BY <1>11 DEF Malformed, tokens, correction
  <2>2. /\ usage'.last = tokens /\ usage'.total = Add(usage.total, tokens)
        /\ usage'.n_malformed = usage.n_malformed + 1
        /\ usage'.n_retries \in Nat
        /\ usage'.n_retries + usage'.n_malformed = Len(reasons) + 1
        /\ usage'.n_malformed <= MaxCorrective =>
             usage' \in [n_retries : Nat, n_malformed : 0..MaxCorrective,
                         last : Tokens, total : Tokens]
    BY <1>2, <1>3, <2>1, ReplyCounts
  <2>3. usage'.n_malformed <= MaxCorrective
    BY <1>9, <1>11, <2>2, EvaluateAssumption
  <2>4. messages' \in Seq(Corrections) /\ Len(messages') = Len(messages) + 1
    BY <1>1, <1>5, <2>1, Appended DEF TypeOK
  <2>5. reason.category = "malformed_structure" /\ reason.text = Message(r)
    OBVIOUS
  <2>6. reason = ReasonFor(Len(attempts))'
    <3>1. Message(attempts[Len(attempts)].text)' = Message(r)'
      BY <1>6, <1>7 DEF Message, Problems
    <3>2. QED
      BY <1>6, <1>7, <1>8, <3>1 DEF ReasonFor
  <2> HIDE DEF reason
  <2>7. /\ reasons' \in Seq(Reasons)
        /\ Len(reasons') = Len(reasons) + 1
        /\ DOMAIN reasons' = 1..(Len(reasons) + 1)
        /\ \A i \in 1..Len(reasons) : reasons'[i] = reasons[i]
        /\ reasons'[Len(reasons) + 1] = reason
    <3>1. reasons \in Seq(Reasons)
      BY <1>1 DEF TypeOK
    <3>2. QED
      BY <1>5, <2>1, <3>1, Appended
  <2>8. TypeOK'
    BY <1>1, <1>2, <1>6, <2>1, <2>2, <2>3, <2>4, <2>7, EvaluateAssumption DEF TypeOK, Asking
  <2>9. InStep'
    BY <1>2, <1>6, <2>1, <2>7 DEF InStep, Asking
  <2>10. Explained'
    <3>1. ASSUME NEW i \in DOMAIN reasons' PROVE reasons'[i] = ReasonFor(i)'
      <4>1. CASE i \in 1..Len(reasons)
        BY <1>6, <2>7, <4>1
      <4>2. CASE i = Len(reasons) + 1
        <5>1. i = Len(attempts')
          BY <1>6, <4>2
        <5>2. ReasonFor(i)' = ReasonFor(Len(attempts))'
          BY <5>1 DEF ReasonFor, Message, Problems
        <5>3. QED
          BY <2>6, <2>7, <4>2, <5>2
      <4>3. QED
        BY <1>6, <2>7, <4>1, <4>2
    <3>2. QED
      BY <1>2, <1>6, <2>1, <3>1 DEF Explained
  <2>11. Carried'
    BY <1>6, <2>1 DEF Carried
  <2>12. Counted'
    BY <1>1, <1>2, <1>6, <1>9, <2>1, <2>2, <2>4, <2>7, EvaluateAssumption DEF Counted
  <2>13. Totalled'
    BY <1>2, <1>3, <2>2, TotalKept
  <2>14. QED
    BY <2>8, <2>9, <2>10, <2>11, <2>12, <2>13 DEF IInv
<1>12. QED
  BY <1>10, <1>11

\* Every step of a call keeps what its trace tells.
LEMMA Holds == Spec => []IInv
<1>1. Init => IInv
  BY InitHolds
<1>2. IInv /\ [Next]_vars => IInv'
  <2> SUFFICES ASSUME IInv, [Next]_vars PROVE IInv'
    OBVIOUS
  <2>1. CASE Send
    BY <2>1, SendHolds
  <2>2. ASSUME NEW text \in Texts, CallFails(text) PROVE IInv'
    BY <2>2, CallFailsHolds
  <2>3. ASSUME NEW text \in Texts, NonAnswer(text) PROVE IInv'
    BY <2>3, NonAnswerHolds
  <2>4. ASSUME NEW r \in DOMAIN Replies, Answer(r) PROVE IInv'
    BY <2>4, AnswerHolds
  <2>5. ASSUME NEW r \in DOMAIN Replies, Malformed(r) PROVE IInv'
    BY <2>5, MalformedHolds
  <2>6. CASE Retry
    BY <2>6, RetryHolds
  <2>7. CASE Drop
    BY <2>7, DropHolds
  <2>8. CASE UNCHANGED vars
    BY <2>8, StutterHolds
  <2>9. QED
    BY <2>1, <2>2, <2>3, <2>4, <2>5, <2>6, <2>7, <2>8 DEF Next
<1>3. QED
  BY <1>1, <1>2, PTL DEF Spec

-----------------------------------------------------------------------------
(* What a caller may rely on. *)

\* Everything a call keeps has its type: no turn repeats more often than the
\* policy allows, the counts of the usage are within their width.
THEOREM TypeCorrect == Spec => []TypeOK
<1>1. IInv => TypeOK
  BY DEF IInv
<1>2. QED
  BY <1>1, Holds, PTL

\* Every call but the last has the one reason for the retry that followed it, in
\* the trace of run_with_retries and evaluate: the text of its own failure, or
\* what was wrong with its own reply.
THEOREM TraceExplainsItself == Spec => []ReasonsExplain
<1>1. ASSUME IInv PROVE ReasonsExplain
  <2>1. attempts \in Seq(Calls) /\ reasons \in Seq(Reasons)
    BY <1>1 DEF IInv, TypeOK
  <2>2. Len(attempts) \in Nat /\ Len(reasons) \in Nat
    BY <2>1, LenProperties
  <2>3. Asking = {"asking", "sleeping", "answered", "unfit", "failed", "refused", "malformed"}
    BY DEF Asking
  <2>4. pc \in Asking => Len(reasons) = Len(attempts) - (IF pc = "asking" THEN 0 ELSE 1)
    BY <1>1, <2>2 DEF IInv, InStep
  <2>5. QED
    BY <1>1, <2>3, <2>4 DEF IInv, Explained, ReasonFor, ReasonsExplain
<1>2. QED
  BY <1>1, Holds, PTL

\* Each call carries what the call before it carried and, if its reply was
\* refused, that reply and what was wrong with it; evaluate's loop corrects no
\* more replies than it is allowed.
THEOREM CorrectionsAreCarried == Spec => []CarriesCorrections
<1>1. ASSUME IInv PROVE CarriesCorrections
  <2>1. usage.n_malformed <= MaxCorrective
    BY <1>1, EvaluateAssumption DEF IInv, TypeOK
  <2>2. QED
    BY <1>1, <2>1 DEF IInv, Counted, Carried, CarriesCorrections
<1>2. QED
  BY <1>1, Holds, PTL

\* The usage an answer is given with adds up to its trace: the calls, the
\* corrections, the last count of tokens and the total.
THEOREM UsageAddsUp == Spec => []UsageTells
<1>1. ASSUME IInv PROVE UsageTells
  <2>1. SUFFICES ASSUME pc = "answered"
                 PROVE  /\ usage.n_retries + usage.n_malformed + 1 = Len(attempts)
                        /\ usage.n_malformed = Len(messages)
                        /\ usage.last = attempts[Len(attempts)].tokens
                        /\ usage.total = TotalOf(attempts)
    BY DEF UsageTells, TotalOf, AllTold
  <2>2. Len(reasons) + 1 = Len(attempts)
    BY <1>1, <2>1 DEF IInv, InStep, Asking
  <2>3. usage.n_retries + usage.n_malformed = Len(reasons)
    <3>1. usage.n_retries \in Nat /\ usage.n_malformed \in Nat
      BY <1>1, EvaluateAssumption DEF IInv, TypeOK
    <3>2. usage.n_retries + usage.n_malformed + 0 = Len(reasons)
      BY <1>1, <2>1 DEF IInv, Counted
    <3>3. QED
      BY <3>1, <3>2
  <2>4. QED
    BY <1>1, <2>1, <2>2, <2>3 DEF IInv, Counted, Totalled
<1>2. QED
  BY <1>1, Holds, PTL

-----------------------------------------------------------------------------
(* Lists of problems, and JSON values. *)

\* A list of whatever it holds.
IsList(s) == s \in Seq(ToSet(s))

\* A list has its elements, its length and its domain.
LEMMA ListIs ==
  ASSUME NEW S, NEW s \in Seq(S)
  PROVE  /\ IsList(s) /\ ToSet(s) \subseteq S /\ (s = <<>> <=> ToSet(s) = {})
         /\ Len(s) \in Nat /\ DOMAIN s = 1..Len(s)
<1>1. Len(s) \in Nat /\ DOMAIN s = 1..Len(s) /\ \A i \in 1..Len(s) : s[i] \in S
  BY LenProperties, ElementOfSeq
<1>2. s = [i \in 1..Len(s) |-> s[i]]
  BY <1>1
<1>3. \A i \in 1..Len(s) : s[i] \in ToSet(s)
  BY <1>1 DEF ToSet
<1>4. s \in [1..Len(s) -> ToSet(s)]
  BY <1>2, <1>3
<1>5. IsList(s)
  BY <1>1, <1>4, Sequences DEF IsList
<1>6. ToSet(s) \subseteq S
  BY <1>1 DEF ToSet
<1>7. s = <<>> <=> ToSet(s) = {}
  <2>1. s = <<>> <=> Len(s) = 0
    BY EmptySeq
  <2>2. CASE Len(s) = 0
    BY <1>1, <2>1, <2>2 DEF ToSet
  <2>3. CASE Len(s) # 0
    <3>1. 1 \in 1..Len(s)
      BY <1>1, <2>3
    <3>2. QED
      BY <1>3, <2>1, <2>3, <3>1
  <2>4. QED
    BY <2>2, <2>3
<1>8. QED
  BY <1>1, <1>5, <1>6, <1>7

\* A list with one more is a list.
LEMMA ListsLonger ==
  ASSUME NEW s, NEW S, IsList(s), ToSet(s) \subseteq S PROVE s \in Seq(S)
<1>1. Len(s) \in Nat /\ DOMAIN s = 1..Len(s) /\ \A i \in 1..Len(s) : s[i] \in ToSet(s)
  BY LenProperties, ElementOfSeq DEF IsList
<1>2. s \in [1..Len(s) -> ToSet(s)]
  BY LenProperties DEF IsList
<1>3. s \in [1..Len(s) -> S]
  BY <1>1, <1>2
<1>4. QED
  BY <1>1, <1>3, Sequences

\* Two lists make one, with the elements of both.
LEMMA ListsJoined ==
  ASSUME NEW s, NEW t, IsList(s), IsList(t)
  PROVE  IsList(s \o t) /\ ToSet(s \o t) = ToSet(s) \cup ToSet(t)
<1> DEFINE S == ToSet(s) \cup ToSet(t)
           u == s \o t
<1>1. s \in Seq(S) /\ t \in Seq(S)
  BY ListsLonger
<1> HIDE DEF S
<1>2. /\ u \in Seq(S) /\ Len(u) = Len(s) + Len(t)
      /\ \A i \in 1..(Len(s) + Len(t)) : u[i] = IF i <= Len(s) THEN s[i] ELSE t[i - Len(s)]
  BY <1>1, ConcatProperties
<1>3. /\ Len(s) \in Nat /\ DOMAIN s = 1..Len(s) /\ Len(t) \in Nat /\ DOMAIN t = 1..Len(t)
      /\ DOMAIN u = 1..Len(u)
  BY <1>1, <1>2, LenProperties
<1> HIDE DEF u
<1>4. ASSUME NEW i \in DOMAIN s PROVE i \in DOMAIN u /\ u[i] = s[i]
  BY <1>2, <1>3
<1>5. ASSUME NEW i \in DOMAIN t PROVE i + Len(s) \in DOMAIN u /\ u[i + Len(s)] = t[i]
  <2>1. i + Len(s) \in 1..(Len(s) + Len(t)) /\ ~(i + Len(s) <= Len(s)) /\ (i + Len(s)) - Len(s) = i
    BY <1>3
  <2>2. QED
    BY <1>2, <1>3, <2>1
<1>6. IsList(u) /\ ToSet(u) \subseteq S
  BY <1>2, ListIs
<1>7. S \subseteq ToSet(u)
  BY <1>4, <1>5 DEF S, ToSet
<1>8. QED
  BY <1>6, <1>7 DEF u, S

\* Lists of problems make one, with the problems of all.
LEMMA ListsFlat ==
  ASSUME NEW n \in Nat, NEW seqs, DOMAIN seqs = 1..n, seqs = [i \in 1..n |-> seqs[i]],
         \A i \in 1..n : IsList(seqs[i])
  PROVE  IsList(Flat(seqs)) /\ ToSet(Flat(seqs)) = UNION {ToSet(seqs[i]) : i \in 1..n}
<1> DEFINE S == UNION {ToSet(seqs[i]) : i \in 1..n}
<1>1. \A i \in 1..n : ToSet(seqs[i]) \subseteq S
  OBVIOUS
<1> HIDE DEF S
<1>2. \A i \in 1..n : seqs[i] \in Seq(S)
  BY <1>1, ListsLonger
<1>3. seqs \in [1..n -> Seq(S)]
  BY <1>2
<1>4. seqs \in Seq(Seq(S))
  BY <1>3, Sequences
<1>5. Len(seqs) \in Nat
  BY <1>4, LenProperties
<1>6. Flat(seqs) \in Seq(S)
  <2>1. PICK f \in [0..Len(seqs) -> Seq(S)] : Flat(seqs) = f[Len(seqs)]
    BY <1>4, FlatUnfolds
  <2>2. QED
    BY <1>5, <2>1
<1>7. ASSUME NEW x \in S PROVE x \in ToSet(Flat(seqs))
  <2>1. PICK i \in 1..n : x \in ToSet(seqs[i])
    BY DEF S
  <2>2. PICK j \in DOMAIN seqs[i] : x = seqs[i][j]
    BY <2>1 DEF ToSet
  <2>3. \E m \in DOMAIN Flat(seqs) : Flat(seqs)[m] = seqs[i][j]
    BY <1>4, InFlat
  <2>4. QED
    BY <2>2, <2>3 DEF ToSet
<1>8. IsList(Flat(seqs)) /\ ToSet(Flat(seqs)) \subseteq S
  BY <1>6, ListIs
<1>9. QED
  BY <1>7, <1>8 DEF S

\* A list of one problem.
LEMMA OneLong ==
  ASSUME NEW x PROVE IsList(<<x>>) /\ ToSet(<<x>>) = {x} /\ <<x>> # <<>>
<1>1. <<x>> \in Seq({x})
  OBVIOUS
<1>2. ToSet(<<x>>) = {x}
  BY DEF ToSet
<1>3. QED
  BY <1>1, <1>2 DEF IsList

\* A list of none.
LEMMA NoneLong == IsList(<<>>) /\ ToSet(<<>>) = {}
BY DEF IsList, ToSet

\* What is collected of parts.
LEMMA Collects ==
  ASSUME NEW before, IsList(before), NEW n \in Nat, NEW parts, DOMAIN parts = 1..n,
         \A i \in 1..n : IsList(parts[i].problems)
  PROVE  LET c == Collect(before, parts) IN
         /\ IsList(c.problems)
         /\ ToSet(c.problems) = ToSet(before) \cup UNION {ToSet(parts[i].problems) : i \in 1..n}
         /\ c.problems = <<>> => c.value = [i \in 1..n |-> parts[i].value]
<1> DEFINE seqs == [i \in DOMAIN parts |-> parts[i].problems]
           all == before \o Flat(seqs)
<1>1. /\ DOMAIN seqs = 1..n /\ seqs = [i \in 1..n |-> seqs[i]]
      /\ \A i \in 1..n : seqs[i] = parts[i].problems
  OBVIOUS
<1> HIDE DEF seqs
<1>2. /\ IsList(Flat(seqs)) /\ ToSet(Flat(seqs)) = UNION {ToSet(seqs[i]) : i \in 1..n}
  BY <1>1, ListsFlat
<1>3. IsList(all) /\ ToSet(all) = ToSet(before) \cup ToSet(Flat(seqs))
  BY <1>2, ListsJoined
<1>4. {ToSet(seqs[i]) : i \in 1..n} = {ToSet(parts[i].problems) : i \in 1..n}
  BY <1>1
<1> HIDE DEF all
<1>5. Collect(before, parts) =
        [problems |-> all,
         value |-> IF all = <<>> THEN [i \in DOMAIN parts |-> parts[i].value] ELSE None]
  BY DEF Collect, all, seqs
<1> DEFINE c == Collect(before, parts)
<1>6. c.problems = all /\ (all = <<>> => c.value = [i \in 1..n |-> parts[i].value])
  BY <1>5
<1> HIDE DEF c
<1>7. ToSet(all) = ToSet(before) \cup UNION {ToSet(parts[i].problems) : i \in 1..n}
  BY <1>2, <1>3, <1>4, Zenon
<1>8. QED
  BY <1>3, <1>6, <1>7, Zenon DEF c

\* The members of the objects that occur.
NamedValues == [name : STRING, value : Json]

\* The members of an object are named values.
LEMMA MembersTyped ==
  ASSUME NEW v \in Json, v.json = "object"
  PROVE  /\ v.members \in Seq(NamedValues) /\ Len(v.members) \in Nat
         /\ DOMAIN v.members = 1..Len(v.members)
         /\ \A i \in DOMAIN v.members : v.members[i] \in NamedValues /\ v.members[i].value \in Json
<1>1. v.members \in Seq(NamedValues)
  BY JsonAssumption DEF NamedValues
<1>2. Len(v.members) \in Nat /\ DOMAIN v.members = 1..Len(v.members)
  BY <1>1, LenProperties
<1>3. ASSUME NEW i \in DOMAIN v.members PROVE v.members[i] \in NamedValues
  BY <1>1, <1>2, ElementOfSeq
<1>4. QED
  BY <1>1, <1>2, <1>3 DEF NamedValues

\* The value written last under a name that is there.
LEMMA LastTyped ==
  ASSUME NEW v \in Json, v.json = "object", NEW n, Has(v.members, n)
  PROVE  LastOf(v.members, n) \in Json /\ LastOf(v.members, n) # None
<1> DEFINE ms == v.members
           at == {i \in DOMAIN ms : ms[i].name = n}
<1>1. /\ Len(ms) \in Nat /\ DOMAIN ms = 1..Len(ms)
      /\ \A i \in DOMAIN ms : ms[i].value \in Json
  BY MembersTyped
<1>2. at \in SUBSET (0..Len(ms)) /\ at # {}
  BY <1>1 DEF Has
<1>3. \E m \in at : \A k \in at : k <= m
  BY <1>1, <1>2, Greatest
<1>4. \E m \in DOMAIN ms : ms[m].name = n /\ \A j \in DOMAIN ms : ms[j].name = n => j <= m
  BY <1>3
<1>5. PICK m \in DOMAIN ms : LastOf(ms, n) = ms[m].value
  BY <1>4 DEF LastOf
<1>6. QED
  BY <1>1, <1>5, JsonAssumption

-----------------------------------------------------------------------------
(* What one object's reader tells. *)

\* The names an object gives, and whether they are those asked for.
NamesOf(v) == {v.members[i].name : i \in DOMAIN v.members}

\* A member is had if its name is among the names given.
LEMMA HasIs == ASSUME NEW v, NEW n PROVE Has(v.members, n) <=> n \in NamesOf(v)
BY DEF Has, NamesOf

\* An object as ReadObject reads it, each of its members read already.
Assembled(v, names, at, reads) ==
  IF v.json # "object" THEN Bad(Problem("WrongType", at))
  ELSE IF ~IsReadable(v) THEN Bad(Problem("NotJson", Reply))
  ELSE Collect(Members(v, names, at).problems,
               [i \in DOMAIN names |->
                  IF Members(v, names, at).value[i] = None THEN Bad(Missing(at, names[i]))
                                                           ELSE reads[i]])

\* The problems of an object that can be read.
Strange(v, names, at) == IF NamesOf(v) \subseteq ToSet(names) THEN {} ELSE {Problem("Unexpected", at)}
Wanting(v, names, at) == {Missing(at, names[i]) : i \in {j \in DOMAIN names : names[j] \notin NamesOf(v)}}
Within(v, names, reads) ==
  UNION {ToSet(reads[i].problems) : i \in {j \in DOMAIN names : names[j] \in NamesOf(v)}}

\* What a reader gives: one problem, or a value and none.
LEMMA BadIs ==
  ASSUME NEW p
  PROVE  /\ IsList(Bad(p).problems) /\ ToSet(Bad(p).problems) = {p} /\ Bad(p).problems # <<>>
BY OneLong DEF Bad

LEMMA GoodIs ==
  ASSUME NEW x
  PROVE  IsList(Good(x).problems) /\ ToSet(Good(x).problems) = {} /\ Good(x).problems = <<>>
BY NoneLong DEF Good

\* An object that can be read tells of the members it should not have, of those
\* it should, and of what is wrong within them; and gives the values if nothing is.
LEMMA Assembles ==
  ASSUME NEW v \in Json, NEW n \in Nat, NEW names, DOMAIN names = 1..n, NEW at, NEW reads,
         IsReadable(v),
         \A i \in 1..n : names[i] \in NamesOf(v) => IsList(reads[i].problems)
  PROVE  LET d == Assembled(v, names, at, reads) IN
         /\ IsList(d.problems)
         /\ ToSet(d.problems) = Strange(v, names, at) \cup Wanting(v, names, at) \cup Within(v, names, reads)
         /\ d.problems = <<>> => d.value = [i \in 1..n |-> reads[i].value]
<1> DEFINE members == Members(v, names, at)
           parts == [i \in DOMAIN names |-> IF members.value[i] = None THEN Bad(Missing(at, names[i]))
                                                                     ELSE reads[i]]
           c == Collect(members.problems, parts)
<1>1. v.json = "object"
  BY DEF IsReadable
<1>2. Assembled(v, names, at, reads) = c
  BY <1>1 DEF Assembled
<1>3. /\ IsList(members.problems) /\ ToSet(members.problems) = Strange(v, names, at)
  <2>1. (\E i \in DOMAIN v.members : v.members[i].name \notin ToSet(names))
          <=> ~(NamesOf(v) \subseteq ToSet(names))
    BY DEF NamesOf
  <2>2. QED
    BY <2>1, OneLong, NoneLong DEF Members, Strange
<1>4. ASSUME NEW i \in 1..n
      PROVE  members.value[i] = None <=> names[i] \notin NamesOf(v)
  <2>1. members.value[i] = IF Has(v.members, names[i]) THEN LastOf(v.members, names[i]) ELSE None
    BY DEF Members
  <2>2. QED
    BY <1>1, <2>1, LastTyped, HasIs
<1> HIDE DEF members
<1>5. ASSUME NEW i \in 1..n
      PROVE  /\ names[i] \notin NamesOf(v) => parts[i] = Bad(Missing(at, names[i]))
             /\ names[i] \in NamesOf(v) => parts[i] = reads[i]
  BY <1>4
<1>6. DOMAIN parts = 1..n
  OBVIOUS
<1> HIDE DEF parts
<1>7. \A i \in 1..n : IsList(parts[i].problems)
  BY <1>5, BadIs
<1>8. /\ IsList(c.problems)
      /\ ToSet(c.problems) = ToSet(members.problems) \cup UNION {ToSet(parts[i].problems) : i \in 1..n}
      /\ c.problems = <<>> => c.value = [i \in 1..n |-> parts[i].value]
  BY <1>3, <1>6, <1>7, Collects
<1>9. UNION {ToSet(parts[i].problems) : i \in 1..n} = Wanting(v, names, at) \cup Within(v, names, reads)
  <2>1. ASSUME NEW i \in 1..n, names[i] \notin NamesOf(v)
        PROVE  ToSet(parts[i].problems) = {Missing(at, names[i])}
    BY <1>5, <2>1, BadIs
  <2>2. ASSUME NEW i \in 1..n, names[i] \in NamesOf(v)
        PROVE  ToSet(parts[i].problems) = ToSet(reads[i].problems)
    BY <1>5, <2>2
  <2>3. QED
    BY <2>1, <2>2 DEF Wanting, Within
<1>10. c.problems = <<>> => \A i \in 1..n : parts[i].value = reads[i].value
  <2>1. SUFFICES ASSUME c.problems = <<>>, NEW i \in 1..n PROVE parts[i].value = reads[i].value
    OBVIOUS
  <2>2. ToSet(c.problems) = {}
    BY <2>1, NoneLong
  <2>3. ToSet(parts[i].problems) = {}
    BY <1>8, <2>2
  <2>4. names[i] \in NamesOf(v)
    BY <1>5, <2>3, BadIs
  <2>5. QED
    BY <1>5, <2>4
<1> HIDE DEF c
<1>11. c.problems = <<>> => c.value = [i \in 1..n |-> reads[i].value]
  BY <1>8, <1>10
<1>12. QED
  BY <1>2, <1>3, <1>8, <1>9, <1>11

\* No problem is what every part of an object that is read says.
LEMMA AssemblesWhole ==
  ASSUME NEW v \in Json, NEW n \in Nat, NEW names, DOMAIN names = 1..n, NEW at, NEW reads,
         \A i \in 1..n : names[i] \in NamesOf(v) => IsList(reads[i].problems)
  PROVE  LET d == Assembled(v, names, at, reads) IN
         /\ IsList(d.problems)
         /\ d.problems = <<>> <=>
              /\ IsReadable(v) /\ NamesOf(v) = ToSet(names)
              /\ \A i \in 1..n : reads[i].problems = <<>>
         /\ d.problems = <<>> => d.value = [i \in 1..n |-> reads[i].value]
<1> DEFINE d == Assembled(v, names, at, reads)
<1>1. CASE ~IsReadable(v)
  <2>1. d = Bad(Problem("WrongType", at)) \/ d = Bad(Problem("NotJson", Reply))
    BY <1>1 DEF Assembled, IsReadable
  <2>2. QED
    BY <1>1, <2>1, BadIs
<1>2. CASE IsReadable(v)
  <2>1. /\ IsList(d.problems)
        /\ ToSet(d.problems) = Strange(v, names, at) \cup Wanting(v, names, at) \cup Within(v, names, reads)
        /\ d.problems = <<>> => d.value = [i \in 1..n |-> reads[i].value]
    BY <1>2, Assembles
  <2> HIDE DEF d
  <2>2. d.problems = <<>> <=> ToSet(d.problems) = {}
    BY <2>1, ListIs DEF IsList
  <2>3. Strange(v, names, at) = {} <=> NamesOf(v) \subseteq ToSet(names)
    BY DEF Strange
  <2>4. Wanting(v, names, at) = {} <=> ToSet(names) \subseteq NamesOf(v)
    BY DEF Wanting, ToSet
  <2>5. ASSUME ToSet(names) \subseteq NamesOf(v)
        PROVE  Within(v, names, reads) = {} <=> \A i \in 1..n : reads[i].problems = <<>>
    <3>1. \A i \in 1..n : names[i] \in NamesOf(v)
      BY <2>5 DEF ToSet
    <3>2. \A i \in 1..n : reads[i].problems = <<>> <=> ToSet(reads[i].problems) = {}
      BY <3>1, ListIs DEF IsList
    <3>3. Within(v, names, reads) = UNION {ToSet(reads[i].problems) : i \in 1..n}
      BY <3>1 DEF Within
    <3>4. (\A i \in 1..n : ToSet(reads[i].problems) = {}) <=> UNION {ToSet(reads[i].problems) : i \in 1..n} = {}
      OBVIOUS
    <3>5. QED
      BY <3>2, <3>3, <3>4, Zenon
  <2>6. QED
    BY <1>2, <2>1, <2>2, <2>3, <2>4, <2>5 DEF d
<1>3. QED
  BY <1>1, <1>2

-----------------------------------------------------------------------------
(* The places of problems. *)

\* The problem is told at the answer of a question, or below it.
Ahead(id, p) == IsPrefix(<<"answers", id>>, p.at)

\* The first two elements of a list.
LEMMA FirstTwo ==
  ASSUME NEW S, NEW s \in Seq(S), Len(s) >= 2
  PROVE  LET x == SubSeq(s, 1, 2) IN x \in Seq(S) /\ Len(x) = 2 /\ x[1] = s[1] /\ x[2] = s[2]
<1>1. Len(s) \in Nat /\ \A i \in 1..Len(s) : s[i] \in S
  BY LenProperties, ElementOfSeq
<1>2. \A i \in 1..2 : s[i] \in S
  BY <1>1
<1> DEFINE x == SubSeq(s, 1, 2)
<1>3. x \in Seq(S) /\ Len(x) = 2 /\ \A i \in 1..2 : x[i] = s[1 + i - 1]
  BY <1>2, SubSeqProperties
<1> HIDE DEF x
<1>4. x[1] = s[1] /\ x[2] = s[2]
  BY <1>3
<1>5. QED
  BY <1>3, <1>4 DEF x

\* The places of two questions are apart, and apart from the places above them.
LEMMA PlacesApart ==
  ASSUME NEW id, NEW other, NEW l
  PROVE  /\ Append(AnswersAt, other) = <<"answers", other>>
         /\ Append(Append(AnswersAt, other), l) = <<"answers", other, l>>
         /\ ~IsPrefix(<<"answers", id>>, Reply) /\ ~IsPrefix(<<"answers", id>>, AnswersAt)
         /\ IsPrefix(<<"answers", id>>, <<"answers", other>>) <=> id = other
         /\ IsPrefix(<<"answers", id>>, <<"answers", other, l>>) <=> id = other
<1> DEFINE S == {"answers", id, other, l}
           mine == <<"answers", id>>
           two == <<"answers", other>>
           three == <<"answers", other, l>>
<1>1. /\ AnswersAt \in Seq(S) /\ Len(AnswersAt) = 1 /\ AnswersAt[1] = "answers"
      /\ mine \in Seq(S) /\ Len(mine) = 2 /\ mine[1] = "answers" /\ mine[2] = id
      /\ two \in Seq(S) /\ Len(two) = 2 /\ two[1] = "answers" /\ two[2] = other
      /\ three \in Seq(S) /\ Len(three) = 3
      /\ three[1] = "answers" /\ three[2] = other /\ three[3] = l
      /\ Reply \in Seq(S) /\ Len(Reply) = 0
      /\ other \in S /\ l \in S
  BY DEF AnswersAt, Reply
<1> HIDE DEF S, mine, two, three
<1>2. Append(AnswersAt, other) = two
  <2> DEFINE t == Append(AnswersAt, other)
  <2>0. /\ t \in Seq(S) /\ Len(t) = Len(AnswersAt) + 1
        /\ \A i \in 1..Len(AnswersAt) : t[i] = AnswersAt[i]
        /\ t[Len(AnswersAt) + 1] = other
    <3>1. AnswersAt \in Seq(S) /\ other \in S
      BY <1>1
    <3>2. QED
      BY <3>1, AppendProperties
  <2> HIDE DEF t
  <2>1. t \in Seq(S) /\ Len(t) = 2 /\ t[1] = "answers" /\ t[2] = other
    BY <1>1, <2>0
  <2>2. \A i \in 1..2 : i = 1 \/ i = 2
    OBVIOUS
  <2>3. QED
    BY <1>1, <2>1, <2>2, SeqEqual DEF t
<1>3. Append(two, l) = three
  <2> DEFINE t == Append(two, l)
  <2>0. /\ t \in Seq(S) /\ Len(t) = Len(two) + 1
        /\ \A i \in 1..Len(two) : t[i] = two[i]
        /\ t[Len(two) + 1] = l
    <3>1. two \in Seq(S) /\ l \in S
      BY <1>1
    <3>2. QED
      BY <3>1, AppendProperties
  <2> HIDE DEF t
  <2>1. t \in Seq(S) /\ Len(t) = 3 /\ t[1] = "answers" /\ t[2] = other /\ t[3] = l
    BY <1>1, <2>0
  <2>2. \A i \in 1..3 : i = 1 \/ i = 2 \/ i = 3
    OBVIOUS
  <2>3. QED
    BY <1>1, <2>1, <2>2, SeqEqual DEF t
<1>4. ASSUME NEW s \in Seq(S), Len(s) >= 2, Len(s) \in Nat
      PROVE  IsPrefix(mine, s) <=> s[1] = "answers" /\ s[2] = id
  <2> DEFINE x == SubSeq(mine, 1, 2)
             y == SubSeq(s, 1, 2)
  <2>1. /\ x \in Seq(S) /\ Len(x) = 2 /\ x[1] = mine[1] /\ x[2] = mine[2]
    <3>1. mine \in Seq(S) /\ Len(mine) >= 2
      BY <1>1
    <3> HIDE DEF mine
    <3>2. QED
      BY <3>1, FirstTwo
  <2>2. /\ y \in Seq(S) /\ Len(y) = 2 /\ y[1] = s[1] /\ y[2] = s[2]
    BY <1>4, FirstTwo
  <2>3. IsPrefix(mine, s) <=> x = y
    BY <1>1, <1>4 DEF IsPrefix
  <2> HIDE DEF x, y
  <2>4. \A i \in 1..2 : i = 1 \/ i = 2
    OBVIOUS
  <2>5. x = y <=> x[1] = y[1] /\ x[2] = y[2]
    <3>1. ASSUME x[1] = y[1], x[2] = y[2] PROVE x = y
      BY <2>1, <2>2, <2>4, <3>1, SeqEqual
    <3>2. QED
      BY <3>1
  <2>6. QED
    BY <1>1, <2>1, <2>2, <2>3, <2>5
<1>5. ~IsPrefix(mine, Reply) /\ ~IsPrefix(mine, AnswersAt)
  BY <1>1 DEF IsPrefix
<1>6. IsPrefix(mine, two) <=> id = other
  BY <1>1, <1>4
<1>7. IsPrefix(mine, three) <=> id = other
  BY <1>1, <1>4
<1>8. QED
  BY <1>2, <1>3, <1>5, <1>6, <1>7 DEF mine, two, three

\* A place starts with one pair only.
LEMMA OnePrefix ==
  ASSUME NEW a, NEW b, NEW at, IsPrefix(<<"answers", a>>, at), IsPrefix(<<"answers", b>>, at)
  PROVE  a = b
<1>1. Len(<<"answers", a>>) = 2 /\ Len(<<"answers", b>>) = 2
  OBVIOUS
<1>2. ASSUME NEW x PROVE LET t == <<"answers", x>> IN SubSeq(t, 1, 2) = t
  <2> DEFINE t == <<"answers", x>>
             u == SubSeq(t, 1, 2)
  <2>1. t \in Seq({"answers", x}) /\ Len(t) = 2
    OBVIOUS
  <2> HIDE DEF t
  <2>2. \A i \in 1..2 : t[i] \in {"answers", x}
    BY <2>1, ElementOfSeq
  <2>3. u \in Seq({"answers", x}) /\ Len(u) = 2 /\ \A i \in 1..2 : u[i] = t[i]
    BY <2>2, SubSeqProperties
  <2> HIDE DEF u
  <2>4. u = t
    BY <2>1, <2>3, SeqEqual
  <2>5. QED
    BY <2>4 DEF u, t
<1>3. <<"answers", a>> = SubSeq(at, 1, 2) /\ <<"answers", b>> = SubSeq(at, 1, 2)
  BY <1>1, <1>2 DEF IsPrefix
<1>4. <<"answers", a>>[2] = a /\ <<"answers", b>>[2] = b
  OBVIOUS
<1>5. QED
  BY <1>3, <1>4

\* A problem at a place is not one of a member that is missing.
LEMMA ProblemsApart ==
  ASSUME NEW what, NEW at, NEW other, NEW n, NEW m
  PROVE  /\ Problem(what, at) # Missing(other, n)
         /\ Problem(what, at).at = at /\ Missing(at, n).at = at
         /\ Missing(at, n) = Missing(other, m) => n = m
<1>1. DOMAIN Problem(what, at) = {"what", "at"}
  BY DEF Problem
<1>2. DOMAIN Missing(other, n) = {"what", "at", "member"}
  BY DEF Missing
<1>3. Problem(what, at) # Missing(other, n)
  BY <1>1, <1>2
<1>4. Missing(at, n).member = n /\ Missing(other, m).member = m
  BY DEF Missing
<1>5. QED
  BY <1>3, <1>4 DEF Problem, Missing

-----------------------------------------------------------------------------
(* The questions of a call. *)

\* No name is given twice.
Distinct(ms) == \A i, j \in DOMAIN ms : ms[i].name = ms[j].name => i = j

\* A member put among others keeps the names apart.
LEMMA UpsertKeeps ==
  ASSUME NEW S, NEW ms \in Seq(S), Distinct(ms), NEW m \in S
  PROVE  Upsert(ms, m) \in Seq(S) /\ Distinct(Upsert(ms, m))
<1>1. /\ Len(ms) \in Nat /\ DOMAIN ms = 1..Len(ms)
      /\ \A i \in DOMAIN ms : ms[i] \in S
  BY LenProperties, ElementOfSeq
<1>2. CASE Has(ms, m.name)
  <2> DEFINE new == [i \in DOMAIN ms |-> IF ms[i].name = m.name THEN m ELSE ms[i]]
  <2>1. Upsert(ms, m) = new
    BY <1>2 DEF Upsert
  <2>2. new \in [1..Len(ms) -> S]
    BY <1>1
  <2>3. \A i \in DOMAIN new : i \in DOMAIN ms /\ new[i].name = ms[i].name
    OBVIOUS
  <2> HIDE DEF new
  <2>4. new \in Seq(S)
    BY <1>1, <2>2, Sequences
  <2>5. Distinct(new)
    BY <2>3 DEF Distinct
  <2>6. QED
    BY <2>1, <2>4, <2>5
<1>3. CASE ~Has(ms, m.name)
  <2> DEFINE new == Append(ms, m)
  <2>1. Upsert(ms, m) = new
    BY <1>3 DEF Upsert
  <2>2. /\ new \in Seq(S) /\ Len(new) = Len(ms) + 1 /\ new[Len(ms) + 1] = m
        /\ \A i \in 1..Len(ms) : new[i] = ms[i]
    BY AppendProperties
  <2>3. DOMAIN new = 1..(Len(ms) + 1)
    BY <2>2, LenProperties
  <2> HIDE DEF new
  <2>4. \A i \in DOMAIN ms : new[i] = ms[i] /\ ms[i].name # m.name
    BY <1>1, <1>3, <2>2 DEF Has
  <2>5. \A i \in DOMAIN new : i = Len(ms) + 1 \/ i \in DOMAIN ms
    BY <1>1, <2>3
  <2>6. Distinct(new)
    BY <2>2, <2>4, <2>5 DEF Distinct
  <2>7. QED
    BY <2>1, <2>2, <2>6
<1>4. QED
  BY <1>2, <1>3

\* Members merged give each name once.
LEMMA Merges ==
  ASSUME NEW v \in Json, v.json = "object"
  PROVE  /\ Merged(v) \in Seq(NamedValues) /\ Distinct(Merged(v))
<1> DEFINE ms == v.members
           length == Len(ms)
           T == {s \in Seq(NamedValues) : Distinct(s)}
           step == [p \in Nat \X T |-> IF p[1] \in 1..length THEN Upsert(p[2], ms[p[1]]) ELSE p[2]]
           Is(f) == f = [i \in 0..length |-> IF i = 0 THEN <<>> ELSE Upsert(f[i - 1], ms[i])]
           upto == CHOOSE f : Is(f)
<1>1. length \in Nat /\ \A i \in 1..length : ms[i] \in NamedValues
  BY MembersTyped
<1>2. Merged(v) = upto[length]
  BY DEF Merged
<1>3. <<>> \in T
  BY DEF Distinct
<1> HIDE DEF length, ms
<1>4. \A t \in T, m \in NamedValues : Upsert(t, m) \in T
  BY UpsertKeeps
<1> HIDE DEF T
<1>5. step \in [(Nat \X T) -> T]
  BY <1>1, <1>4
<1>6. PICK g \in [0..length -> T] : Recursive(g, 0..length, <<>>, step)
  <2> HIDE DEF step
  <2>1. QED
    BY <1>1, <1>3, <1>5, RecursionUpTo
<1>7. g[0] = <<>> /\ \A i \in 1..length : g[i] = Upsert(g[i - 1], ms[i])
  <2>1. \A i \in 1..length : i \in (0..length) \ {0} /\ i \in Nat /\ i - 1 \in 0..length
    BY <1>1
  <2>2. \A i \in 1..length : g[i] = step[<<i, g[i - 1]>>]
    BY <1>6, <2>1, Zenon DEF Recursive
  <2>3. g[0] = <<>>
    BY <1>6 DEF Recursive
  <2>4. \A i \in 1..length : <<i, g[i - 1]>> \in Nat \X T
    BY <1>6, <2>1
  <2>5. QED
    BY <2>2, <2>3, <2>4
<1>8. Is(g)
  <2>1. \A i \in 0..length : i # 0 => i \in 1..length
    BY <1>1
  <2>2. g = [i \in 0..length |-> g[i]]
    BY <1>6
  <2>3. QED
    BY <1>7, <2>1, <2>2
<1> HIDE DEF step
<1>9. Is(upto)
  <2> HIDE DEF Is
  <2>1. QED
    BY <1>8
<1>10. upto[0] = <<>> /\ \A i \in 1..length : upto[i] = Upsert(upto[i - 1], ms[i])
  <2> HIDE DEF upto
  <2>1. \A i \in 0..length : upto[i] = IF i = 0 THEN <<>> ELSE Upsert(upto[i - 1], ms[i])
    BY <1>9
  <2>2. 0 \in 0..length /\ \A i \in 1..length : i \in 0..length /\ i # 0
    BY <1>1
  <2>3. QED
    BY <2>1, <2>2
<1> HIDE DEF upto, Is
<1> DEFINE good == {i \in Nat : i <= length => upto[i] \in T}
<1>11. 0 \in good
  BY <1>3, <1>10
<1>12. ASSUME NEW i \in Nat, i \in good PROVE i + 1 \in good
  <2>1. SUFFICES ASSUME i + 1 <= length PROVE upto[i + 1] \in T
    OBVIOUS
  <2>2. i + 1 \in 1..length /\ (i + 1) - 1 = i /\ upto[i] \in T
    BY <1>1, <1>12, <2>1
  <2>3. QED
    BY <1>1, <1>4, <1>10, <2>2
<1> HIDE DEF good
<1>13. length \in good
  BY <1>1, <1>11, <1>12, NatSetInduction
<1>14. upto[length] \in T
  BY <1>1, <1>13 DEF good
<1>15. QED
  BY <1>2, <1>14 DEF T

\* A question that was read: its outcomes are a list, a choice names each once.
Outlined(q) ==
  /\ q.kind \in Kinds
  /\ Len(q.outcomes) \in Nat /\ DOMAIN q.outcomes = 1..Len(q.outcomes)
  /\ q.kind = "choice" =>
       \A j, k \in DOMAIN q.outcomes : q.outcomes[j].label = q.outcomes[k].label => j = k

\* What is refused says so.
LEMMA Refuses == ASSUME NEW id, NEW why PROVE IsRefused(Refuse(id, why))
BY DEF Refuse, IsRefused

\* A question made of a list of outcomes is one that can be read.
LEMMA Outlines ==
  ASSUME NEW id, NEW kind \in Kinds, NEW out, NEW n \in Nat, DOMAIN out = 1..n, Len(out) = n,
         kind = "choice" => \A j, k \in 1..n : out[j].label = out[k].label => j = k
  PROVE  Outlined(Question(id, kind, out)) /\ Question(id, kind, out).id = id
BY DEF Question, Outlined

\* A function over the first numbers is a list.
LEMMA ListOf ==
  ASSUME NEW n \in Nat, NEW f, f = [i \in 1..n |-> f[i]] PROVE Len(f) = n /\ DOMAIN f = 1..n
<1> DEFINE S == {f[i] : i \in 1..n}
<1>1. f \in [1..n -> S]
  OBVIOUS
<1> HIDE DEF S
<1>2. f \in Seq(S) /\ DOMAIN f = 1..n
  BY <1>1, Sequences
<1>3. Len(f) \in Nat /\ DOMAIN f = 1..Len(f)
  BY <1>2, LenProperties
<1>4. \A a, b \in Nat : 1..a = 1..b => a = b
  <2>1. ASSUME NEW a \in Nat, NEW b \in Nat, 1..a = 1..b PROVE a = b
    <3>1. a \in 1..a <=> a \in 1..b
      BY <2>1
    <3>2. b \in 1..a <=> b \in 1..b
      BY <2>1
    <3>3. QED
      BY <3>1, <3>2
  <2>2. QED
    BY <2>1
<1>5. QED
  BY <1>2, <1>3, <1>4

\* A question that is not refused is outlined, under the name it was given.
LEMMA Parses ==
  ASSUME NEW id, NEW v \in Json, ~IsRefused(ParseQuestion(id, v))
  PROVE  Outlined(ParseQuestion(id, v)) /\ ParseQuestion(id, v).id = id
<1> DEFINE q == ParseQuestion(id, v)
           type == LastOf(v.members, "type")
           criteria == LastOf(v.members, "criteria")
<1>1. IsReadable(v)
  BY Refuses DEF ParseQuestion
<1>2. type.text \in Kinds
  BY <1>1, Refuses DEF ParseQuestion
<1>3. Outlined(Question(id, "noul", <<>>)) /\ Question(id, "noul", <<>>).id = id
  BY Outlines DEF Kinds
<1>4. CASE ~Has(v.members, "criteria")
  <2>1. q = Question(id, "noul", <<>>)
    BY <1>1, <1>4, Refuses DEF ParseQuestion
  <2>2. QED
    BY <1>3, <2>1
<1>5. CASE Has(v.members, "criteria")
  <2>1. criteria \in Json
    BY <1>1, <1>5, LastTyped DEF IsReadable
  <2>2. q = CASE type.text = "noul"   -> NoulCriteria(id, criteria)
              [] type.text = "choice" -> ChoiceCriteria(id, criteria)
              [] type.text = "score"  -> ScoreCriteria(id, criteria)
    BY <1>1, <1>5, Refuses DEF ParseQuestion
  <2> HIDE DEF q, criteria, type
  <2>3. CASE type.text = "noul"
    <3>1. q = NoulCriteria(id, criteria)
      BY <2>2, <2>3
    <3>2. ~IsRefused(q)
      BY DEF q
    <3>3. q = Question(id, "noul", <<>>)
      BY <3>1, <3>2, Refuses DEF NoulCriteria
    <3>4. QED
      BY <1>3, <3>3 DEF q
  <2>4. CASE type.text = "choice"
    <3> DEFINE labels == Merged(criteria)
               out == [i \in DOMAIN labels |-> Outcome(labels[i].name, labels[i].value)]
    <3>1. q = ChoiceCriteria(id, criteria)
      BY <2>2, <2>4
    <3>2. ~IsRefused(q)
      BY DEF q
    <3>3. IsReadable(criteria) /\ q = Question(id, "choice", out)
      BY <3>1, <3>2, Refuses DEF ChoiceCriteria
    <3>4. labels \in Seq(NamedValues) /\ Distinct(labels)
      BY <2>1, <3>3, Merges DEF IsReadable
    <3> HIDE DEF labels
    <3>5. Len(labels) \in Nat /\ DOMAIN labels = 1..Len(labels)
      BY <3>4, LenProperties
    <3>6. \A i \in 1..Len(labels) : out[i].label = labels[i].name
      BY <3>5 DEF Outcome
    <3>7. out = [i \in 1..Len(labels) |-> out[i]]
      BY <3>5
    <3> HIDE DEF out
    <3>8. Len(out) = Len(labels) /\ DOMAIN out = 1..Len(labels)
      BY <3>5, <3>7, ListOf
    <3>9. \A j, k \in 1..Len(labels) : out[j].label = out[k].label => j = k
      BY <3>4, <3>5, <3>6 DEF Distinct
    <3>10. "choice" \in Kinds
      BY DEF Kinds
    <3>11. Outlined(Question(id, "choice", out)) /\ Question(id, "choice", out).id = id
      BY <3>5, <3>8, <3>9, <3>10, Outlines
    <3>12. QED
      BY <3>3, <3>11 DEF q
  <2>5. CASE type.text = "score"
    <3> DEFINE out == [i \in DOMAIN criteria.items |-> Outcome(ToString(i - 1), criteria.items[i])]
    <3>1. q = ScoreCriteria(id, criteria)
      BY <2>2, <2>5
    <3>2. ~IsRefused(q)
      BY DEF q
    <3>3. criteria.json = "array" /\ q = Question(id, "score", out)
      BY <3>1, <3>2, Refuses DEF ScoreCriteria
    <3>4. criteria.items \in Seq(Json)
      BY <2>1, <3>3, JsonAssumption
    <3>5. Len(criteria.items) \in Nat /\ DOMAIN criteria.items = 1..Len(criteria.items)
      BY <3>4, LenProperties
    <3>6. out = [i \in 1..Len(criteria.items) |-> out[i]]
      BY <3>5
    <3> HIDE DEF out
    <3>7. Len(out) = Len(criteria.items) /\ DOMAIN out = 1..Len(criteria.items)
      BY <3>5, <3>6, ListOf
    <3>8. QED
      BY <3>3, <3>5, <3>7, Outlines DEF Kinds, q
  <2>6. QED
    BY <1>2, <2>3, <2>4, <2>5 DEF Kinds, type
<1>6. QED
  BY <1>4, <1>5

\* The questions of a call that may be asked.
AllQuestions(qs) ==
  /\ Len(qs) \in Nat /\ DOMAIN qs = 1..Len(qs)
  /\ \A k \in DOMAIN qs : Outlined(qs[k]) /\ (qs[k].kind # "noul" => Len(qs[k].outcomes) >= 2)
  /\ \A j, k \in DOMAIN qs : qs[j].id = qs[k].id => j = k

\* The questions of a set that is not refused are questions, each with its own name.
LEMMA Asks == ASSUME NEW s \in Askable PROVE AllQuestions(Model[s].questions)
<1> DEFINE v == QuestionSets[s]
           members == Merged(v)
           read == [i \in DOMAIN members |-> ParseQuestion(members[i].name, members[i].value)]
           refused == {i \in DOMAIN read : IsRefused(read[i])}
<1>1. s \in DOMAIN QuestionSets /\ Model[s] = FromJson(v) /\ ~IsRefused(FromJson(v))
  BY DEF Askable, Model
<1>2. v \in Json /\ v.json = "object"
  BY <1>1, JsonAssumption
<1>3. members \in Seq(NamedValues) /\ Distinct(members)
  BY <1>2, Merges
<1>4. /\ Len(members) \in Nat /\ DOMAIN members = 1..Len(members)
      /\ \A i \in DOMAIN members : members[i] \in NamedValues
  BY <1>3, LenProperties, ElementOfSeq
<1>5. refused = {}
  <2>1. SUFFICES ASSUME refused # {} PROVE FALSE
    OBVIOUS
  <2>2. \E m \in refused : \A y \in refused : m =< y
    <3>1. refused \in SUBSET Nat
      BY <1>4
    <3>2. QED
      BY <2>1, <3>1, Least
  <2>3. Min(refused) \in refused
    BY <2>2 DEF Min
  <2>4. IsRefused(read[Min(refused)])
    BY <2>3
  <2>5. QED
    BY <1>1, <2>1, <2>4, Refuses DEF FromJson
<1>6. FromJson(v) = [questions |-> read]
  BY <1>1, <1>5, Refuses DEF FromJson
<1>7. \A i \in DOMAIN read : read[i].kind # "noul" => ~(Len(read[i].outcomes) < 2)
  BY <1>1, <1>5, Refuses DEF FromJson
<1> HIDE DEF members
<1>8. \A i \in 1..Len(members) : read[i] = ParseQuestion(members[i].name, members[i].value)
  BY <1>4
<1>9. Len(read) = Len(members) /\ DOMAIN read = 1..Len(members)
  <2>1. read = [i \in 1..Len(members) |-> read[i]]
    BY <1>4
  <2> HIDE DEF read
  <2>2. QED
    BY <1>4, <2>1, ListOf
<1> HIDE DEF read
<1>10. ASSUME NEW i \in 1..Len(members)
       PROVE  Outlined(read[i]) /\ read[i].id = members[i].name
  <2>1. members[i].value \in Json
    BY <1>4 DEF NamedValues
  <2>2. ~IsRefused(read[i])
    BY <1>5, <1>9
  <2>3. QED
    BY <1>8, <2>1, <2>2, Parses
<1>11. \A i \in 1..Len(members) : read[i].kind # "noul" => Len(read[i].outcomes) >= 2
  BY <1>7, <1>9, <1>10 DEF Outlined
<1>12. \A j, k \in 1..Len(members) : read[j].id = read[k].id => j = k
  BY <1>3, <1>4, <1>10 DEF Distinct
<1>13. Model[s].questions = read
  BY <1>1, <1>6
<1>14. QED
  BY <1>4, <1>9, <1>10, <1>11, <1>12, <1>13 DEF AllQuestions

-----------------------------------------------------------------------------
(* The schema, and one answer under it. *)

\* The schema of one question, among the properties of the answers.
PropertyOf(qs, mode, k) ==
  IF IsMap(qs[k], mode) THEN Reference(<<"ProbabilityMap", k - 1>>) ELSE ValueKind(qs[k], mode)

\* What the model is told: the answers by their questions, each a value or a
\* map of its own.
LEMMA Writes ==
  ASSUME NEW qs, AllQuestions(qs), NEW mode
  PROVE  LET w == WriteSchema(qs, mode) IN
         /\ w.root.required = {"answers"} /\ w.root.properties["answers"] = Reference(AnswersDef)
         /\ w.defs[AnswersDef].required = {qs[k].id : k \in DOMAIN qs}
         /\ \A k \in DOMAIN qs : w.defs[AnswersDef].properties[qs[k].id] = PropertyOf(qs, mode, k)
         /\ \A k \in DOMAIN qs : IsMap(qs[k], mode) =>
              w.defs[<<"ProbabilityMap", k - 1>>] = ProbabilityMap(qs[k])
<1> DEFINE w == WriteSchema(qs, mode)
           maps == {i \in DOMAIN qs : IsMap(qs[i], mode)}
           ids == [i \in DOMAIN qs |-> qs[i].id]
           answers == [type |-> "object", required |-> ToSet(ids),
                       properties |-> [n \in ToSet(ids) |->
                         LET i == CHOOSE j \in DOMAIN ids : ids[j] = n
                         IN  IF i \in maps THEN Reference(<<"ProbabilityMap", i - 1>>)
                                           ELSE ValueKind(qs[i], mode)]]
           front == [n \in {AnswersDef} |-> answers]
           back == [n \in {<<"ProbabilityMap", i - 1>> : i \in maps} |-> ProbabilityMap(qs[n[2] + 1])]
           root == [type |-> "object", required |-> ToSet(<<"answers">>),
                    properties |-> [n \in ToSet(<<"answers">>) |-> Reference(AnswersDef)]]
<1>1. w = [defs |-> Over(front, back), root |-> root]
  BY DEF WriteSchema, Closed
<1>2. DOMAIN qs \subseteq Nat /\ \A j, k \in DOMAIN qs : qs[j].id = qs[k].id => j = k
  BY DEF AllQuestions
<1>3. ToSet(<<"answers">>) = {"answers"}
  BY OneLong
<1>4. w.root.required = {"answers"} /\ w.root.properties["answers"] = Reference(AnswersDef)
  BY <1>1, <1>3
<1>5. ToSet(ids) = {qs[k].id : k \in DOMAIN qs}
  BY DEF ToSet
<1>6. w.defs[AnswersDef] = answers
  <2> HIDE DEF answers, back, root
  <2>1. AnswersDef \in DOMAIN front /\ front[AnswersDef] = answers
    OBVIOUS
  <2> HIDE DEF front
  <2>2. w.defs = Over(front, back)
    BY <1>1
  <2> HIDE DEF w
  <2>3. Over(front, back)[AnswersDef] = front[AnswersDef]
    BY <2>1, Overs
  <2>4. QED
    BY <2>1, <2>2, <2>3
<1>7. ASSUME NEW k \in DOMAIN qs PROVE answers.properties[qs[k].id] = PropertyOf(qs, mode, k)
  <2> DEFINE i == CHOOSE j \in DOMAIN ids : ids[j] = qs[k].id
  <2>1. qs[k].id \in ToSet(ids)
    BY <1>5
  <2>2. i = k
    <3>1. \E j \in DOMAIN ids : ids[j] = qs[k].id
      OBVIOUS
    <3>2. i \in DOMAIN qs /\ qs[i].id = qs[k].id
      BY <3>1
    <3>3. QED
      BY <1>2, <3>2
  <2>3. answers.properties[qs[k].id] =
          IF i \in maps THEN Reference(<<"ProbabilityMap", i - 1>>) ELSE ValueKind(qs[i], mode)
    BY <2>1
  <2> HIDE DEF i
  <2>4. QED
    BY <2>2, <2>3 DEF PropertyOf
<1>8. ASSUME NEW k \in DOMAIN qs, IsMap(qs[k], mode)
      PROVE  w.defs[<<"ProbabilityMap", k - 1>>] = ProbabilityMap(qs[k])
  <2> DEFINE n == <<"ProbabilityMap", k - 1>>
  <2>1. k \in maps /\ k \in Nat
    BY <1>2, <1>8
  <2>2. n # AnswersDef
    <3>1. n[1] = "ProbabilityMap" /\ AnswersDef[1] = "TypeSafeAnswers"
      BY DEF AnswersDef
    <3>2. QED
      BY <3>1
  <2>3. n \in DOMAIN back /\ back[n] = ProbabilityMap(qs[k])
    <3>1. n \in DOMAIN back
      BY <2>1
    <3>2. back[n] = ProbabilityMap(qs[n[2] + 1])
      BY <3>1
    <3>3. n[2] + 1 = k
      BY <2>1
    <3> HIDE DEF n, back
    <3>4. QED
      BY <3>1, <3>2, <3>3
  <2>4. n \notin DOMAIN front
    BY <2>2
  <2> HIDE DEF n, back, front, answers, root
  <2>5. w.defs = Over(front, back)
    BY <1>1
  <2> HIDE DEF w
  <2>6. Over(front, back)[n] = back[n]
    <3>1. \A x \in DOMAIN back \ DOMAIN front : Over(front, back)[x] = back[x]
      BY Overs
    <3>2. n \in DOMAIN back \ DOMAIN front
      BY <2>3, <2>4
    <3>3. QED
      BY <3>1, <3>2, Zenon
  <2>7. w.defs[n] = ProbabilityMap(qs[k])
    BY <2>3, <2>5, <2>6
  <2>8. QED
    BY <2>7 DEF n
<1>9. w.defs[AnswersDef].required = {qs[k].id : k \in DOMAIN qs}
  BY <1>5, <1>6
<1>10. \A k \in DOMAIN qs : w.defs[AnswersDef].properties[qs[k].id] = PropertyOf(qs, mode, k)
  BY <1>6, <1>7
<1> HIDE DEF w
<1>11. QED
  BY <1>4, <1>8, <1>9, <1>10 DEF w

\* The number of one label.
LEMMA ProbabilityIs ==
  ASSUME NEW v, NEW at
  PROVE  LET d == Probability(v, at) IN
         /\ IsList(d.problems)
         /\ d.problems = <<>> <=> v.json = "number" /\ v.parts \in 0..Unit
         /\ d.problems = <<>> => d.value = v.parts
         /\ \A p \in ToSet(d.problems) : p.at = at
<1>1. \A what : Problem(what, at).at = at
  BY DEF Problem
<1>2. Good(v.parts).value = v.parts
  BY DEF Good
<1> DEFINE d == Probability(v, at)
<1>3. \/ d = Good(v.parts) /\ v.json = "number" /\ v.parts \in 0..Unit
      \/ d = Bad(Problem("WrongType", at)) /\ v.json # "number"
      \/ d = Bad(Problem("NotAllowed", at)) /\ v.parts \notin 0..Unit
  BY DEF Probability
<1> HIDE DEF d
<1>4. CASE d = Good(v.parts) /\ v.json = "number" /\ v.parts \in 0..Unit
  BY <1>2, <1>4, GoodIs DEF d
<1>5. ASSUME NEW what, d = Bad(Problem(what, at)), ~(v.json = "number" /\ v.parts \in 0..Unit)
      PROVE  /\ IsList(d.problems)
             /\ d.problems = <<>> <=> v.json = "number" /\ v.parts \in 0..Unit
             /\ d.problems = <<>> => d.value = v.parts
             /\ \A p \in ToSet(d.problems) : p.at = at
  <2>1. IsList(d.problems) /\ ToSet(d.problems) = {Problem(what, at)} /\ d.problems # <<>>
    BY <1>5, BadIs
  <2>2. QED
    BY <1>1, <1>5, <2>1
<1>6. QED
  BY <1>3, <1>4, <1>5 DEF d

\* The members of a distribution, each read as a weight.
LabelsRead(v, q, at) ==
  [i \in DOMAIN Labels(q) |-> Probability(Members(v, Labels(q), at).value[i], Append(at, Labels(q)[i]))]

\* A distribution is an object whose members are weights.
LEMMA DistributionIs ==
  ASSUME NEW v, NEW q, NEW at
  PROVE  Distribution(v, q, at) = Assembled(v, Labels(q), at, LabelsRead(v, q, at))
<1> DEFINE names == Labels(q)
           value == Members(v, names, at).value
<1>1. [i \in DOMAIN names |-> IF value[i] = None THEN Bad(Missing(at, names[i]))
                               ELSE Probability(value[i], Append(at, names[i]))]
      = [i \in DOMAIN names |-> IF value[i] = None THEN Bad(Missing(at, names[i]))
                               ELSE LabelsRead(v, q, at)[i]]
  BY DEF LabelsRead
<1>2. QED
  BY <1>1 DEF Distribution, ReadObject, Assembled

\* Division by the unit.
LEMMA Divides ==
  ASSUME NEW p \in Int, NEW u \in Nat \ {0}
  PROVE  p \div u \in Int /\ p % u \in 0..(u - 1) /\ p = u * (p \div u) + (p % u)
<1>1. p \div u \in Int
  OBVIOUS
<1>2. p % u \in 0..(u - 1)
  OBVIOUS
<1>3. p = u * (p \div u) + (p % u)
  OBVIOUS
<1>4. QED
  BY <1>1, <1>2, <1>3

\* Products with the unit are ordered as what is multiplied is.
LEMMA Times ==
  ASSUME NEW q \in Int, NEW n \in Int, NEW u \in Nat \ {0}
  PROVE  /\ u * q >= 0 <=> q >= 0
         /\ u * q < u * n <=> q < n
         /\ u * q = u * n <=> q = n
OBVIOUS

\* An integer is among the levels if its parts are among theirs.
LEMMA LevelIn ==
  ASSUME NEW p \in Int, NEW n \in Nat, p % Unit = 0
  PROVE  /\ p \div Unit \in 0..(n - 1) <=> p >= 0 /\ p < Unit * n
         /\ p \div Unit \in Int /\ p = Unit * (p \div Unit)
<1>1. Unit \in Nat \ {0}
  BY AnswersAssumption
<1> DEFINE q == p \div Unit
<1>2. q \in Int /\ p = Unit * q
  <2>1. q \in Int /\ p = Unit * q + (p % Unit)
    BY <1>1, Divides
  <2>2. QED
    BY <1>1, <2>1
<1> HIDE DEF q
<1>3. (Unit * q >= 0 <=> q >= 0) /\ (Unit * q < Unit * n <=> q < n)
  BY <1>1, <1>2, Times
<1>4. QED
  BY <1>2, <1>3 DEF q

-----------------------------------------------------------------------------
(* What an answer must be, and what it then says. *)

\* A probability.
IsNumberIn(v) == v.json = "number" /\ v.parts \in 0..Unit

\* What an answer to a question must be, and what it means.
Fitting(q, mode, v) ==
  CASE IsMap(q, mode) ->
         /\ IsReadable(v) /\ NamesOf(v) = ToSet(Labels(q))
         /\ \A i \in DOMAIN Labels(q) : IsNumberIn(LastOf(v.members, Labels(q)[i]))
    [] mode = "probabilities" /\ q.kind = "noul" -> IsNumberIn(v)
    [] mode = "discrete" /\ q.kind = "noul"   -> v.json = "boolean"
    [] mode = "discrete" /\ q.kind = "score"  ->
         v.json = "number" /\ v.integer /\ v.parts \div Unit \in 0..(Len(q.outcomes) - 1)
    [] mode = "discrete" /\ q.kind = "choice" -> v.json = "string" /\ v.text \in ToSet(Labels(q))

Meaning(q, mode, v) ==
  CASE IsMap(q, mode) -> [i \in DOMAIN Labels(q) |-> LastOf(v.members, Labels(q)[i]).parts]
    [] mode = "probabilities" /\ q.kind = "noul" -> v.parts
    [] mode = "discrete" /\ q.kind = "noul"   -> v.is
    [] mode = "discrete" /\ q.kind = "score"  -> v.parts \div Unit + 1
    [] mode = "discrete" /\ q.kind = "choice" ->
         CHOOSE i \in DOMAIN Labels(q) : Labels(q)[i] = v.text

\* The problems of an answer are told at the answer, or below it, or of the text.
Own(id, d) ==
  \A p \in ToSet(d.problems) : p = Problem("NotJson", Reply) \/ Ahead(id, p)

\* The labels of a question are those of its outcomes.
LEMMA LabelsAre ==
  ASSUME NEW q, Outlined(q)
  PROVE  /\ DOMAIN Labels(q) = 1..Len(q.outcomes) /\ Len(q.outcomes) \in Nat
         /\ Len(Labels(q)) = Len(q.outcomes)
         /\ \A i \in 1..Len(q.outcomes) : Labels(q)[i] = q.outcomes[i].label
<1>1. Len(q.outcomes) \in Nat /\ DOMAIN q.outcomes = 1..Len(q.outcomes)
  BY DEF Outlined
<1>2. Labels(q) = [i \in 1..Len(q.outcomes) |-> q.outcomes[i].label]
  BY <1>1 DEF Labels
<1> DEFINE f == Labels(q)
<1>3. f = [i \in 1..Len(q.outcomes) |-> f[i]]
  BY <1>2
<1> HIDE DEF f
<1>4. Len(f) = Len(q.outcomes)
  BY <1>1, <1>3, ListOf
<1>5. QED
  BY <1>1, <1>2, <1>4 DEF f

\* A distribution is read exactly if it has the labels, and a probability under each.
LEMMA DistributionRead ==
  ASSUME NEW q, Outlined(q), NEW v \in Json
  PROVE  LET d == Distribution(v, q, Append(AnswersAt, q.id)) IN
         /\ IsList(d.problems) /\ Own(q.id, d)
         /\ d.problems = <<>> <=>
              /\ IsReadable(v) /\ NamesOf(v) = ToSet(Labels(q))
              /\ \A i \in DOMAIN Labels(q) : IsNumberIn(LastOf(v.members, Labels(q)[i]))
         /\ d.problems = <<>> => d.value = [i \in DOMAIN Labels(q) |-> LastOf(v.members, Labels(q)[i]).parts]
<1> DEFINE names == Labels(q)
           n == Len(q.outcomes)
           at == Append(AnswersAt, q.id)
           reads == LabelsRead(v, q, at)
           d == Assembled(v, names, at, reads)
<1>1. DOMAIN names = 1..n /\ n \in Nat
  BY LabelsAre
<1>2. Distribution(v, q, at) = d
  BY DistributionIs
<1>3. ASSUME NEW i \in 1..n
      PROVE  /\ IsList(reads[i].problems)
             /\ \A p \in ToSet(reads[i].problems) : p.at = Append(at, names[i])
  <2>1. reads[i] = Probability(Members(v, names, at).value[i], Append(at, names[i]))
    BY <1>1 DEF LabelsRead
  <2> DEFINE w == Members(v, names, at).value[i]
             l == Append(at, names[i])
  <2>2. reads[i] = Probability(w, l)
    BY <2>1
  <2> HIDE DEF w, l, reads
  <2>3. LET e == Probability(w, l) IN IsList(e.problems) /\ \A p \in ToSet(e.problems) : p.at = l
    BY ProbabilityIs
  <2>4. QED
    BY <2>2, <2>3 DEF l
<1>4. ASSUME NEW i \in 1..n, names[i] \in NamesOf(v)
      PROVE  LET w == LastOf(v.members, names[i]) IN
             /\ reads[i].problems = <<>> <=> IsNumberIn(w)
             /\ reads[i].problems = <<>> => reads[i].value = w.parts
  <2>1. reads[i] = Probability(LastOf(v.members, names[i]), Append(at, names[i]))
    <3>1. Members(v, names, at).value[i] = LastOf(v.members, names[i])
      BY <1>1, <1>4, HasIs DEF Members
    <3>2. QED
      BY <1>1, <3>1 DEF LabelsRead
  <2> DEFINE w == LastOf(v.members, names[i])
             l == Append(at, names[i])
  <2>2. reads[i] = Probability(w, l)
    BY <2>1
  <2> HIDE DEF w, l, reads
  <2>3. LET e == Probability(w, l) IN
        /\ e.problems = <<>> <=> w.json = "number" /\ w.parts \in 0..Unit
        /\ e.problems = <<>> => e.value = w.parts
    BY ProbabilityIs
  <2>4. QED
    BY <2>2, <2>3 DEF IsNumberIn, w
<1> HIDE DEF reads, names, n
<1>5. /\ IsList(d.problems)
      /\ d.problems = <<>> <=>
           /\ IsReadable(v) /\ NamesOf(v) = ToSet(names)
           /\ \A i \in 1..n : reads[i].problems = <<>>
      /\ d.problems = <<>> => d.value = [i \in 1..n |-> reads[i].value]
  BY <1>1, <1>3, AssemblesWhole
<1>6. ASSUME NamesOf(v) = ToSet(names), NEW i \in 1..n PROVE names[i] \in NamesOf(v)
  BY <1>1, <1>6 DEF ToSet
<1>7. /\ at = <<"answers", q.id>> /\ \A l : Append(at, l) = <<"answers", q.id, l>>
      /\ IsPrefix(<<"answers", q.id>>, at) /\ \A l : IsPrefix(<<"answers", q.id>>, Append(at, l))
  <2>1. ASSUME NEW l
        PROVE  /\ Append(AnswersAt, q.id) = <<"answers", q.id>>
               /\ Append(Append(AnswersAt, q.id), l) = <<"answers", q.id, l>>
               /\ IsPrefix(<<"answers", q.id>>, <<"answers", q.id>>)
               /\ IsPrefix(<<"answers", q.id>>, <<"answers", q.id, l>>)
    BY PlacesApart
  <2>2. QED
    BY <2>1, Zenon
<1> HIDE DEF at
<1>8. Own(q.id, d)
  <2>1. CASE v.json # "object"
    <3>1. d = Bad(Problem("WrongType", at))
      BY <2>1 DEF Assembled
    <3>2. ToSet(d.problems) = {Problem("WrongType", at)}
      BY <3>1, BadIs
    <3>3. QED
      BY <1>7, <3>2, ProblemsApart DEF Own, Ahead
  <2>2. CASE v.json = "object" /\ ~IsReadable(v)
    <3>1. d = Bad(Problem("NotJson", Reply))
      BY <2>2 DEF Assembled
    <3>2. ToSet(d.problems) = {Problem("NotJson", Reply)}
      BY <3>1, BadIs
    <3> HIDE DEF d
    <3>3. QED
      BY <3>2 DEF Own
  <2>3. CASE IsReadable(v)
    <3>1. ToSet(d.problems) = Strange(v, names, at) \cup Wanting(v, names, at) \cup Within(v, names, reads)
      <4>1. \A i \in 1..n : names[i] \in NamesOf(v) => IsList(reads[i].problems)
        BY <1>3
      <4>2. n \in Nat /\ DOMAIN names = 1..n /\ IsReadable(v)
        BY <1>1, <2>3
      <4>3. LET e == Assembled(v, names, at, reads) IN
            /\ IsList(e.problems)
            /\ ToSet(e.problems) =
                 Strange(v, names, at) \cup Wanting(v, names, at) \cup Within(v, names, reads)
            /\ e.problems = <<>> => e.value = [i \in 1..n |-> reads[i].value]
        BY <4>1, <4>2, Assembles
      <4>4. QED
        BY <4>3
    <3> HIDE DEF d
    <3>2. \A p \in Strange(v, names, at) \cup Wanting(v, names, at) : p.at = at
      BY ProblemsApart DEF Strange, Wanting
    <3>3. ASSUME NEW p \in Within(v, names, reads) PROVE \E l : p.at = Append(at, l)
      <4>1. PICK i \in 1..n : p \in ToSet(reads[i].problems)
        BY <1>1 DEF Within
      <4>2. QED
        BY <1>3, <4>1
    <3>4. QED
      BY <1>7, <3>1, <3>2, <3>3 DEF Own, Ahead
  <2>4. QED
    BY <2>1, <2>2, <2>3
<1> HIDE DEF d
<1>9. d.problems = <<>> <=>
        /\ IsReadable(v) /\ NamesOf(v) = ToSet(names)
        /\ \A i \in DOMAIN names : IsNumberIn(LastOf(v.members, names[i]))
  BY <1>1, <1>4, <1>5, <1>6
<1>10. d.problems = <<>> => d.value = [i \in DOMAIN names |-> LastOf(v.members, names[i]).parts]
  BY <1>1, <1>4, <1>5, <1>6
<1>11. QED
  BY <1>2, <1>5, <1>8, <1>9, <1>10 DEF names, at

\* A value that stands alone is read, or is one problem at its answer.
LEMMA ReadsGood ==
  ASSUME NEW id, NEW d, NEW value, d = Good(value)
  PROVE  IsList(d.problems) /\ Own(id, d) /\ d.problems = <<>> /\ d.value = value
<1>1. IsList(d.problems) /\ ToSet(d.problems) = {} /\ d.problems = <<>> /\ d.value = value
  BY GoodIs DEF Good
<1>2. QED
  BY <1>1 DEF Own

\* A value that cannot stand is one problem, at its answer.
LEMMA ReadsBad ==
  ASSUME NEW id, NEW d, NEW what, d = Bad(Problem(what, Append(AnswersAt, id)))
  PROVE  IsList(d.problems) /\ Own(id, d) /\ d.problems # <<>>
<1> DEFINE at == Append(AnswersAt, id)
<1>1. IsList(d.problems) /\ ToSet(d.problems) = {Problem(what, at)} /\ d.problems # <<>>
  BY BadIs
<1>2. at = <<"answers", id>> /\ IsPrefix(<<"answers", id>>, <<"answers", id>>)
  BY PlacesApart
<1>3. Problem(what, at).at = at
  BY DEF Problem
<1>4. Ahead(id, Problem(what, at))
  BY <1>2, <1>3 DEF Ahead
<1> HIDE DEF at
<1>5. QED
  BY <1>1, <1>4 DEF Own

\* An answer is read exactly if it fits, gives what it means, and what is wrong
\* with it is told at its question.
LEMMA AnswerRead ==
  ASSUME NEW q, Outlined(q), NEW mode \in Modes, NEW v \in Json
  PROVE  LET d == DecodeAnswer(q, mode, v) IN
         /\ IsList(d.problems) /\ Own(q.id, d)
         /\ d.problems = <<>> <=> Fitting(q, mode, v)
         /\ d.problems = <<>> => d.value = Meaning(q, mode, v)
<1> DEFINE d == DecodeAnswer(q, mode, v)
           at == Append(AnswersAt, q.id)
<1>1. q.kind \in {"noul", "choice", "score"} /\ mode \in {"probabilities", "discrete"}
  BY DEF Outlined, Kinds, Modes
<1>2. CASE IsMap(q, mode)
  <2>1. d = Distribution(v, q, at)
    BY <1>2 DEF DecodeAnswer, IsMap
  <2>2. /\ Fitting(q, mode, v) <=>
             /\ IsReadable(v) /\ NamesOf(v) = ToSet(Labels(q))
             /\ \A i \in DOMAIN Labels(q) : IsNumberIn(LastOf(v.members, Labels(q)[i]))
        /\ Meaning(q, mode, v) = [i \in DOMAIN Labels(q) |-> LastOf(v.members, Labels(q)[i]).parts]
    BY <1>2 DEF Fitting, Meaning, IsMap
  <2>3. LET e == Distribution(v, q, at) IN
        /\ IsList(e.problems) /\ Own(q.id, e)
        /\ e.problems = <<>> <=>
             /\ IsReadable(v) /\ NamesOf(v) = ToSet(Labels(q))
             /\ \A i \in DOMAIN Labels(q) : IsNumberIn(LastOf(v.members, Labels(q)[i]))
        /\ e.problems = <<>> => e.value = [i \in DOMAIN Labels(q) |-> LastOf(v.members, Labels(q)[i]).parts]
    BY DistributionRead
  <2> HIDE DEF d, at
  <2>4. QED
    BY <2>1, <2>2, <2>3 DEF d
<1>3. CASE ~IsMap(q, mode) /\ mode = "probabilities"
  <2>1. q.kind = "noul"
    BY <1>3 DEF IsMap
  <2>2. d = Probability(v, at) /\ (Fitting(q, mode, v) <=> IsNumberIn(v)) /\ Meaning(q, mode, v) = v.parts
    BY <1>1, <1>3, <2>1 DEF DecodeAnswer, Fitting, Meaning
  <2>3. \/ IsNumberIn(v) /\ d = Good(v.parts)
        \/ ~IsNumberIn(v) /\ \E what : d = Bad(Problem(what, at))
    BY <2>2 DEF Probability, IsNumberIn
  <2> HIDE DEF d, at
  <2>4. /\ IsList(d.problems) /\ Own(q.id, d) /\ (d.problems = <<>> <=> IsNumberIn(v))
        /\ d.problems = <<>> => d.value = v.parts
    BY <2>3, ReadsGood, ReadsBad DEF at
  <2>5. QED
    BY <2>2, <2>4 DEF d
<1>4. CASE mode = "discrete" /\ q.kind = "noul"
  <2>1. ~IsMap(q, mode)
    BY <1>4 DEF IsMap
  <2>2. d = Boolean(v, at) /\ (Fitting(q, mode, v) <=> v.json = "boolean") /\ Meaning(q, mode, v) = v.is
    BY <1>4, <2>1 DEF DecodeAnswer, Fitting, Meaning
  <2>3. \/ v.json = "boolean" /\ d = Good(v.is)
        \/ ~(v.json = "boolean") /\ \E what : d = Bad(Problem(what, at))
    BY <2>2 DEF Boolean
  <2> HIDE DEF d, at
  <2>4. /\ IsList(d.problems) /\ Own(q.id, d) /\ (d.problems = <<>> <=> v.json = "boolean")
        /\ d.problems = <<>> => d.value = v.is
    BY <2>3, ReadsGood, ReadsBad DEF at
  <2>5. QED
    BY <2>2, <2>4 DEF d
<1>5. CASE mode = "discrete" /\ q.kind = "score"
  <2> DEFINE fits == v.json = "number" /\ v.integer /\ v.parts \div Unit \in 0..(Len(q.outcomes) - 1)
             value == v.parts \div Unit + 1
  <2>1. ~IsMap(q, mode)
    BY <1>5 DEF IsMap
  <2>2. d = Level(v, q, at) /\ (Fitting(q, mode, v) <=> fits) /\ Meaning(q, mode, v) = value
    BY <1>5, <2>1 DEF DecodeAnswer, Fitting, Meaning
  <2>3. \/ fits /\ d = Good(value)
        \/ ~fits /\ \E what : d = Bad(Problem(what, at))
    BY <2>2 DEF Level
  <2> HIDE DEF d, at, fits, value
  <2>4. /\ IsList(d.problems) /\ Own(q.id, d) /\ (d.problems = <<>> <=> fits)
        /\ d.problems = <<>> => d.value = value
    BY <2>3, ReadsGood, ReadsBad DEF at
  <2>5. QED
    BY <2>2, <2>4 DEF d
<1>6. CASE mode = "discrete" /\ q.kind = "choice"
  <2> DEFINE fits == v.json = "string" /\ v.text \in ToSet(Labels(q))
             value == CHOOSE i \in DOMAIN Labels(q) : Labels(q)[i] = v.text
  <2>1. ~IsMap(q, mode)
    BY <1>6 DEF IsMap
  <2>2. d = Label(v, q, at) /\ (Fitting(q, mode, v) <=> fits) /\ Meaning(q, mode, v) = value
    BY <1>6, <2>1 DEF DecodeAnswer, Fitting, Meaning
  <2>3. \/ fits /\ d = Good(value)
        \/ ~fits /\ \E what : d = Bad(Problem(what, at))
    BY <2>2 DEF Label
  <2> HIDE DEF d, at, fits, value
  <2>4. /\ IsList(d.problems) /\ Own(q.id, d) /\ (d.problems = <<>> <=> fits)
        /\ d.problems = <<>> => d.value = value
    BY <2>3, ReadsGood, ReadsBad DEF at
  <2>5. QED
    BY <2>2, <2>4 DEF d
<1>7. QED
  BY <1>1, <1>2, <1>3, <1>4, <1>5, <1>6

\* The state of a call that asks these questions.
Posed(qs) ==
  /\ asked = [questions |-> qs, schema |-> WriteSchema(qs, call.mode)]
  /\ call.mode \in Modes /\ AllQuestions(qs)

\* A map fits its definition if its names are the labels and its values numbers.
LEMMA MapFits ==
  ASSUME NEW q, Outlined(q), NEW v
  PROVE  FitsObject(ProbabilityMap(q), v, FitsValue) <=>
           /\ IsReadable(v) /\ NamesOf(v) = ToSet(Labels(q))
           /\ \A i \in DOMAIN Labels(q) : LastOf(v.members, Labels(q)[i]).json = "number"
<1> DEFINE s == ProbabilityMap(q)
<1>1. s = [type |-> "object", required |-> ToSet(Labels(q)),
           properties |-> [n \in ToSet(Labels(q)) |-> [type |-> "number"]]]
  BY DEF ProbabilityMap, Closed
<1>2. s.required = ToSet(Labels(q)) /\ \A n \in ToSet(Labels(q)) : s.properties[n] = [type |-> "number"]
  BY <1>1
<1> HIDE DEF s
<1>3. FitsObject(s, v, FitsValue) <=>
        /\ IsReadable(v) /\ s.required = NamesOf(v)
        /\ \A n \in s.required : FitsValue(s.properties[n], LastOf(v.members, n))
  BY DEF FitsObject, NamesOf
<1>4. \A n \in ToSet(Labels(q)) : \A w :
        FitsValue(s.properties[n], w) <=> w.json = "number"
  BY <1>2 DEF FitsValue
<1>5. (\A n \in ToSet(Labels(q)) : LastOf(v.members, n).json = "number")
        <=> \A i \in DOMAIN Labels(q) : LastOf(v.members, Labels(q)[i]).json = "number"
  BY DEF ToSet
<1>6. QED
  BY <1>2, <1>3, <1>4, <1>5 DEF s

\* The decoder takes an answer exactly if the schema does, within the bounds.
LEMMA Agrees ==
  ASSUME NEW qs, Posed(qs), NEW k \in DOMAIN qs, NEW v \in Json
  PROVE  Fitting(qs[k], call.mode, v) <=>
           /\ FitsProperty(Schema.defs[AnswersDef].properties[qs[k].id], v)
           /\ InBounds(qs[k], v)
<1> DEFINE q == qs[k]
           mode == call.mode
           s == Schema.defs[AnswersDef].properties[q.id]
<1>1. Outlined(q) /\ mode \in {"probabilities", "discrete"} /\ q.kind \in {"noul", "choice", "score"}
  BY DEF Posed, AllQuestions, Modes, Outlined, Kinds
<1>2. Schema = WriteSchema(qs, mode)
  BY DEF Posed, Schema
<1>3. s = PropertyOf(qs, mode, k)
  BY <1>2, Writes DEF Posed
<1>4. CASE IsMap(q, mode)
  <2>1. s = Reference(<<"ProbabilityMap", k - 1>>)
    BY <1>3, <1>4 DEF PropertyOf
  <2>2. "ref" \in DOMAIN s /\ s.ref = <<"ProbabilityMap", k - 1>>
    BY <2>1 DEF Reference
  <2>3. Schema.defs[s.ref] = ProbabilityMap(q)
    BY <1>2, <1>4, <2>2, Writes DEF Posed
  <2>4. FitsProperty(s, v) <=> FitsObject(ProbabilityMap(q), v, FitsValue)
    <3>1. FitsProperty(s, v) <=> FitsObject(Schema.defs[s.ref], v, FitsValue)
      BY <2>2 DEF FitsProperty
    <3> HIDE DEF s
    <3>2. QED
      BY <2>3, <3>1 DEF FitsObject
  <2>5. FitsProperty(s, v) <=>
          /\ IsReadable(v) /\ NamesOf(v) = ToSet(Labels(q))
          /\ \A i \in DOMAIN Labels(q) : LastOf(v.members, Labels(q)[i]).json = "number"
    BY <1>1, <2>4, MapFits
  <2> HIDE DEF s
  <2>6. ASSUME v.json = "object"
        PROVE  InBounds(q, v) <=> \A i \in DOMAIN Labels(q) : LastOf(v.members, Labels(q)[i]).parts \in 0..Unit
    BY <2>6 DEF InBounds, ToSet
  <2>7. Fitting(q, mode, v) <=>
          /\ IsReadable(v) /\ NamesOf(v) = ToSet(Labels(q))
          /\ \A i \in DOMAIN Labels(q) : IsNumberIn(LastOf(v.members, Labels(q)[i]))
    BY <1>4 DEF Fitting, IsMap
  <2>8. QED
    BY <2>5, <2>6, <2>7 DEF IsReadable, IsNumberIn, s
<1>5. ASSUME ~IsMap(q, mode)
      PROVE  FitsProperty(s, v) <=> FitsValue(ValueKind(q, mode), v)
  <2>1. s = ValueKind(q, mode)
    BY <1>3, <1>5 DEF PropertyOf
  <2>2. "ref" \notin DOMAIN ValueKind(q, mode)
    BY <1>1 DEF ValueKind
  <2> HIDE DEF s
  <2>3. QED
    BY <2>1, <2>2 DEF FitsProperty, s
<1>6. CASE ~IsMap(q, mode) /\ mode = "probabilities"
  <2>1. q.kind = "noul"
    BY <1>6 DEF IsMap
  <2>2. FitsProperty(s, v) <=> v.json = "number"
    BY <1>5, <1>6 DEF ValueKind, FitsValue
  <2>3. v.json = "number" => (InBounds(q, v) <=> v.parts \in 0..Unit)
    BY <1>6 DEF InBounds
  <2>4. Fitting(q, mode, v) <=> IsNumberIn(v)
    BY <1>6, <2>1 DEF Fitting
  <2> HIDE DEF s
  <2>5. QED
    BY <2>2, <2>3, <2>4 DEF IsNumberIn, s
<1>7. CASE mode = "discrete" /\ q.kind = "noul"
  <2>1. ~IsMap(q, mode)
    BY <1>7 DEF IsMap
  <2>2. FitsProperty(s, v) <=> v.json = "boolean"
    BY <1>5, <1>7, <2>1 DEF ValueKind, FitsValue
  <2>3. v.json = "boolean" => InBounds(q, v)
    BY <1>7 DEF InBounds
  <2>4. Fitting(q, mode, v) <=> v.json = "boolean"
    BY <1>7, <2>1 DEF Fitting
  <2> HIDE DEF s
  <2>5. QED
    BY <2>2, <2>3, <2>4 DEF s
<1>8. CASE mode = "discrete" /\ q.kind = "score"
  <2>1. ~IsMap(q, mode)
    BY <1>8 DEF IsMap
  <2>2. FitsProperty(s, v) <=> v.json = "number" /\ v.parts % Unit = 0
    BY <1>5, <1>8, <2>1 DEF ValueKind, FitsValue
  <2>3. v.json = "number" =>
          (InBounds(q, v) <=> v.integer /\ v.parts >= 0 /\ v.parts < Unit * Len(q.outcomes))
    BY <1>8 DEF InBounds
  <2>4. Fitting(q, mode, v) <=>
          v.json = "number" /\ v.integer /\ v.parts \div Unit \in 0..(Len(q.outcomes) - 1)
    BY <1>8, <2>1 DEF Fitting
  <2>5. v.json = "number" => v.parts \in Int /\ (v.integer => v.parts % Unit = 0)
    BY JsonAssumption
  <2>6. Len(q.outcomes) \in Nat
    BY <1>1 DEF Outlined
  <2> DEFINE n == Len(q.outcomes)
             p == v.parts
  <2>7. ASSUME v.json = "number", p % Unit = 0
        PROVE  p \div Unit \in 0..(n - 1) <=> p >= 0 /\ p < Unit * n
    BY <2>5, <2>6, <2>7, LevelIn
  <2> HIDE DEF s, n, p
  <2>8. QED
    BY <2>2, <2>3, <2>4, <2>5, <2>7 DEF s, n, p
<1>9. CASE mode = "discrete" /\ q.kind = "choice"
  <2>1. ~IsMap(q, mode)
    BY <1>9 DEF IsMap
  <2>2. FitsProperty(s, v) <=> v.json = "string" /\ v.text \in ToSet(Labels(q))
    BY <1>5, <1>9, <2>1 DEF ValueKind, FitsValue
  <2>3. v.json = "string" => InBounds(q, v)
    BY <1>9 DEF InBounds
  <2>4. Fitting(q, mode, v) <=> v.json = "string" /\ v.text \in ToSet(Labels(q))
    BY <1>9, <2>1 DEF Fitting
  <2> HIDE DEF s
  <2>5. QED
    BY <2>2, <2>3, <2>4 DEF s
<1>10. QED
  BY <1>1, <1>4, <1>6, <1>7, <1>8, <1>9

-----------------------------------------------------------------------------
(* A whole reply. *)

\* The names of the questions, and the two objects of a reply as they are read.
IdsOf(qs) == [i \in DOMAIN qs |-> qs[i].id]

AnswersRead(qs, mode, v) ==
  Assembled(v, IdsOf(qs), AnswersAt,
            [i \in DOMAIN qs |-> DecodeAnswer(qs[i], mode, Members(v, IdsOf(qs), AnswersAt).value[i])])
RootRead(qs, mode, root) ==
  Assembled(root, <<"answers">>, Reply,
            [i \in 1..1 |-> AnswersRead(qs, mode, Members(root, <<"answers">>, Reply).value[i])])

\* The decoder reads the root and, within it, the answers.
LEMMA DecodeReplyIs ==
  ASSUME NEW qs, NEW mode, NEW root
  PROVE  LET read == RootRead(qs, mode, root) IN
         DecodeReply(qs, mode, root) = IF read.problems = <<>> THEN Good(read.value[1]) ELSE read
<1> DEFINE ids == IdsOf(qs)
           All(v) == AnswersRead(qs, mode, v)
           One(i, v) == DecodeAnswer(qs[i], mode, v)
           names == <<"answers">>
           value == Members(root, names, Reply).value
<1>1. ASSUME NEW v PROVE ReadObject(v, ids, AnswersAt, One) = All(v)
  <2> DEFINE given == Members(v, ids, AnswersAt).value
             reads == [i \in DOMAIN qs |-> DecodeAnswer(qs[i], mode, given[i])]
  <2>1. DOMAIN ids = DOMAIN qs
    BY DEF IdsOf
  <2>2. [i \in DOMAIN ids |-> IF given[i] = None THEN Bad(Missing(AnswersAt, ids[i]))
                               ELSE DecodeAnswer(qs[i], mode, given[i])]
        = [i \in DOMAIN ids |-> IF given[i] = None THEN Bad(Missing(AnswersAt, ids[i])) ELSE reads[i]]
    BY <2>1
  <2>3. QED
    BY <2>2 DEF ReadObject, Assembled, AnswersRead
<1>2. DOMAIN names = 1..1
  OBVIOUS
<1> DEFINE reads == [i \in 1..1 |-> All(value[i])]
<1>3. [i \in DOMAIN names |-> IF value[i] = None THEN Bad(Missing(Reply, names[i]))
                               ELSE ReadObject(value[i], ids, AnswersAt, One)]
      = [i \in DOMAIN names |-> IF value[i] = None THEN Bad(Missing(Reply, names[i])) ELSE reads[i]]
  <2> HIDE DEF All, ids, names, value
  <2>1. \A v : ReadObject(v, ids, AnswersAt, One) = All(v)
    BY <1>1
  <2>2. QED
    BY <1>2, <2>1
<1> DEFINE parts == [i \in DOMAIN names |-> IF value[i] = None THEN Bad(Missing(Reply, names[i]))
                                             ELSE ReadObject(value[i], ids, AnswersAt, One)]
           read == IF root.json # "object" THEN Bad(Problem("WrongType", Reply))
                   ELSE IF ~IsReadable(root) THEN Bad(Problem("NotJson", Reply))
                   ELSE Collect(Members(root, names, Reply).problems, parts)
<1>4. DecodeReply(qs, mode, root) = IF read.problems = <<>> THEN Good(read.value[1]) ELSE read
  BY DEF DecodeReply, ReadObject, IdsOf
<1>5. read = RootRead(qs, mode, root)
  <2>1. RootRead(qs, mode, root) = Assembled(root, names, Reply, reads)
    BY DEF RootRead
  <2> DEFINE others == [i \in DOMAIN names |-> IF value[i] = None THEN Bad(Missing(Reply, names[i])) ELSE reads[i]]
  <2>2. Assembled(root, names, Reply, reads) =
          IF root.json # "object" THEN Bad(Problem("WrongType", Reply))
          ELSE IF ~IsReadable(root) THEN Bad(Problem("NotJson", Reply))
          ELSE Collect(Members(root, names, Reply).problems, others)
    BY DEF Assembled
  <2>3. parts = others
    BY <1>3
  <2> HIDE DEF parts, others, reads
  <2>4. QED
    BY <2>1, <2>2, <2>3
<1> HIDE DEF read
<1>6. QED
  BY <1>4, <1>5

\* What a question's answer is told by.
Naming(id, p) == Ahead(id, p) \/ p = Missing(AnswersAt, id)

\* A question is blamed if a problem names it.
Blamed(d, id) == \E p \in ToSet(d.problems) : Naming(id, p)

\* The answers are read exactly if there is one that fits under the name of each
\* question and no other; a question is blamed exactly if its own is not there.
LEMMA AnswersAreRead ==
  ASSUME NEW qs, AllQuestions(qs), NEW mode \in Modes, NEW v \in Json
  PROVE  LET d == AnswersRead(qs, mode, v)
             Ok(k) == qs[k].id \in NamesOf(v) /\ Fitting(qs[k], mode, LastOf(v.members, qs[k].id))
         IN /\ IsList(d.problems)
            /\ d.problems = <<>> <=>
                 /\ IsReadable(v) /\ NamesOf(v) = {qs[k].id : k \in DOMAIN qs}
                 /\ \A k \in DOMAIN qs : Fitting(qs[k], mode, LastOf(v.members, qs[k].id))
            /\ d.problems = <<>> =>
                 d.value = [k \in DOMAIN qs |-> Meaning(qs[k], mode, LastOf(v.members, qs[k].id))]
            /\ IsReadable(v) =>
                 \A k \in DOMAIN qs :
                   /\ Ok(k) => ~Blamed(d, qs[k].id)
                   /\ ~Ok(k) => Blamed(d, qs[k].id) \/ Problem("NotJson", Reply) \in ToSet(d.problems)
<1> DEFINE ids == IdsOf(qs)
           n == Len(qs)
           given == Members(v, ids, AnswersAt).value
           reads == [i \in DOMAIN qs |-> DecodeAnswer(qs[i], mode, given[i])]
           d == Assembled(v, ids, AnswersAt, reads)
           Fits(k) == Fitting(qs[k], mode, LastOf(v.members, qs[k].id))
           Ok(k) == qs[k].id \in NamesOf(v) /\ Fits(k)
           Means(k) == Meaning(qs[k], mode, LastOf(v.members, qs[k].id))
<1>1. AnswersRead(qs, mode, v) = d
  BY DEF AnswersRead
<1>2. /\ n \in Nat /\ DOMAIN qs = 1..n /\ DOMAIN ids = 1..n
      /\ \A k \in 1..n : ids[k] = qs[k].id /\ Outlined(qs[k])
      /\ \A j, k \in 1..n : qs[j].id = qs[k].id => j = k
  BY DEF AllQuestions, IdsOf
<1>3. ToSet(ids) = {qs[k].id : k \in DOMAIN qs}
  BY <1>2 DEF ToSet
<1>4. ASSUME NEW k \in 1..n, ids[k] \in NamesOf(v), v.json = "object"
      PROVE  /\ IsList(reads[k].problems) /\ Own(qs[k].id, reads[k])
             /\ reads[k].problems = <<>> <=> Fits(k)
             /\ reads[k].problems = <<>> => reads[k].value = Means(k)
  <2> DEFINE w == LastOf(v.members, qs[k].id)
             q == qs[k]
  <2>1. given[k] = w
    BY <1>2, <1>4, HasIs DEF Members
  <2>2. w \in Json
    BY <1>2, <1>4, LastTyped, HasIs
  <2>3. reads[k] = DecodeAnswer(q, mode, w)
    BY <1>2, <2>1
  <2>4. Outlined(q)
    BY <1>2
  <2> HIDE DEF reads, w, q
  <2>5. LET e == DecodeAnswer(q, mode, w) IN
        /\ IsList(e.problems) /\ Own(q.id, e)
        /\ e.problems = <<>> <=> Fitting(q, mode, w)
        /\ e.problems = <<>> => e.value = Meaning(q, mode, w)
    BY <2>2, <2>4, AnswerRead
  <2>6. QED
    BY <2>3, <2>5 DEF w, q
<1> HIDE DEF reads, ids, n
<1>5. ASSUME NamesOf(v) = ToSet(ids), NEW k \in 1..n PROVE ids[k] \in NamesOf(v)
  BY <1>2, <1>5 DEF ToSet
<1>6. IsReadable(v) => v.json = "object"
  BY DEF IsReadable
<1>7. CASE v.json # "object"
  <2>1. d = Bad(Problem("WrongType", AnswersAt))
    BY <1>7 DEF Assembled
  <2>2. IsList(d.problems) /\ d.problems # <<>>
    BY <2>1, BadIs
  <2> HIDE DEF d
  <2>3. QED
    BY <1>1, <1>6, <1>7, <2>2
<1>8. CASE v.json = "object"
  <2>1. \A i \in 1..n : ids[i] \in NamesOf(v) => IsList(reads[i].problems)
    BY <1>4, <1>8
  <2>2. /\ IsList(d.problems)
        /\ d.problems = <<>> <=>
             /\ IsReadable(v) /\ NamesOf(v) = ToSet(ids)
             /\ \A i \in 1..n : reads[i].problems = <<>>
        /\ d.problems = <<>> => d.value = [i \in 1..n |-> reads[i].value]
    BY <1>2, <2>1, AssemblesWhole
  <2>3. ASSUME IsReadable(v)
        PROVE  LET e == Assembled(v, ids, AnswersAt, reads) IN
               /\ IsList(e.problems)
               /\ ToSet(e.problems) =
                    Strange(v, ids, AnswersAt) \cup Wanting(v, ids, AnswersAt) \cup Within(v, ids, reads)
               /\ e.problems = <<>> => e.value = [i \in 1..n |-> reads[i].value]
    BY <1>2, <2>1, <2>3, Assembles
  <2>4. ASSUME IsReadable(v)
        PROVE  ToSet(d.problems) =
                 Strange(v, ids, AnswersAt) \cup Wanting(v, ids, AnswersAt) \cup Within(v, ids, reads)
    BY <2>3, <2>4
  <2> HIDE DEF d
  <2>5. d.problems = <<>> <=>
          /\ IsReadable(v) /\ NamesOf(v) = ToSet(ids) /\ \A k \in 1..n : Fits(k)
    BY <1>4, <1>5, <1>8, <2>2
  <2>6. d.problems = <<>> => d.value = [k \in DOMAIN qs |-> Means(k)]
    BY <1>2, <1>4, <1>5, <1>8, <2>2
  <2>7. ASSUME IsReadable(v), NEW k \in 1..n
        PROVE  /\ Ok(k) => ~Blamed(d, qs[k].id)
               /\ ~Ok(k) => Blamed(d, qs[k].id) \/ Problem("NotJson", Reply) \in ToSet(d.problems)
    <3> DEFINE id == qs[k].id
    <3>1. ASSUME NEW p \in Strange(v, ids, AnswersAt) PROVE ~Naming(id, p)
      <4>1. p = Problem("Unexpected", AnswersAt)
        BY DEF Strange
      <4>2. p.at = AnswersAt /\ p # Missing(AnswersAt, id)
        BY <4>1, ProblemsApart
      <4>3. ~IsPrefix(<<"answers", id>>, AnswersAt)
        BY PlacesApart
      <4>4. QED
        BY <4>2, <4>3 DEF Naming, Ahead
    <3>2. ASSUME NEW p \in Wanting(v, ids, AnswersAt)
          PROVE  Naming(id, p) <=> p = Missing(AnswersAt, id)
      <4>1. p.at = AnswersAt
        BY ProblemsApart DEF Wanting
      <4>2. ~IsPrefix(<<"answers", id>>, AnswersAt)
        BY PlacesApart
      <4>3. QED
        BY <4>1, <4>2 DEF Naming, Ahead
    <3>3. Missing(AnswersAt, id) \in Wanting(v, ids, AnswersAt) <=> id \notin NamesOf(v)
      <4>1. ASSUME NEW j \in 1..n, Missing(AnswersAt, ids[j]) = Missing(AnswersAt, id) PROVE j = k
        <5>1. ids[j] = id
          BY <4>1, ProblemsApart
        <5>2. QED
          BY <1>2, <5>1
      <4>2. QED
        BY <1>2, <4>1 DEF Wanting
    <3>4. ASSUME NEW j \in 1..n, ids[j] \in NamesOf(v), NEW p \in ToSet(reads[j].problems)
          PROVE  /\ p = Problem("NotJson", Reply) \/ Ahead(qs[j].id, p)
                 /\ Naming(id, p) => j = k
      <4>1. p = Problem("NotJson", Reply) \/ Ahead(qs[j].id, p)
        BY <1>4, <1>8, <3>4 DEF Own
      <4>2. ASSUME p = Problem("NotJson", Reply) PROVE ~Naming(id, p)
        <5>1. p.at = Reply /\ p # Missing(AnswersAt, id)
          BY <4>2, ProblemsApart
        <5>2. ~IsPrefix(<<"answers", id>>, Reply)
          BY PlacesApart
        <5>3. QED
          BY <5>1, <5>2 DEF Naming, Ahead
      <4>3. ASSUME Ahead(qs[j].id, p), Naming(id, p) PROVE j = k
        <5>1. p # Missing(AnswersAt, id)
          <6>1. Missing(AnswersAt, id).at = AnswersAt /\ ~IsPrefix(<<"answers", qs[j].id>>, AnswersAt)
            BY ProblemsApart, PlacesApart
          <6>2. QED
            BY <4>3, <6>1 DEF Ahead
        <5>2. IsPrefix(<<"answers", id>>, p.at) /\ IsPrefix(<<"answers", qs[j].id>>, p.at)
          BY <4>3, <5>1 DEF Naming, Ahead
        <5>3. id = qs[j].id
          BY <5>2, OnePrefix
        <5>4. QED
          BY <1>2, <5>3
      <4>4. QED
        BY <4>1, <4>2, <4>3
    <3>5. CASE id \notin NamesOf(v)
      <4>1. Missing(AnswersAt, id) \in ToSet(d.problems)
        BY <2>4, <2>7, <3>3, <3>5
      <4>2. QED
        BY <3>5, <4>1 DEF Blamed, Naming
    <3>6. CASE id \in NamesOf(v)
      <4>1. ids[k] \in NamesOf(v)
        BY <1>2, <3>6
      <4>2. ASSUME Fits(k) PROVE ~Blamed(d, id)
        <5>1. SUFFICES ASSUME NEW p \in ToSet(d.problems), Naming(id, p) PROVE FALSE
          BY DEF Blamed
        <5>2. p \in Within(v, ids, reads)
          BY <2>4, <2>7, <3>1, <3>2, <3>3, <3>6, <5>1
        <5>3. PICK j \in 1..n : ids[j] \in NamesOf(v) /\ p \in ToSet(reads[j].problems)
          BY <1>2, <5>2 DEF Within
        <5>4. j = k
          BY <3>4, <5>1, <5>3
        <5>5. reads[k].problems = <<>>
          BY <1>4, <1>8, <4>1, <4>2
        <5>6. QED
          BY <5>3, <5>4, <5>5, NoneLong
      <4>3. ASSUME ~Fits(k)
            PROVE  Blamed(d, id) \/ Problem("NotJson", Reply) \in ToSet(d.problems)
        <5>1. IsList(reads[k].problems) /\ reads[k].problems # <<>>
          BY <1>4, <1>8, <4>1, <4>3
        <5>2. PICK p \in ToSet(reads[k].problems) : TRUE
          BY <5>1, ListIs DEF IsList
        <5>3. p \in ToSet(d.problems)
          <6>1. p \in Within(v, ids, reads)
            BY <1>2, <4>1, <5>2 DEF Within
          <6>2. QED
            BY <2>4, <2>7, <6>1
        <5>4. p = Problem("NotJson", Reply) \/ Naming(id, p)
          BY <3>4, <4>1, <5>2 DEF Naming
        <5>5. QED
          BY <5>3, <5>4 DEF Blamed
      <4>4. QED
        BY <3>6, <4>2, <4>3
    <3>7. QED
      BY <3>5, <3>6
  <2>8. QED
    BY <1>1, <1>2, <1>3, <2>2, <2>5, <2>6, <2>7
<1>9. QED
  BY <1>7, <1>8

\* A whole reply is read as its answers are, under the one name it may have.
LEMMA ReplyRead ==
  ASSUME NEW qs, AllQuestions(qs), NEW mode \in Modes, NEW root \in Json
  PROVE  LET d == DecodeReply(qs, mode, root)
             w == LastOf(root.members, "answers")
             Fits(k) == Fitting(qs[k], mode, LastOf(w.members, qs[k].id))
         IN /\ IsList(d.problems)
            /\ d.problems = <<>> <=>
                 /\ IsReadable(root) /\ NamesOf(root) = {"answers"}
                 /\ IsReadable(w) /\ NamesOf(w) = {qs[k].id : k \in DOMAIN qs}
                 /\ \A k \in DOMAIN qs : Fits(k)
            /\ d.problems = <<>> =>
                 d.value = [k \in DOMAIN qs |-> Meaning(qs[k], mode, LastOf(w.members, qs[k].id))]
            /\ IsReadable(root) /\ "answers" \notin NamesOf(root) =>
                 Missing(Reply, "answers") \in ToSet(d.problems)
            /\ IsReadable(root) /\ "answers" \in NamesOf(root) /\ IsReadable(w) =>
                 \A k \in DOMAIN qs :
                   /\ qs[k].id \in NamesOf(w) /\ Fits(k) => ~Blamed(d, qs[k].id)
                   /\ ~(qs[k].id \in NamesOf(w) /\ Fits(k)) =>
                        Blamed(d, qs[k].id) \/ Problem("NotJson", Reply) \in ToSet(d.problems)
<1> DEFINE names == <<"answers">>
           w == LastOf(root.members, "answers")
           given == Members(root, names, Reply).value
           reads == [i \in 1..1 |-> AnswersRead(qs, mode, given[i])]
           e == AnswersRead(qs, mode, w)
           read == Assembled(root, names, Reply, reads)
           d == DecodeReply(qs, mode, root)
           Fits(k) == Fitting(qs[k], mode, LastOf(w.members, qs[k].id))
           Ok(k) == qs[k].id \in NamesOf(w) /\ Fits(k)
           Means(k) == Meaning(qs[k], mode, LastOf(w.members, qs[k].id))
<1>1. read = RootRead(qs, mode, root)
  BY DEF RootRead
<1>2. d = IF read.problems = <<>> THEN Good(read.value[1]) ELSE read
  BY <1>1, DecodeReplyIs
<1>3. /\ DOMAIN names = 1..1 /\ names[1] = "answers" /\ ToSet(names) = {"answers"}
  BY DEF ToSet
<1>4. ASSUME "answers" \in NamesOf(root) PROVE reads[1] = e
  BY <1>3, <1>4, HasIs DEF Members
<1>5. ASSUME "answers" \in NamesOf(root), root.json = "object"
      PROVE  /\ IsList(e.problems)
             /\ e.problems = <<>> <=>
                  /\ IsReadable(w) /\ NamesOf(w) = {qs[k].id : k \in DOMAIN qs}
                  /\ \A k \in DOMAIN qs : Fits(k)
             /\ e.problems = <<>> => e.value = [k \in DOMAIN qs |-> Means(k)]
             /\ IsReadable(w) =>
                  \A k \in DOMAIN qs :
                    /\ Ok(k) => ~Blamed(e, qs[k].id)
                    /\ ~Ok(k) => Blamed(e, qs[k].id) \/ Problem("NotJson", Reply) \in ToSet(e.problems)
  <2>1. w \in Json
    BY <1>5, LastTyped, HasIs
  <2> HIDE DEF w
  <2>2. QED
    BY <2>1, AnswersAreRead
<1> HIDE DEF names, reads, e, Fits, Means
<1>6. CASE ~IsReadable(root)
  <2>1. read = Bad(Problem("WrongType", Reply)) \/ read = Bad(Problem("NotJson", Reply))
    BY <1>6 DEF Assembled, IsReadable
  <2>2. IsList(read.problems) /\ read.problems # <<>>
    BY <2>1, BadIs
  <2> HIDE DEF read
  <2>3. d = read
    BY <1>2, <2>2
  <2> HIDE DEF d
  <2>4. QED
    BY <1>6, <2>2, <2>3 DEF Fits, Means, d, w
<1>7. CASE IsReadable(root)
  <2>0. root.json = "object"
    BY <1>7 DEF IsReadable
  <2> DEFINE one == 1
  <2>1. \A i \in 1..one : names[i] \in NamesOf(root) => IsList(reads[i].problems)
    BY <1>3, <1>4, <1>5, <2>0
  <2>A. one \in Nat /\ DOMAIN names = 1..one
    BY <1>3
  <2> HIDE DEF one
  <2>2. LET a == Assembled(root, names, Reply, reads) IN
        /\ IsList(a.problems)
        /\ ToSet(a.problems) =
             Strange(root, names, Reply) \cup Wanting(root, names, Reply) \cup Within(root, names, reads)
        /\ a.problems = <<>> => a.value = [i \in 1..one |-> reads[i].value]
    BY <1>7, <2>1, <2>A, Assembles
  <2>3. LET a == Assembled(root, names, Reply, reads) IN
        /\ IsList(a.problems)
        /\ a.problems = <<>> <=>
             /\ IsReadable(root) /\ NamesOf(root) = ToSet(names)
             /\ \A i \in 1..one : reads[i].problems = <<>>
        /\ a.problems = <<>> => a.value = [i \in 1..one |-> reads[i].value]
    BY <2>1, <2>A, AssemblesWhole
  <2>4. /\ ToSet(read.problems) =
             Strange(root, names, Reply) \cup Wanting(root, names, Reply) \cup Within(root, names, reads)
        /\ IsList(read.problems)
        /\ read.problems = <<>> <=> NamesOf(root) = {"answers"} /\ reads[1].problems = <<>>
        /\ read.problems = <<>> => read.value[1] = reads[1].value
    BY <1>3, <1>7, <2>2, <2>3 DEF one
  <2> HIDE DEF read
  <2>5. read.problems = <<>> <=> NamesOf(root) = {"answers"} /\ e.problems = <<>>
    BY <1>4, <2>4
  <2>6. read.problems = <<>> => read.value[1] = e.value
    BY <1>4, <2>4, <2>5
  <2>7. d.problems = read.problems
    BY <1>2, NoneLong DEF Good
  <2>8. d.problems = <<>> => d.value = e.value
    BY <1>2, <2>6, <2>7 DEF Good
  <2> HIDE DEF d
  <2>9. ASSUME "answers" \notin NamesOf(root) PROVE Missing(Reply, "answers") \in ToSet(d.problems)
    <3>1. Missing(Reply, "answers") \in Wanting(root, names, Reply)
      BY <1>3, <2>9 DEF Wanting
    <3>2. QED
      BY <2>4, <2>7, <3>1
  <2>10. ASSUME "answers" \in NamesOf(root)
         PROVE  ToSet(d.problems) = Strange(root, names, Reply) \cup ToSet(e.problems)
    <3>1. Wanting(root, names, Reply) = {}
      BY <1>3, <2>10 DEF Wanting
    <3>2. Within(root, names, reads) = ToSet(e.problems)
      BY <1>3, <1>4, <2>10 DEF Within
    <3>3. QED
      BY <2>4, <2>7, <3>1, <3>2
  <2>11. ASSUME "answers" \in NamesOf(root), NEW id
         PROVE  Blamed(d, id) <=> Blamed(e, id)
    <3>1. ASSUME NEW p \in Strange(root, names, Reply) PROVE ~Naming(id, p)
      <4>1. p = Problem("Unexpected", Reply)
        BY DEF Strange
      <4>2. p.at = Reply /\ p # Missing(AnswersAt, id)
        BY <4>1, ProblemsApart
      <4>3. ~IsPrefix(<<"answers", id>>, Reply)
        BY PlacesApart
      <4>4. QED
        BY <4>2, <4>3 DEF Naming, Ahead
    <3>2. QED
      BY <2>10, <2>11, <3>1 DEF Blamed
  <2>12. ASSUME "answers" \in NamesOf(root), IsReadable(w), NEW k \in DOMAIN qs
         PROVE  /\ Ok(k) => ~Blamed(d, qs[k].id)
                /\ ~Ok(k) => Blamed(d, qs[k].id) \/ Problem("NotJson", Reply) \in ToSet(d.problems)
    <3>1. Blamed(d, qs[k].id) <=> Blamed(e, qs[k].id)
      BY <2>11, <2>12
    <3>2. ToSet(e.problems) \subseteq ToSet(d.problems)
      BY <2>10, <2>12
    <3>3. QED
      BY <1>5, <2>0, <2>12, <3>1, <3>2
  <2>13. d.problems = <<>> <=>
           /\ NamesOf(root) = {"answers"}
           /\ IsReadable(w) /\ NamesOf(w) = {qs[k].id : k \in DOMAIN qs}
           /\ \A k \in DOMAIN qs : Fits(k)
    <3>1. ASSUME NamesOf(root) = {"answers"}
          PROVE  e.problems = <<>> <=>
                   /\ IsReadable(w) /\ NamesOf(w) = {qs[k].id : k \in DOMAIN qs}
                   /\ \A k \in DOMAIN qs : Fits(k)
      <4>1. "answers" \in NamesOf(root)
        BY <3>1
      <4>2. QED
        BY <1>5, <2>0, <4>1
    <3>2. QED
      BY <2>5, <2>7, <3>1
  <2>14. d.problems = <<>> => d.value = [k \in DOMAIN qs |-> Means(k)]
    <3>1. ASSUME d.problems = <<>> PROVE d.value = [k \in DOMAIN qs |-> Means(k)]
      <4>1. "answers" \in NamesOf(root) /\ e.problems = <<>>
        BY <2>5, <2>7, <3>1
      <4>2. QED
        BY <1>5, <2>0, <2>8, <3>1, <4>1
    <3>2. QED
      BY <3>1
  <2> HIDE DEF w
  <2>15. IsList(d.problems)
    BY <2>4, <2>7
  <2>16. QED
    BY <1>7, <2>9, <2>12, <2>13, <2>14, <2>15 DEF Fits, Means, w, d
<1>8. QED
  BY <1>6, <1>7

-----------------------------------------------------------------------------
(* The text of a reply, as windows of its pieces. *)

\* How a text starts, and when it is one piece.
LEMMA StartsWith ==
  ASSUME NEW S, NEW s \in Seq(S), NEW x, NEW y
  PROVE  /\ IsPrefix(<<x>>, s) <=> Len(s) >= 1 /\ s[1] = x
         /\ IsPrefix(<<x, y>>, s) <=> Len(s) >= 2 /\ s[1] = x /\ s[2] = y
         /\ s = <<x>> <=> Len(s) = 1 /\ s[1] = x
<1> DEFINE T == S \cup {x, y}
           one == <<x>>
           two == <<x, y>>
<1>1. Len(s) \in Nat /\ \A i \in 1..Len(s) : s[i] \in S
  BY LenProperties, ElementOfSeq
<1>2. s \in Seq(T)
  BY SeqMonotonic
<1>3. /\ one \in Seq(T) /\ Len(one) = 1 /\ one[1] = x
      /\ two \in Seq(T) /\ Len(two) = 2 /\ two[1] = x /\ two[2] = y
  OBVIOUS
<1> HIDE DEF T, one, two
<1>4. ASSUME NEW t \in Seq(T), NEW n \in Nat, n <= Len(t)
      PROVE  /\ SubSeq(t, 1, n) \in Seq(T) /\ Len(SubSeq(t, 1, n)) = n
             /\ \A i \in 1..n : SubSeq(t, 1, n)[i] = t[i]
  <2>1. Len(t) \in Nat /\ \A i \in 1..n : t[i] \in T
    BY <1>4, LenProperties, ElementOfSeq
  <2> DEFINE u == SubSeq(t, 1, n)
  <2>2. u \in Seq(T) /\ Len(u) = (IF 1 <= n THEN n - 1 + 1 ELSE 0)
        /\ \A i \in 1..(n - 1 + 1) : u[i] = t[1 + i - 1]
    BY <2>1, SubSeqProperties
  <2> HIDE DEF u
  <2>3. n - 1 + 1 = n /\ \A i \in 1..n : 1 + i - 1 = i
    OBVIOUS
  <2>4. QED
    BY <2>2, <2>3 DEF u
<1>5. ASSUME NEW t \in Seq(T), Len(t) <= Len(s)
      PROVE  IsPrefix(t, s) <=> \A i \in 1..Len(t) : t[i] = s[i]
  <2> DEFINE n == Len(t)
             u == SubSeq(t, 1, n)
             w == SubSeq(s, 1, n)
  <2>1. n \in Nat
    BY LenProperties
  <2>2. /\ u \in Seq(T) /\ Len(u) = n /\ \A i \in 1..n : u[i] = t[i]
        /\ w \in Seq(T) /\ Len(w) = n /\ \A i \in 1..n : w[i] = s[i]
    BY <1>2, <1>4, <1>5, <2>1
  <2>3. IsPrefix(t, s) <=> u = w
    BY <1>5 DEF IsPrefix
  <2> HIDE DEF u, w
  <2>4. u = w <=> \A i \in 1..n : u[i] = w[i]
    BY <2>2, SeqEqual
  <2>5. QED
    BY <2>2, <2>3, <2>4
<1>6. \A i \in 1..2 : i = 1 \/ i = 2
  OBVIOUS
<1>7. IsPrefix(one, s) <=> Len(s) >= 1 /\ s[1] = x
  <2>1. IsPrefix(one, s) => Len(s) >= 1
    BY <1>1, <1>3 DEF IsPrefix
  <2>2. ASSUME Len(s) >= 1 PROVE IsPrefix(one, s) <=> s[1] = x
    <3>1. IsPrefix(one, s) <=> \A i \in 1..1 : one[i] = s[i]
      BY <1>1, <1>3, <1>5, <2>2
    <3>2. QED
      BY <1>3, <3>1
  <2>3. QED
    BY <2>1, <2>2
<1>8. IsPrefix(two, s) <=> Len(s) >= 2 /\ s[1] = x /\ s[2] = y
  <2>1. IsPrefix(two, s) => Len(s) >= 2
    BY <1>1, <1>3 DEF IsPrefix
  <2>2. ASSUME Len(s) >= 2 PROVE IsPrefix(two, s) <=> s[1] = x /\ s[2] = y
    <3>1. IsPrefix(two, s) <=> \A i \in 1..2 : two[i] = s[i]
      BY <1>1, <1>3, <1>5, <2>2
    <3>2. QED
      BY <1>3, <1>6, <3>1
  <2>3. QED
    BY <2>1, <2>2
<1>9. s = one <=> Len(s) = 1 /\ s[1] = x
  <2>1. ASSUME Len(s) = 1, s[1] = x PROVE s = one
    BY <1>2, <1>3, <2>1, SeqEqual
  <2>2. QED
    BY <1>3, <2>1
<1>10. QED
  BY <1>7, <1>8, <1>9 DEF one, two

\* What a text ends with.
LEMMA EndsWith ==
  ASSUME NEW S, NEW s \in Seq(S), NEW x
  PROVE  IsSuffix(<<x>>, s) <=> Len(s) >= 1 /\ s[Len(s)] = x
<1> DEFINE n == Len(s)
           r == [i \in 1..n |-> s[n - i + 1]]
<1>1. n \in Nat /\ \A i \in 1..n : s[i] \in S
  BY LenProperties, ElementOfSeq
<1>2. \A i \in 1..n : n - i + 1 \in 1..n
  BY <1>1
<1>3. r \in [1..n -> S]
  BY <1>1, <1>2
<1>4. r \in Seq(S)
  BY <1>1, <1>3, Sequences
<1>5. Len(r) = n
  BY <1>1, <1>3, <1>4, LenProperties
<1>6. Reverse(<<x>>) = <<x>>
  BY DEF Reverse
<1>7. IsSuffix(<<x>>, s) <=> IsPrefix(<<x>>, r)
  BY <1>6 DEF IsSuffix, Reverse
<1>8. n >= 1 => r[1] = s[n]
  BY <1>1
<1> HIDE DEF r
<1>9. IsPrefix(<<x>>, r) <=> Len(r) >= 1 /\ r[1] = x
  BY <1>4, StartsWith
<1>10. QED
  BY <1>5, <1>7, <1>8, <1>9

\* The places of a text that are not white space.
Solid(pieces) == {i \in DOMAIN pieces : pieces[i] # "space"}

\* A part of a text is a text, whose pieces are those of the part.
LEMMA Window ==
  ASSUME NEW p \in Seq(Pieces), NEW a \in Nat \ {0}, NEW b \in 0..Len(p)
  PROVE  /\ SubSeq(p, a, b) \in Seq(Pieces)
         /\ Len(SubSeq(p, a, b)) = IF a <= b THEN b - a + 1 ELSE 0
         /\ \A i \in 1..(b - a + 1) : SubSeq(p, a, b)[i] = p[a + i - 1]
         /\ a <= b => SubSeq(p, a, b)[1] = p[a] /\ SubSeq(p, a, b)[b - a + 1] = p[b]
         /\ a < b => SubSeq(p, a, b)[2] = p[a + 1]
<1>1. Len(p) \in Nat /\ \A i \in 1..Len(p) : p[i] \in Pieces
  BY LenProperties, ElementOfSeq
<1>2. \A i \in a..b : p[i] \in Pieces
  BY <1>1
<1> DEFINE w == SubSeq(p, a, b)
<1>3. w \in Seq(Pieces) /\ Len(w) = (IF a <= b THEN b - a + 1 ELSE 0)
      /\ \A i \in 1..(b - a + 1) : w[i] = p[a + i - 1]
  BY <1>1, <1>2, SubSeqProperties
<1> HIDE DEF w
<1>4. a <= b => w[1] = p[a] /\ w[b - a + 1] = p[b]
  <2>1. ASSUME a <= b
        PROVE  1 \in 1..(b - a + 1) /\ b - a + 1 \in 1..(b - a + 1) /\ a + 1 - 1 = a
        /\ a + (b - a + 1) - 1 = b
    BY <1>1, <2>1
  <2>2. QED
    BY <1>3, <2>1
<1>5. a < b => w[2] = p[a + 1]
  <2>1. ASSUME a < b PROVE 2 \in 1..(b - a + 1) /\ a + 2 - 1 = a + 1
    BY <1>1, <2>1
  <2>2. QED
    BY <1>3, <2>1
<1>6. QED
  BY <1>3, <1>4, <1>5 DEF w

\* A window of a window is one.
LEMMA WindowOf ==
  ASSUME NEW p \in Seq(Pieces), NEW a \in Nat \ {0}, NEW b \in 0..Len(p), a <= b,
         NEW m \in Nat \ {0}, NEW n \in 0..(b - a + 1)
  PROVE  SubSeq(SubSeq(p, a, b), m, n) = SubSeq(p, a + m - 1, a + n - 1)
<1> DEFINE w == SubSeq(p, a, b)
           u == SubSeq(w, m, n)
           t == SubSeq(p, a + m - 1, a + n - 1)
<1>0. Len(p) \in Nat
  BY LenProperties
<1>1. w \in Seq(Pieces) /\ Len(w) = b - a + 1 /\ \A i \in 1..(b - a + 1) : w[i] = p[a + i - 1]
  BY Window
<1>2. a + m - 1 \in Nat \ {0} /\ a + n - 1 \in 0..Len(p) /\ n \in 0..(b - a + 1)
  BY <1>0
<1> HIDE DEF w
<1>3. n \in 0..Len(w)
  BY <1>1
<1>4. /\ u \in Seq(Pieces) /\ Len(u) = (IF m <= n THEN n - m + 1 ELSE 0)
      /\ \A i \in 1..(n - m + 1) : u[i] = w[m + i - 1]
  BY <1>1, <1>3, Window
<1> DEFINE c == a + m - 1
           d == a + n - 1
<1>5. c \in Nat \ {0} /\ d \in 0..Len(p) /\ d - c = n - m
  BY <1>0, <1>2
<1>6. t = SubSeq(p, c, d)
  OBVIOUS
<1> HIDE DEF u, t, c, d
<1>7. /\ t \in Seq(Pieces) /\ Len(t) = (IF c <= d THEN d - c + 1 ELSE 0)
      /\ \A i \in 1..(d - c + 1) : t[i] = p[c + i - 1]
  BY <1>5, <1>6, Window
<1>8. Len(u) = Len(t)
  BY <1>4, <1>5, <1>7
<1>9. ASSUME NEW i \in 1..Len(u) PROVE u[i] = t[i]
  <2>0. i \in 1..(n - m + 1) /\ i \in Nat /\ n - m + 1 \in Int
    BY <1>4
  <2>1. i \in 1..(d - c + 1)
    BY <1>5, <2>0
  <2>2. m + i - 1 \in 1..(b - a + 1)
    BY <1>0, <1>2, <2>0
  <2>3. a + (m + i - 1) - 1 = c + i - 1
    BY <2>0 DEF c
  <2>4. QED
    BY <1>1, <1>4, <1>7, <2>0, <2>1, <2>2, <2>3
<1>10. u = t
  BY <1>4, <1>7, <1>8, <1>9, SeqEqual
<1>11. QED
  BY <1>10 DEF u, t, w

\* What trimming leaves of a window: from its first solid piece to its last.
LEMMA Trims ==
  ASSUME NEW p \in Seq(Pieces), NEW a \in Nat \ {0}, NEW b \in 0..Len(p)
  PROVE  /\ (\A i \in Solid(p) : ~(a <= i /\ i <= b)) => Trim(SubSeq(p, a, b)) = <<>>
         /\ \A lo, hi \in Solid(p) :
              a <= lo /\ lo <= hi /\ hi <= b
              /\ (\A i \in Solid(p) : a <= i /\ i <= b => lo <= i /\ i <= hi) =>
                Trim(SubSeq(p, a, b)) = SubSeq(p, lo, hi)
<1> DEFINE w == SubSeq(p, a, b)
           kept == {i \in DOMAIN w : w[i] # "space"}
<1>0. Len(p) \in Nat /\ DOMAIN p = 1..Len(p)
  BY LenProperties
<1>1. /\ w \in Seq(Pieces) /\ Len(w) = (IF a <= b THEN b - a + 1 ELSE 0)
      /\ \A i \in 1..(b - a + 1) : w[i] = p[a + i - 1]
  BY Window
<1>2. DOMAIN w = 1..Len(w)
  BY <1>1, LenProperties
<1> HIDE DEF w
<1>3. \A i \in 1..Len(w) : i \in 1..(b - a + 1) /\ a + i - 1 \in 1..Len(p)
  BY <1>0, <1>1
<1>4. \A i \in 1..Len(w) : i \in kept <=> a + i - 1 \in Solid(p)
  BY <1>0, <1>1, <1>2, <1>3 DEF Solid
<1>5. \A i \in kept : i \in 1..Len(w)
  BY <1>2
<1> HIDE DEF kept
<1>6. Trim(w) = IF kept = {} THEN <<>> ELSE SubSeq(w, Min(kept), Max(kept))
  BY DEF Trim, kept
<1>7. ASSUME \A i \in Solid(p) : ~(a <= i /\ i <= b) PROVE Trim(w) = <<>>
  <2>1. ASSUME NEW i \in kept PROVE FALSE
    <3>1. i \in 1..(b - a + 1) /\ a + i - 1 \in Solid(p)
      BY <1>3, <1>4, <1>5
    <3>2. QED
      BY <1>7, <3>1
  <2>2. QED
    BY <1>6, <2>1
<1>8. ASSUME NEW lo \in Solid(p), NEW hi \in Solid(p), a <= lo, lo <= hi, hi <= b,
             \A i \in Solid(p) : a <= i /\ i <= b => lo <= i /\ i <= hi
      PROVE  Trim(w) = SubSeq(p, lo, hi)
  <2> DEFINE first == lo - a + 1
             last == hi - a + 1
  <2>0. lo \in 1..Len(p) /\ hi \in 1..Len(p)
    BY <1>0 DEF Solid
  <2>1. lo <= hi /\ a <= b /\ a <= hi /\ lo <= b
    BY <1>0, <1>8, <2>0
  <2>2. Len(w) = b - a + 1 /\ first \in 1..Len(w) /\ last \in 1..Len(w) /\ a + first - 1 = lo
        /\ a + last - 1 = hi
    BY <1>0, <1>1, <1>8, <2>0, <2>1
  <2>3. first \in kept /\ last \in kept
    BY <1>4, <2>2
  <2>4. \A i \in kept : first <= i /\ i <= last
    <3>1. TAKE i \in kept
    <3>2. i \in 1..(b - a + 1) /\ a + i - 1 \in Solid(p)
      BY <1>3, <1>4, <1>5
    <3>3. lo <= a + i - 1 /\ a + i - 1 <= hi
      BY <1>0, <1>8, <3>2
    <3>4. QED
      BY <1>0, <2>0, <3>2, <3>3
  <2>5. \A i \in kept : i \in Int
    BY <1>5
  <2> HIDE DEF first, last
  <2>6. Min(kept) = first /\ Max(kept) = last
    <3>1. Min(kept) \in kept /\ \A y \in kept : Min(kept) <= y
      BY <2>3, <2>4 DEF Min
    <3>2. Max(kept) \in kept /\ \A y \in kept : Max(kept) >= y
      <4>1. \A y \in kept : last >= y
        BY <2>3, <2>4, <2>5
      <4>2. QED
        BY <2>3, <4>1 DEF Max
    <3>3. QED
      BY <2>3, <2>4, <2>5, <3>1, <3>2
  <2>7. Trim(w) = SubSeq(w, first, last)
    BY <1>6, <2>3, <2>6
  <2>8. SubSeq(w, first, last) = SubSeq(p, a + first - 1, a + last - 1)
    <3>1. first \in Nat \ {0} /\ last \in 0..(b - a + 1)
      BY <2>2
    <3>2. QED
      BY <2>1, <3>1, WindowOf DEF w
  <2>9. QED
    BY <2>2, <2>7, <2>8
<1>9. QED
  BY <1>7, <1>8 DEF w

\* Nothing has neither a start nor an end.
LEMMA NothingThere == ASSUME NEW x PROVE ~IsPrefix(<<x>>, <<>>) /\ ~IsSuffix(<<x>>, <<>>)
<1> DEFINE none == <<>>
<1>1. none \in Seq({x}) /\ Len(none) = 0
  OBVIOUS
<1> HIDE DEF none
<1>2. IsPrefix(<<x>>, none) <=> Len(none) >= 1 /\ none[1] = x
  BY <1>1, StartsWith
<1>3. IsSuffix(<<x>>, none) <=> Len(none) >= 1 /\ none[Len(none)] = x
  BY <1>1, EndsWith
<1>4. QED
  BY <1>1, <1>2, <1>3 DEF none

\* A text that holds something has a first and a last place that does.
LEMMA SolidEnds ==
  ASSUME NEW p \in Seq(Pieces), NEW a \in Nat, NEW b \in Nat, \E i \in Solid(p) : a <= i /\ i <= b
  PROVE  \E lo, hi \in Solid(p) :
           a <= lo /\ lo <= hi /\ hi <= b /\ \A i \in Solid(p) : a <= i /\ i <= b => lo <= i /\ i <= hi
<1> DEFINE within == {i \in Solid(p) : a <= i /\ i <= b}
<1>1. Len(p) \in Nat /\ \A i \in Solid(p) : i \in 1..Len(p)
  BY LenProperties DEF Solid
<1>2. within \in SUBSET Nat /\ within \in SUBSET (0..Len(p)) /\ within # {}
  BY <1>1
<1>3. PICK lo \in within : \A i \in within : lo <= i
  BY <1>2, Least
<1>4. PICK hi \in within : \A i \in within : i <= hi
  BY <1>1, <1>2, Greatest
<1>5. QED
  BY <1>3, <1>4

\* What is after the opening fence is one value, and a fence at most.
Inner(p, start, hi) ==
  \E v \in Solid(p) :
    /\ p[v] = "value" /\ start <= v /\ v <= hi
    /\ \/ \A i \in Solid(p) : start <= i /\ i <= hi => i = v
       \/ /\ p[hi] = "fence" /\ v < hi
          /\ \A i \in Solid(p) : start <= i /\ i <= hi => i = v \/ i = hi

\* What is left of a text without its fence.
LEMMA Unfenced ==
  ASSUME NEW p \in Seq(Pieces), NEW start \in Nat \ {0}, NEW hi \in Solid(p)
  PROVE  LET body == Trim(SubSeq(p, start, hi)) IN
         (IF IsSuffix(<<"fence">>, body) THEN Trim(Front(body)) ELSE body) = <<"value">>
           <=> Inner(p, start, hi)
<1> DEFINE body == Trim(SubSeq(p, start, hi))
           out == IF IsSuffix(<<"fence">>, body) THEN Trim(Front(body)) ELSE body
<1>0. Len(p) \in Nat /\ DOMAIN p = 1..Len(p) /\ \A i \in Solid(p) : i \in 1..Len(p)
  BY LenProperties DEF Solid
<1>1. hi \in 0..Len(p) /\ hi \in Nat
  BY <1>0
<1>2. <<>> \in Seq(Pieces) /\ Len(<<>>) = 0 /\ <<>> # <<"value">>
  OBVIOUS
<1>3. CASE \A i \in Solid(p) : ~(start <= i /\ i <= hi)
  <2>1. body = <<>>
    BY <1>1, <1>3, Trims
  <2>2. ~IsSuffix(<<"fence">>, <<>>)
    BY NothingThere
  <2> HIDE DEF body
  <2>3. out # <<"value">>
    BY <1>2, <2>1, <2>2
  <2>4. ~Inner(p, start, hi)
    BY <1>3 DEF Inner
  <2>5. QED
    BY <2>3, <2>4 DEF body
<1>4. CASE \E i \in Solid(p) : start <= i /\ i <= hi
  <2>1. PICK lo, end \in Solid(p) :
          /\ start <= lo /\ lo <= end /\ end <= hi
          /\ \A i \in Solid(p) : start <= i /\ i <= hi => lo <= i /\ i <= end
    BY <1>1, <1>4, SolidEnds
  <2>2. end = hi /\ lo \in 1..Len(p) /\ lo <= hi
    BY <1>0, <1>1, <2>1
  <2>3. body = SubSeq(p, lo, hi)
    BY <1>1, <2>1, <2>2, Trims
  <2> DEFINE whole == SubSeq(p, lo, hi)
  <2>4. /\ whole \in Seq(Pieces) /\ Len(whole) = hi - lo + 1
        /\ whole[1] = p[lo] /\ whole[hi - lo + 1] = p[hi]
    BY <1>1, <2>2, Window
  <2>5. Len(whole) \in Nat /\ Len(whole) >= 1
    BY <1>1, <2>2, <2>4
  <2> HIDE DEF body, whole
  <2>6. IsSuffix(<<"fence">>, whole) <=> p[hi] = "fence"
    BY <2>4, <2>5, EndsWith
  <2>7. whole = <<"value">> <=> lo = hi /\ p[lo] = "value"
    <3>1. whole = <<"value">> <=> Len(whole) = 1 /\ whole[1] = "value"
      BY <2>4, StartsWith
    <3>2. QED
      BY <1>1, <2>2, <2>4, <3>1
  <2>8. CASE p[hi] # "fence"
    <3>1. out = whole
      BY <2>3, <2>6, <2>8 DEF whole
    <3>2. ASSUME lo = hi, p[lo] = "value" PROVE Inner(p, start, hi)
      BY <2>1, <2>2, <3>2, <1>0 DEF Inner
    <3>3. ASSUME Inner(p, start, hi) PROVE lo = hi /\ p[lo] = "value"
      BY <2>1, <2>2, <2>8, <3>3, <1>0 DEF Inner
    <3>4. QED
      BY <2>7, <3>1, <3>2, <3>3 DEF body
  <2>9. CASE p[hi] = "fence"
    <3> DEFINE front == SubSeq(p, lo, hi - 1)
    <3>1. out = Trim(front)
      <4>1. out = Trim(Front(whole))
        BY <2>3, <2>6, <2>9 DEF whole
      <4>2. Front(whole) = SubSeq(whole, 1, hi - lo)
        <5>1. Len(whole) - 1 = hi - lo
          BY <1>1, <2>2, <2>4
        <5>2. QED
          BY <5>1 DEF Front
      <4>3. SubSeq(whole, 1, hi - lo) = SubSeq(p, lo + 1 - 1, lo + (hi - lo) - 1)
        <5>1. lo \in Nat \ {0} /\ 1 \in Nat \ {0} /\ hi - lo \in 0..(hi - lo + 1)
          BY <1>1, <2>2
        <5>2. QED
          BY <1>1, <2>2, <5>1, WindowOf DEF whole
      <4>4. lo + 1 - 1 = lo /\ lo + (hi - lo) - 1 = hi - 1
        BY <1>1, <2>2
      <4>5. QED
        BY <4>1, <4>2, <4>3, <4>4
    <3>2. hi - 1 \in 0..Len(p) /\ lo \in Nat \ {0}
      BY <1>0, <1>1, <2>2
    <3>3. CASE lo = hi
      <4>1. Trim(front) = <<>>
        <5>1. \A i \in Solid(p) : ~(lo <= i /\ i <= hi - 1)
          BY <1>0, <3>3
        <5>2. QED
          BY <3>2, <5>1, Trims
      <4>2. ~Inner(p, start, hi)
        BY <1>0, <2>1, <2>2, <2>9, <3>3 DEF Inner
      <4> HIDE DEF out, front
      <4>3. QED
        BY <1>2, <3>1, <4>1, <4>2 DEF out, body
    <3>4. CASE lo # hi
      <4>1. lo <= hi - 1
        BY <1>1, <2>2, <3>4
      <4>2. PICK first, last \in Solid(p) :
              /\ lo <= first /\ first <= last /\ last <= hi - 1
              /\ \A i \in Solid(p) : lo <= i /\ i <= hi - 1 => first <= i /\ i <= last
        <5> DEFINE top == hi - 1
        <5>1. lo \in Nat /\ top \in Nat /\ lo \in Solid(p) /\ lo <= top /\ lo <= lo
          BY <1>0, <1>1, <2>1, <2>2, <4>1
        <5> HIDE DEF top
        <5>2. \E i \in Solid(p) : lo <= i /\ i <= top
          BY <5>1
        <5>3. \E f, g \in Solid(p) :
                lo <= f /\ f <= g /\ g <= top /\ \A i \in Solid(p) : lo <= i /\ i <= top => f <= i /\ i <= g
          BY <5>1, <5>2, SolidEnds
        <5>4. QED
          BY <5>3 DEF top
      <4>3. first = lo /\ last \in 1..Len(p)
        BY <1>0, <2>1, <4>1, <4>2
      <4>4. Trim(front) = SubSeq(p, lo, last)
        <5> DEFINE top == hi - 1
        <5>1. top \in 0..Len(p) /\ lo \in Solid(p) /\ last \in Solid(p) /\ lo <= lo
              /\ lo <= last /\ last <= top
          BY <2>1, <2>2, <3>2, <4>2, <4>3
        <5>2. \A i \in Solid(p) : lo <= i /\ i <= top => lo <= i /\ i <= last
          BY <4>2, <4>3
        <5> HIDE DEF top
        <5>3. Trim(SubSeq(p, lo, top)) = SubSeq(p, lo, last)
          BY <3>2, <5>1, <5>2, Trims
        <5>4. QED
          BY <5>3 DEF top
      <4> DEFINE rest == SubSeq(p, lo, last)
      <4>5. rest \in Seq(Pieces) /\ Len(rest) = last - lo + 1 /\ rest[1] = p[lo]
        <5>1. last \in 0..Len(p) /\ lo <= last
          BY <1>0, <4>2, <4>3
        <5>2. QED
          BY <3>2, <5>1, Window
      <4> HIDE DEF rest, out, front
      <4>6. rest = <<"value">> <=> Len(rest) = 1 /\ rest[1] = "value"
        BY <4>5, StartsWith
      <4>7. rest = <<"value">> <=> lo = last /\ p[lo] = "value"
        BY <1>0, <2>2, <4>3, <4>5, <4>6
      <4>8. ASSUME lo = last, p[lo] = "value" PROVE Inner(p, start, hi)
        <5>1. \A i \in Solid(p) : start <= i /\ i <= hi => i = lo \/ i = hi
          <6>1. TAKE i \in Solid(p)
          <6>2. HAVE start <= i /\ i <= hi
          <6>3. lo <= i /\ (i = hi \/ i <= hi - 1)
            BY <1>0, <1>1, <2>1, <6>2
          <6>4. QED
            BY <1>0, <4>2, <4>3, <4>8, <6>3
        <5>2. QED
          BY <1>0, <2>1, <2>9, <3>4, <2>2, <4>8, <5>1 DEF Inner
      <4>9. ASSUME Inner(p, start, hi) PROVE lo = last /\ p[lo] = "value"
        <5>1. PICK v \in Solid(p) :
                /\ p[v] = "value" /\ start <= v /\ v <= hi
                /\ \A i \in Solid(p) : start <= i /\ i <= hi => i = v \/ i = hi
          BY <4>9 DEF Inner
        <5>2. lo = v
          BY <1>0, <2>1, <2>2, <3>4, <5>1
        <5>3. last = v
          BY <1>0, <1>1, <2>1, <4>2, <4>3, <5>1
        <5>4. QED
          BY <5>1, <5>2, <5>3
      <4>10. QED
        BY <3>1, <4>4, <4>7, <4>8, <4>9 DEF rest, out, body
    <3>5. QED
      BY <3>3, <3>4
  <2>10. QED
    BY <2>8, <2>9
<1>5. QED
  BY <1>3, <1>4

\* One value in its white space, in a fence at most.
Wrapped(p) ==
  \E v \in Solid(p) :
    /\ p[v] = "value"
    /\ \/ Solid(p) = {v}
       \/ \E f \in Solid(p) :
            /\ p[f] = "fence" /\ f < v
            /\ \/ Solid(p) = {f, v}
               \/ f + 1 < v /\ p[f + 1] = "json" /\ Solid(p) = {f, f + 1, v}
               \/ \E e \in Solid(p) :
                    /\ v < e /\ p[e] = "fence"
                    /\ \/ Solid(p) = {f, v, e}
                       \/ f + 1 < v /\ p[f + 1] = "json" /\ Solid(p) = {f, f + 1, v, e}

\* The text that is extracted is the value alone exactly if it is wrapped so.
LEMMA Extracts ==
  ASSUME NEW p \in Seq(Pieces) PROVE ExtractJson(p) = <<"value">> <=> Wrapped(p)
<1> DEFINE n == Len(p)
           text == Trim(p)
           tagged == IsPrefix(<<"fence", "json">>, text)
           body == Trim(SubSeq(text, IF tagged THEN 3 ELSE 2, Len(text)))
<1>0. n \in Nat /\ DOMAIN p = 1..n /\ \A i \in Solid(p) : i \in 1..n
  BY LenProperties DEF Solid
<1>1. p = SubSeq(p, 1, n)
  BY SubSeqFull
<1>2. ExtractJson(p) = IF ~IsPrefix(<<"fence">>, text) THEN text
                       ELSE IF IsSuffix(<<"fence">>, body) THEN Trim(Front(body)) ELSE body
  BY DEF ExtractJson
<1>3. CASE Solid(p) = {}
  <2>1. Trim(p) = <<>>
    BY <1>3 DEF Trim, Solid
  <2>2. <<>> \in Seq(Pieces) /\ Len(<<>>) = 0 /\ <<>> # <<"value">>
    OBVIOUS
  <2>3. ~IsPrefix(<<"fence">>, <<>>)
    BY NothingThere
  <2>4. ExtractJson(p) = <<>>
    BY <1>2, <2>1, <2>3
  <2>5. QED
    BY <1>3, <2>2, <2>4 DEF Wrapped
<1>4. CASE Solid(p) # {}
  <2>1. PICK lo, hi \in Solid(p) :
          1 <= lo /\ lo <= hi /\ hi <= n /\ \A i \in Solid(p) : 1 <= i /\ i <= n => lo <= i /\ i <= hi
    <3>1. \E i \in Solid(p) : 1 <= i /\ i <= n
      BY <1>0, <1>4
    <3>2. QED
      BY <1>0, <3>1, SolidEnds
  <2>2. /\ lo \in Nat \ {0} /\ hi \in 0..n /\ hi \in Nat
        /\ \A i \in Solid(p) : i \in 1..n /\ lo <= i /\ i <= hi
    BY <1>0, <2>1
  <2>3. text = SubSeq(p, lo, hi)
    <3>1. n \in 0..Len(p) /\ 1 \in Nat \ {0}
      BY <1>0
    <3>2. Trim(SubSeq(p, 1, n)) = SubSeq(p, lo, hi)
      BY <2>1, <3>1, Trims
    <3>3. QED
      BY <1>1, <3>2
  <2>4. /\ text \in Seq(Pieces) /\ Len(text) = hi - lo + 1 /\ text[1] = p[lo]
        /\ lo < hi => text[2] = p[lo + 1]
    BY <2>1, <2>2, <2>3, Window
  <2> DEFINE Solids(S) == Solid(p) = S
             tag == lo < hi /\ p[lo + 1] = "json"
             start == IF tag THEN lo + 2 ELSE lo + 1
  <2>5. /\ IsPrefix(<<"fence">>, text) <=> p[lo] = "fence"
        /\ tagged <=> p[lo] = "fence" /\ tag
        /\ text = <<"value">> <=> lo = hi /\ p[lo] = "value"
    <3>1. /\ IsPrefix(<<"fence">>, text) <=> Len(text) >= 1 /\ text[1] = "fence"
          /\ IsPrefix(<<"fence", "json">>, text) <=> Len(text) >= 2 /\ text[1] = "fence" /\ text[2] = "json"
          /\ text = <<"value">> <=> Len(text) = 1 /\ text[1] = "value"
      BY <2>4, StartsWith
    <3> HIDE DEF text
    <3>2. QED
      BY <2>1, <2>2, <2>4, <3>1
  <2>6. tag => lo + 1 \in Solid(p)
    BY <1>0, <2>1, <2>2 DEF Solid
  <2>7. CASE p[lo] # "fence"
    <3>1. ExtractJson(p) = text
      BY <1>2, <2>5, <2>7
    <3> HIDE DEF text
    <3>2. ASSUME lo = hi, p[lo] = "value" PROVE Wrapped(p)
      <4>1. \A i \in Solid(p) : i = lo
        BY <1>0, <2>1, <2>2, <3>2
      <4>2. Solid(p) = {lo}
        BY <2>1, <4>1
      <4>3. QED
        BY <3>2, <4>2 DEF Wrapped
    <3>3. ASSUME Wrapped(p) PROVE lo = hi /\ p[lo] = "value"
      <4>1. PICK v \in Solid(p) :
              p[v] = "value"
              /\ (Solid(p) = {v} \/ \E f \in Solid(p) : p[f] = "fence" /\ \A i \in Solid(p) : f <= i)
        <5>1. PICK v \in Solid(p) :
                /\ p[v] = "value"
                /\ \/ Solid(p) = {v}
                   \/ \E f \in Solid(p) :
                        /\ p[f] = "fence" /\ f < v
                        /\ \/ Solid(p) = {f, v}
                           \/ f + 1 < v /\ Solid(p) = {f, f + 1, v}
                           \/ \E e \in Solid(p) :
                                v < e /\ (Solid(p) = {f, v, e} \/ Solid(p) = {f, f + 1, v, e})
          BY <3>3 DEF Wrapped
        <5>2. ASSUME NEW f \in Solid(p), f < v,
                     \/ Solid(p) = {f, v}
                     \/ f + 1 < v /\ Solid(p) = {f, f + 1, v}
                     \/ \E e \in Solid(p) :
                          v < e /\ (Solid(p) = {f, v, e} \/ Solid(p) = {f, f + 1, v, e})
              PROVE  \A i \in Solid(p) : f <= i
          BY <2>2, <5>2
        <5>3. QED
          BY <5>1, <5>2
      <4>2. Solid(p) = {v}
        BY <2>1, <2>2, <2>7, <4>1
      <4>3. QED
        BY <2>1, <4>1, <4>2
    <3>4. QED
      BY <2>5, <3>1, <3>2, <3>3
  <2>8. CASE p[lo] = "fence"
    <3>1. body = Trim(SubSeq(p, start, hi))
      <4> DEFINE m == IF tagged THEN 3 ELSE 2
      <4>1. SubSeq(SubSeq(p, lo, hi), m, hi - lo + 1) = SubSeq(p, lo + m - 1, lo + (hi - lo + 1) - 1)
        <5>1. m \in Nat \ {0} /\ hi - lo + 1 \in 0..(hi - lo + 1)
          BY <2>1, <2>2
        <5> HIDE DEF m
        <5>2. QED
          BY <2>1, <2>2, <5>1, WindowOf
      <4>2. lo + m - 1 = start /\ lo + (hi - lo + 1) - 1 = hi
        <5>1. tagged <=> tag
          BY <2>5, <2>8
        <5> HIDE DEF tag, tagged
        <5>2. QED
          BY <2>2, <5>1
      <4>3. SubSeq(text, m, Len(text)) = SubSeq(SubSeq(p, lo, hi), m, hi - lo + 1)
        BY <2>3, <2>4
      <4> HIDE DEF text, start, m
      <4>4. SubSeq(text, m, Len(text)) = SubSeq(p, start, hi)
        BY <4>1, <4>2, <4>3
      <4>5. QED
        BY <4>4 DEF m
    <3>2. start \in Nat \ {0} /\ lo < start
      BY <2>2
    <3>3. LET b == Trim(SubSeq(p, start, hi)) IN
          (IF IsSuffix(<<"fence">>, b) THEN Trim(Front(b)) ELSE b) = <<"value">> <=> Inner(p, start, hi)
      <4> HIDE DEF start
      <4>1. QED
        BY <3>2, Unfenced
    <3>4. ExtractJson(p) = <<"value">> <=> Inner(p, start, hi)
      <4> HIDE DEF body, start
      <4>1. QED
        BY <1>2, <2>5, <2>8, <3>1, <3>3
    <3>5. \A i \in Solid(p) : i = lo \/ (tag /\ i = lo + 1) \/ start <= i
      BY <2>2
    <3>6. ASSUME Inner(p, start, hi) PROVE Wrapped(p)
      <4>1. PICK v \in Solid(p) :
              /\ p[v] = "value" /\ start <= v /\ v <= hi
              /\ \/ \A i \in Solid(p) : start <= i /\ i <= hi => i = v
                 \/ /\ p[hi] = "fence" /\ v < hi
                    /\ \A i \in Solid(p) : start <= i /\ i <= hi => i = v \/ i = hi
        BY <3>6 DEF Inner
      <4>2. lo < v /\ v \in 1..n /\ lo \in 1..n /\ hi \in 1..n
        BY <2>2, <3>2, <4>1
      <4>3. CASE \A i \in Solid(p) : start <= i /\ i <= hi => i = v
        <5>1. ASSUME ~tag PROVE Solid(p) = {lo, v}
          BY <2>2, <3>5, <4>3, <5>1
        <5>2. ASSUME tag PROVE lo + 1 < v /\ Solid(p) = {lo, lo + 1, v}
          <6>1. start = lo + 2 /\ lo + 1 \in Solid(p)
            BY <2>6, <5>2
          <6>2. lo + 1 < v
            BY <2>2, <4>1, <4>2, <6>1
          <6>3. \A i \in Solid(p) : i = lo \/ i = lo + 1 \/ i = v
            BY <2>2, <3>5, <4>3
          <6>4. QED
            BY <6>1, <6>2, <6>3
        <5> HIDE DEF start
        <5>3. QED
          BY <2>8, <4>1, <4>2, <5>1, <5>2 DEF Wrapped
      <4>4. CASE /\ p[hi] = "fence" /\ v < hi
                 /\ \A i \in Solid(p) : start <= i /\ i <= hi => i = v \/ i = hi
        <5>1. ASSUME ~tag PROVE Solid(p) = {lo, v, hi}
          BY <2>2, <3>5, <4>4, <5>1
        <5>2. ASSUME tag PROVE lo + 1 < v /\ Solid(p) = {lo, lo + 1, v, hi}
          <6>1. start = lo + 2 /\ lo + 1 \in Solid(p)
            BY <2>6, <5>2
          <6>2. lo + 1 < v
            BY <2>2, <4>1, <4>2, <6>1
          <6>3. \A i \in Solid(p) : i = lo \/ i = lo + 1 \/ i = v \/ i = hi
            BY <2>2, <3>5, <4>4
          <6>4. QED
            BY <6>1, <6>2, <6>3
        <5> HIDE DEF start
        <5>3. QED
          BY <2>8, <4>1, <4>2, <4>4, <5>1, <5>2 DEF Wrapped
      <4>5. QED
        BY <4>1, <4>3, <4>4
    <3>7. ASSUME Wrapped(p) PROVE Inner(p, start, hi)
      <4>1. PICK v \in Solid(p) :
              /\ p[v] = "value"
              /\ \/ Solid(p) = {v}
                 \/ \E f \in Solid(p) :
                      /\ p[f] = "fence" /\ f < v
                      /\ \/ Solid(p) = {f, v}
                         \/ f + 1 < v /\ p[f + 1] = "json" /\ Solid(p) = {f, f + 1, v}
                         \/ \E e \in Solid(p) :
                              /\ v < e /\ p[e] = "fence"
                              /\ \/ Solid(p) = {f, v, e}
                                 \/ f + 1 < v /\ p[f + 1] = "json" /\ Solid(p) = {f, f + 1, v, e}
        BY <3>7 DEF Wrapped
      <4>2. Solid(p) # {v}
        BY <2>8, <4>1
      <4>3. PICK f \in Solid(p) :
              /\ p[f] = "fence" /\ f < v
              /\ \/ Solid(p) = {f, v}
                 \/ f + 1 < v /\ p[f + 1] = "json" /\ Solid(p) = {f, f + 1, v}
                 \/ \E e \in Solid(p) :
                      /\ v < e /\ p[e] = "fence"
                      /\ \/ Solid(p) = {f, v, e}
                         \/ f + 1 < v /\ p[f + 1] = "json" /\ Solid(p) = {f, f + 1, v, e}
        BY <4>1, <4>2
      <4>4. f = lo
        BY <2>1, <2>2, <4>3
      <4>5. CASE Solid(p) = {f, v}
        <5>1. hi = v /\ ~tag
          BY <2>1, <2>2, <2>6, <4>1, <4>3, <4>4, <4>5
        <5>2. start <= v
          BY <2>2, <4>3, <4>4, <5>1
        <5>3. QED
          BY <2>2, <4>1, <4>4, <4>5, <5>1, <5>2, <3>2 DEF Inner
      <4>6. CASE f + 1 < v /\ p[f + 1] = "json" /\ Solid(p) = {f, f + 1, v}
        <5>1. hi = v /\ tag
          BY <2>1, <2>2, <4>1, <4>3, <4>4, <4>6
        <5>2. start = lo + 2 /\ start <= v
          BY <2>2, <4>4, <4>6, <5>1
        <5>3. QED
          BY <2>2, <4>1, <4>4, <4>6, <5>1, <5>2, <3>2 DEF Inner
      <4>7. ASSUME NEW e \in Solid(p), v < e, p[e] = "fence", Solid(p) = {f, v, e}
            PROVE  Inner(p, start, hi)
        <5>1. hi = e
          BY <2>1, <2>2, <4>3, <4>4, <4>7
        <5>2. ~tag
          BY <2>2, <2>6, <4>1, <4>3, <4>4, <4>7
        <5>3. start <= v
          BY <2>2, <4>3, <4>4, <5>2
        <5>4. QED
          BY <2>2, <4>1, <4>4, <4>7, <5>1, <5>3, <3>2 DEF Inner
      <4>8. ASSUME NEW e \in Solid(p), v < e, p[e] = "fence",
                   f + 1 < v, p[f + 1] = "json", Solid(p) = {f, f + 1, v, e}
            PROVE  Inner(p, start, hi)
        <5>1. hi = e /\ tag
          BY <2>1, <2>2, <4>3, <4>4, <4>8
        <5>2. start = lo + 2 /\ start <= v
          BY <2>2, <4>4, <4>8, <5>1
        <5>3. QED
          BY <2>2, <4>1, <4>4, <4>8, <5>1, <5>2, <3>2 DEF Inner
      <4>9. QED
        BY <4>3, <4>5, <4>6, <4>7, <4>8
    <3>8. QED
      BY <3>4, <3>6, <3>7
  <2>9. QED
    BY <2>7, <2>8
<1>5. QED
  BY <1>3, <1>4

\* What four pieces at most are sifted to, and what they were if so.
LEMMA Spells ==
  ASSUME NEW p \in Seq(Pieces)
  PROVE  LET out == Sift(p, Solid(p)) IN
         /\ out \in Seq(Pieces)
         /\ \A v \in Solid(p) : Solid(p) = {v} => Len(out) = 1 /\ out[1] = p[v]
         /\ \A f, v \in Solid(p) :
              f < v /\ Solid(p) = {f, v} => Len(out) = 2 /\ out[1] = p[f] /\ out[2] = p[v]
         /\ \A f, v, e \in Solid(p) :
              f < v /\ v < e /\ Solid(p) = {f, v, e} =>
                Len(out) = 3 /\ out[1] = p[f] /\ out[2] = p[v] /\ out[3] = p[e]
         /\ \A f, j, v, e \in Solid(p) :
              f < j /\ j < v /\ v < e /\ Solid(p) = {f, j, v, e} =>
                Len(out) = 4 /\ out[1] = p[f] /\ out[2] = p[j] /\ out[3] = p[v] /\ out[4] = p[e]
         /\ Len(out) = 1 => \E v \in Solid(p) : Solid(p) = {v} /\ out[1] = p[v]
         /\ Len(out) = 2 =>
              \E f, v \in Solid(p) : f < v /\ Solid(p) = {f, v} /\ out[1] = p[f] /\ out[2] = p[v]
         /\ Len(out) = 3 =>
              \E f, v, e \in Solid(p) :
                /\ f < v /\ v < e /\ Solid(p) = {f, v, e}
                /\ out[1] = p[f] /\ out[2] = p[v] /\ out[3] = p[e]
         /\ Len(out) = 4 =>
              \E f, j, v, e \in Solid(p) :
                /\ f < j /\ j < v /\ v < e /\ Solid(p) = {f, j, v, e}
                /\ out[1] = p[f] /\ out[2] = p[j] /\ out[3] = p[v] /\ out[4] = p[e]
<1> DEFINE K == Solid(p)
           out == Sift(p, K)
           n == Len(out)
<1>1. K \subseteq DOMAIN p /\ \A i \in K : i \in Nat
  BY LenProperties DEF Solid
<1>2. out \in Seq(Pieces) /\ Sifted(p, K, out)
  BY <1>1, Sifts
<1>3. n \in Nat /\ DOMAIN out = 1..n
  BY <1>2, LenProperties
<1> HIDE DEF K, out, n
<1>4. PICK at \in [1..n -> K] :
        /\ \A k \in 1..n : out[k] = p[at[k]]
        /\ \A j, k \in 1..n : j < k => at[j] < at[k]
        /\ \A i \in K : \E k \in 1..n : at[k] = i
  <2>1. PICK at \in [DOMAIN out -> K] :
          /\ \A k \in DOMAIN out : out[k] = p[at[k]]
          /\ \A j, k \in DOMAIN out : j < k => at[j] < at[k]
          /\ \A i \in K : \E k \in DOMAIN out : at[k] = i
    BY <1>2 DEF Sifted
  <2>2. QED
    BY <1>3, <2>1
<1>5. ASSUME NEW j \in 1..n, NEW k \in 1..n PROVE at[j] < at[k] <=> j < k
  <2>1. at[j] \in K /\ at[k] \in K
    BY <1>4
  <2>2. at[j] \in Nat /\ at[k] \in Nat
    BY <1>1, <2>1
  <2>3. j < k \/ j = k \/ k < j
    BY <1>3
  <2>4. QED
    BY <1>3, <1>4, <2>2, <2>3
<1>6. ASSUME NEW j \in 1..n, NEW k \in 1..n, at[j] = at[k] PROVE j = k
  <2>1. ~(at[j] < at[k]) /\ ~(at[k] < at[j])
    BY <1>1, <1>4, <1>6
  <2>2. QED
    BY <1>3, <1>5, <2>1
<1>7. ASSUME NEW v \in K, K = {v} PROVE n = 1 /\ out[1] = p[v]
  <2>1. PICK a \in 1..n : at[a] = v
    BY <1>4
  <2>2. \A k \in 1..n : k = a
    BY <1>4, <1>6, <1>7, <2>1
  <2>3. 1 \in 1..n /\ n \in 1..n
    BY <1>3
  <2>4. QED
    BY <1>4, <2>1, <2>2, <2>3
<1>8. ASSUME NEW f \in K, NEW v \in K, f < v, K = {f, v}
      PROVE  n = 2 /\ out[1] = p[f] /\ out[2] = p[v]
  <2>1. PICK a, b \in 1..n : at[a] = f /\ at[b] = v
    BY <1>4
  <2>2. a < b
    BY <1>5, <1>8, <2>1
  <2>3. \A k \in 1..n : k = a \/ k = b
    <3>1. TAKE k \in 1..n
    <3>2. at[k] = f \/ at[k] = v
      BY <1>4, <1>8
    <3>3. QED
      BY <1>6, <2>1, <3>2
  <2>4. 1 \in 1..n /\ 2 \in 1..n /\ n \in 1..n
    BY <1>3, <2>2
  <2>5. a = 1 /\ b = 2 /\ n = 2
    <3>1. (1 = a \/ 1 = b) /\ (2 = a \/ 2 = b) /\ (n = a \/ n = b)
      BY <2>3, <2>4
    <3>2. a \in Nat /\ 1 <= a /\ a <= n /\ b \in Nat /\ 1 <= b /\ b <= n
      BY <1>3
    <3>3. QED
      BY <1>3, <2>2, <3>1, <3>2
  <2>6. QED
    BY <1>4, <2>1, <2>5
<1>9. ASSUME NEW f \in K, NEW v \in K, NEW e \in K, f < v, v < e, K = {f, v, e}
      PROVE  n = 3 /\ out[1] = p[f] /\ out[2] = p[v] /\ out[3] = p[e]
  <2>1. PICK a, b, c \in 1..n : at[a] = f /\ at[b] = v /\ at[c] = e
    BY <1>4
  <2>2. a < b /\ b < c
    BY <1>5, <1>9, <2>1
  <2>3. \A k \in 1..n : k = a \/ k = b \/ k = c
    <3>1. TAKE k \in 1..n
    <3>2. at[k] = f \/ at[k] = v \/ at[k] = e
      BY <1>4, <1>9
    <3>3. QED
      BY <1>6, <2>1, <3>2
  <2>4. 1 \in 1..n /\ 2 \in 1..n /\ 3 \in 1..n /\ n \in 1..n
    BY <1>3, <2>2
  <2>5. a = 1 /\ b = 2 /\ c = 3 /\ n = 3
    <3>1. (1 = a \/ 1 = b \/ 1 = c) /\ (2 = a \/ 2 = b \/ 2 = c) /\ (3 = a \/ 3 = b \/ 3 = c)
          /\ (n = a \/ n = b \/ n = c)
      BY <2>3, <2>4
    <3>2. a \in Nat /\ 1 <= a /\ a <= n /\ b \in Nat /\ 1 <= b /\ b <= n /\ c \in Nat /\ 1 <= c /\ c <= n
      BY <1>3
    <3>3. QED
      BY <1>3, <2>2, <3>1, <3>2
  <2>6. QED
    BY <1>4, <2>1, <2>5
<1>10. ASSUME NEW f \in K, NEW j \in K, NEW v \in K, NEW e \in K, f < j, j < v, v < e, K = {f, j, v, e}
       PROVE  n = 4 /\ out[1] = p[f] /\ out[2] = p[j] /\ out[3] = p[v] /\ out[4] = p[e]
  <2>1. PICK a, b, c, d \in 1..n : at[a] = f /\ at[b] = j /\ at[c] = v /\ at[d] = e
    BY <1>4
  <2>2. a < b /\ b < c /\ c < d
    BY <1>5, <1>10, <2>1
  <2>3. \A k \in 1..n : k = a \/ k = b \/ k = c \/ k = d
    <3>1. TAKE k \in 1..n
    <3>2. at[k] = f \/ at[k] = j \/ at[k] = v \/ at[k] = e
      BY <1>4, <1>10
    <3>3. QED
      BY <1>6, <2>1, <3>2
  <2>4. 1 \in 1..n /\ 2 \in 1..n /\ 3 \in 1..n /\ 4 \in 1..n /\ n \in 1..n
    BY <1>3, <2>2
  <2>5. a = 1 /\ b = 2 /\ c = 3 /\ d = 4 /\ n = 4
    <3>1. (1 = a \/ 1 = b \/ 1 = c \/ 1 = d) /\ (2 = a \/ 2 = b \/ 2 = c \/ 2 = d)
          /\ (3 = a \/ 3 = b \/ 3 = c \/ 3 = d) /\ (4 = a \/ 4 = b \/ 4 = c \/ 4 = d) /\ (n = a \/ n = b \/ n = c \/ n = d)
      BY <2>3, <2>4
    <3>2. a \in Nat /\ 1 <= a /\ a <= n /\ b \in Nat /\ 1 <= b /\ b <= n /\ c \in Nat /\ 1 <= c
          /\ c <= n /\ d \in Nat /\ 1 <= d /\ d <= n
      BY <1>3
    <3>3. QED
      BY <1>3, <2>2, <3>1, <3>2
  <2>6. QED
    BY <1>4, <2>1, <2>5
<1>11. ASSUME n = 1 PROVE \E v \in K : K = {v} /\ out[1] = p[v]
  <2>1. \A k \in 1..n : k = 1
    BY <1>11
  <2>2. 1 \in 1..n
    BY <1>11
  <2>3. K = {at[1]} /\ at[1] \in K
    BY <1>4, <2>1, <2>2
  <2>4. QED
    BY <1>4, <2>2, <2>3
<1>12. ASSUME n = 2
       PROVE  \E f, v \in K : f < v /\ K = {f, v} /\ out[1] = p[f] /\ out[2] = p[v]
  <2>1. \A k \in 1..n : k = 1 \/ k = 2
    BY <1>12
  <2>2. 1 \in 1..n /\ 2 \in 1..n
    BY <1>12
  <2>3. K = {at[1], at[2]} /\ at[1] \in K /\ at[2] \in K
    BY <1>4, <2>1, <2>2
  <2>4. at[1] < at[2]
    BY <1>4, <2>2
  <2>5. QED
    BY <1>4, <2>2, <2>3, <2>4
<1>13. ASSUME n = 3
       PROVE  \E f, v, e \in K :
                /\ f < v /\ v < e /\ K = {f, v, e}
                /\ out[1] = p[f] /\ out[2] = p[v] /\ out[3] = p[e]
  <2>1. \A k \in 1..n : k = 1 \/ k = 2 \/ k = 3
    BY <1>13
  <2>2. 1 \in 1..n /\ 2 \in 1..n /\ 3 \in 1..n
    BY <1>13
  <2>3. K = {at[1], at[2], at[3]} /\ at[1] \in K /\ at[2] \in K /\ at[3] \in K
    BY <1>4, <2>1, <2>2
  <2>4. at[1] < at[2] /\ at[2] < at[3]
    BY <1>4, <2>2
  <2>5. QED
    BY <1>4, <2>2, <2>3, <2>4
<1>14. ASSUME n = 4
       PROVE  \E f, j, v, e \in K :
                /\ f < j /\ j < v /\ v < e /\ K = {f, j, v, e}
                /\ out[1] = p[f] /\ out[2] = p[j] /\ out[3] = p[v] /\ out[4] = p[e]
  <2>1. \A k \in 1..n : k = 1 \/ k = 2 \/ k = 3 \/ k = 4
    BY <1>14
  <2>2. 1 \in 1..n /\ 2 \in 1..n /\ 3 \in 1..n /\ 4 \in 1..n
    BY <1>14
  <2>3. K = {at[1], at[2], at[3], at[4]} /\ at[1] \in K /\ at[2] \in K /\ at[3] \in K /\ at[4] \in K
    BY <1>4, <2>1, <2>2
  <2>4. at[1] < at[2] /\ at[2] < at[3] /\ at[3] < at[4]
    BY <1>4, <2>2
  <2>5. QED
    BY <1>4, <2>2, <2>3, <2>4
<1>15. /\ out \in Seq(Pieces)
       /\ \A v \in K : K = {v} => n = 1 /\ out[1] = p[v]
       /\ \A f, v \in K : f < v /\ K = {f, v} => n = 2 /\ out[1] = p[f] /\ out[2] = p[v]
  BY <1>2, <1>7, <1>8
<1>16. /\ \A f, v, e \in K :
            f < v /\ v < e /\ K = {f, v, e} => n = 3 /\ out[1] = p[f] /\ out[2] = p[v] /\ out[3] = p[e]
       /\ \A f, j, v, e \in K :
            f < j /\ j < v /\ v < e /\ K = {f, j, v, e} =>
              n = 4 /\ out[1] = p[f] /\ out[2] = p[j] /\ out[3] = p[v] /\ out[4] = p[e]
  BY <1>9, <1>10
<1>17. QED
  BY <1>11, <1>12, <1>13, <1>14, <1>15, <1>16, Zenon DEF K, out, n

\* Two texts of the same pieces are one.
LEMMA SameText ==
  ASSUME NEW s \in Seq(Pieces), NEW a, NEW b, NEW c, NEW d
  PROVE  /\ s = <<a>> <=> Len(s) = 1 /\ s[1] = a
         /\ s = <<a, b>> <=> Len(s) = 2 /\ s[1] = a /\ s[2] = b
         /\ s = <<a, b, c>> <=> Len(s) = 3 /\ s[1] = a /\ s[2] = b /\ s[3] = c
         /\ s = <<a, b, c, d>> <=> Len(s) = 4 /\ s[1] = a /\ s[2] = b /\ s[3] = c /\ s[4] = d
<1> DEFINE T == Pieces \cup {a, b, c, d}
           one == <<a>>
           two == <<a, b>>
           three == <<a, b, c>>
           four == <<a, b, c, d>>
<1>1. s \in Seq(T)
  BY SeqMonotonic
<1>2. /\ one \in Seq(T) /\ Len(one) = 1 /\ one[1] = a
      /\ two \in Seq(T) /\ Len(two) = 2 /\ two[1] = a /\ two[2] = b
      /\ three \in Seq(T) /\ Len(three) = 3 /\ three[1] = a /\ three[2] = b /\ three[3] = c
      /\ four \in Seq(T) /\ Len(four) = 4 /\ four[1] = a /\ four[2] = b /\ four[3] = c /\ four[4] = d
  OBVIOUS
<1> HIDE DEF T, one, two, three, four
<1>3. \A i \in 1..4 : i = 1 \/ i = 2 \/ i = 3 \/ i = 4
  OBVIOUS
<1>4. s = one <=> Len(s) = 1 /\ s[1] = a
  <2>1. ASSUME Len(s) = 1, s[1] = a PROVE s = one
    <3>1. \A i \in 1..Len(s) : s[i] = one[i]
      BY <1>2, <2>1
    <3>2. QED
      BY <1>1, <1>2, <2>1, <3>1, SeqEqual
  <2>2. QED
    BY <1>2, <2>1
<1>5. s = two <=> Len(s) = 2 /\ s[1] = a /\ s[2] = b
  <2>1. ASSUME Len(s) = 2, s[1] = a, s[2] = b PROVE s = two
    <3>1. \A i \in 1..Len(s) : s[i] = two[i]
      BY <1>2, <1>3, <2>1
    <3>2. QED
      BY <1>1, <1>2, <2>1, <3>1, SeqEqual
  <2>2. QED
    BY <1>2, <2>1
<1>6. s = three <=> Len(s) = 3 /\ s[1] = a /\ s[2] = b /\ s[3] = c
  <2>1. ASSUME Len(s) = 3, s[1] = a, s[2] = b, s[3] = c PROVE s = three
    <3>1. \A i \in 1..Len(s) : s[i] = three[i]
      BY <1>2, <1>3, <2>1
    <3>2. QED
      BY <1>1, <1>2, <2>1, <3>1, SeqEqual
  <2>2. QED
    BY <1>2, <2>1
<1>7. s = four <=> Len(s) = 4 /\ s[1] = a /\ s[2] = b /\ s[3] = c /\ s[4] = d
  <2>1. ASSUME Len(s) = 4, s[1] = a, s[2] = b, s[3] = c, s[4] = d PROVE s = four
    <3>1. \A i \in 1..Len(s) : s[i] = four[i]
      BY <1>2, <1>3, <2>1
    <3>2. QED
      BY <1>1, <1>2, <2>1, <3>1, SeqEqual
  <2>2. QED
    BY <1>2, <2>1
<1>8. QED
  BY <1>4, <1>5, <1>6, <1>7 DEF one, two, three, four

\* The text a reader takes for one value is a value in its white space and fence.
LEMMA Wholes ==
  ASSUME NEW p \in Seq(Pieces) PROVE IsWhole(p) <=> Wrapped(p)
<1> DEFINE K == Solid(p)
           out == Sift(p, K)
           Tagged == \A i \in DOMAIN p : p[i] = "json" => p[i - 1] = "fence"
<1>0. Len(p) \in Nat /\ DOMAIN p = 1..Len(p)
  BY LenProperties
<1>1. \A i : i \in K <=> i \in 1..Len(p) /\ p[i] # "space"
  BY <1>0 DEF Solid
<1>2. IsWhole(p) <=>
        /\ out \in {<<"value">>, <<"fence", "value">>, <<"fence", "json", "value">>,
                    <<"fence", "value", "fence">>, <<"fence", "json", "value", "fence">>}
        /\ Tagged
  BY DEF IsWhole, Solid
<1>3. /\ out \in Seq(Pieces)
      /\ \A v \in K : K = {v} => Len(out) = 1 /\ out[1] = p[v]
      /\ \A f, v \in K :
           f < v /\ K = {f, v} => Len(out) = 2 /\ out[1] = p[f] /\ out[2] = p[v]
      /\ \A f, v, e \in K :
           f < v /\ v < e /\ K = {f, v, e} =>
             Len(out) = 3 /\ out[1] = p[f] /\ out[2] = p[v] /\ out[3] = p[e]
      /\ \A f, j, v, e \in K :
           f < j /\ j < v /\ v < e /\ K = {f, j, v, e} =>
             Len(out) = 4 /\ out[1] = p[f] /\ out[2] = p[j] /\ out[3] = p[v] /\ out[4] = p[e]
      /\ Len(out) = 1 => \E v \in K : K = {v} /\ out[1] = p[v]
      /\ Len(out) = 2 =>
           \E f, v \in K : f < v /\ K = {f, v} /\ out[1] = p[f] /\ out[2] = p[v]
      /\ Len(out) = 3 =>
           \E f, v, e \in K :
             /\ f < v /\ v < e /\ K = {f, v, e}
             /\ out[1] = p[f] /\ out[2] = p[v] /\ out[3] = p[e]
      /\ Len(out) = 4 =>
           \E f, j, v, e \in K :
             /\ f < j /\ j < v /\ v < e /\ K = {f, j, v, e}
             /\ out[1] = p[f] /\ out[2] = p[j] /\ out[3] = p[v] /\ out[4] = p[e]
  BY Spells
<1>4. Wrapped(p) <=>
        \E v \in K :
          /\ p[v] = "value"
          /\ \/ K = {v}
             \/ \E f \in K :
                  /\ p[f] = "fence" /\ f < v
                  /\ \/ K = {f, v}
                     \/ f + 1 < v /\ p[f + 1] = "json" /\ K = {f, f + 1, v}
                     \/ \E e \in K :
                          /\ v < e /\ p[e] = "fence"
                          /\ \/ K = {f, v, e}
                             \/ f + 1 < v /\ p[f + 1] = "json" /\ K = {f, f + 1, v, e}
  BY DEF Wrapped
<1> HIDE DEF K, out
<1>5. \A i \in K : i \in 1..Len(p) /\ i \in Nat
  BY <1>0, <1>1
<1>6. \A i \in 1..Len(p) : p[i] = "json" => i \in K
  BY <1>1
<1>7. /\ out = <<"value">> <=> Len(out) = 1 /\ out[1] = "value"
      /\ out = <<"fence", "value">> <=> Len(out) = 2 /\ out[1] = "fence" /\ out[2] = "value"
      /\ out = <<"fence", "json", "value">> <=>
           Len(out) = 3 /\ out[1] = "fence" /\ out[2] = "json" /\ out[3] = "value"
      /\ out = <<"fence", "value", "fence">> <=>
           Len(out) = 3 /\ out[1] = "fence" /\ out[2] = "value" /\ out[3] = "fence"
      /\ out = <<"fence", "json", "value", "fence">> <=>
           Len(out) = 4 /\ out[1] = "fence" /\ out[2] = "json" /\ out[3] = "value" /\ out[4] = "fence"
  BY <1>3, SameText
\* A tag comes right after its fence.
<1>8. ASSUME Tagged, NEW f \in K, NEW j \in K, f < j, p[j] = "json", \A i \in K : i = f \/ i >= j
      PROVE  j = f + 1
  <2>1. p[j - 1] = "fence" /\ j - 1 \in 1..Len(p)
    BY <1>0, <1>5, <1>8
  <2>2. j - 1 \in K
    BY <1>1, <2>1
  <2>3. QED
    BY <1>5, <1>8, <2>2
<1>9. ASSUME IsWhole(p) PROVE Wrapped(p)
  <2>0. Tagged
    BY <1>2, <1>9
  <2> HIDE DEF Tagged
  <2>1. CASE out = <<"value">>
    BY <1>3, <1>4, <1>7, <2>1
  <2>2. CASE out = <<"fence", "value">>
    <3>1. PICK f, v \in K : f < v /\ K = {f, v} /\ p[f] = "fence" /\ p[v] = "value"
      BY <1>3, <1>7, <2>2
    <3>2. QED
      BY <1>4, <3>1
  <2>3. CASE out = <<"fence", "json", "value">>
    <3>1. PICK f, j, v \in K :
            f < j /\ j < v /\ K = {f, j, v} /\ p[f] = "fence" /\ p[j] = "json" /\ p[v] = "value"
      BY <1>3, <1>7, <2>3
    <3>2. j = f + 1
      BY <1>5, <1>8, <2>0, <3>1
    <3>3. QED
      BY <1>4, <3>1, <3>2
  <2>4. CASE out = <<"fence", "value", "fence">>
    <3>1. PICK f, v, e \in K :
            f < v /\ v < e /\ K = {f, v, e} /\ p[f] = "fence" /\ p[v] = "value" /\ p[e] = "fence"
      BY <1>3, <1>7, <2>4
    <3>2. QED
      BY <1>4, <3>1
  <2>5. CASE out = <<"fence", "json", "value", "fence">>
    <3>1. PICK f, j, v, e \in K :
            /\ f < j /\ j < v /\ v < e /\ K = {f, j, v, e}
            /\ p[f] = "fence" /\ p[j] = "json" /\ p[v] = "value" /\ p[e] = "fence"
      BY <1>3, <1>7, <2>5
    <3>2. j = f + 1
      BY <1>5, <1>8, <2>0, <3>1
    <3>3. QED
      BY <1>4, <3>1, <3>2
  <2>6. QED
    BY <1>2, <1>9, <2>1, <2>2, <2>3, <2>4, <2>5
<1>10. ASSUME Wrapped(p) PROVE IsWhole(p)
  <2>1. PICK v \in K :
          /\ p[v] = "value"
          /\ \/ K = {v}
             \/ \E f \in K :
                  /\ p[f] = "fence" /\ f < v
                  /\ \/ K = {f, v}
                     \/ f + 1 < v /\ p[f + 1] = "json" /\ K = {f, f + 1, v}
                     \/ \E e \in K :
                          /\ v < e /\ p[e] = "fence"
                          /\ \/ K = {f, v, e}
                             \/ f + 1 < v /\ p[f + 1] = "json" /\ K = {f, f + 1, v, e}
    BY <1>4, <1>10
  <2>2. CASE K = {v}
    <3>1. out = <<"value">>
      BY <1>3, <1>7, <2>1, <2>2
    <3>2. Tagged
      BY <1>0, <1>6, <2>1, <2>2
    <3>3. QED
      BY <1>2, <3>1, <3>2
  <2>3. ASSUME NEW f \in K, p[f] = "fence", f < v, K = {f, v} PROVE IsWhole(p)
    <3>1. out = <<"fence", "value">>
      BY <1>3, <1>7, <2>1, <2>3
    <3>2. Tagged
      BY <1>0, <1>6, <2>1, <2>3
    <3>3. QED
      BY <1>2, <3>1, <3>2
  <2>4. ASSUME NEW f \in K, p[f] = "fence", f < v, f + 1 < v, p[f + 1] = "json", K = {f, f + 1, v}
        PROVE  IsWhole(p)
    <3>0. f + 1 \in K /\ f < f + 1 /\ f + 1 - 1 = f
      BY <1>5, <2>4
    <3>1. out = <<"fence", "json", "value">>
      BY <1>3, <1>7, <2>1, <2>4, <3>0
    <3>2. Tagged
      <4>1. \A i \in 1..Len(p) : p[i] = "json" => i = f + 1
        BY <1>6, <2>1, <2>4
      <4>2. \A i \in 1..Len(p) : p[i] = "json" => i - 1 = f
        BY <1>5, <4>1
      <4>3. QED
        BY <1>0, <2>4, <4>2
    <3>3. QED
      BY <1>2, <3>1, <3>2
  <2>5. ASSUME NEW f \in K, p[f] = "fence", f < v, NEW e \in K, v < e, p[e] = "fence", K = {f, v, e}
        PROVE  IsWhole(p)
    <3>1. out = <<"fence", "value", "fence">>
      BY <1>3, <1>7, <2>1, <2>5
    <3>2. Tagged
      BY <1>0, <1>6, <2>1, <2>5
    <3>3. QED
      BY <1>2, <3>1, <3>2
  <2>6. ASSUME NEW f \in K, p[f] = "fence", f < v, NEW e \in K, v < e, p[e] = "fence",
               f + 1 < v, p[f + 1] = "json", K = {f, f + 1, v, e}
        PROVE  IsWhole(p)
    <3>0. f + 1 \in K /\ f < f + 1 /\ f + 1 - 1 = f
      BY <1>5, <2>6
    <3>1. out = <<"fence", "json", "value", "fence">>
      BY <1>3, <1>7, <2>1, <2>6, <3>0
    <3>2. Tagged
      <4>1. \A i \in 1..Len(p) : p[i] = "json" => i = f + 1
        BY <1>6, <2>1, <2>6
      <4>2. \A i \in 1..Len(p) : p[i] = "json" => i - 1 = f
        BY <1>5, <4>1
      <4>3. QED
        BY <1>0, <2>6, <4>2
    <3>3. QED
      BY <1>2, <3>1, <3>2
  <2>7. QED
    BY <2>1, <2>2, <2>3, <2>4, <2>5, <2>6
<1>11. QED
  BY <1>9, <1>10

\* The text is read before the value is.
LEMMA Decodes ==
  ASSUME NEW qs, NEW mode, NEW reply, reply.pieces \in Seq(Pieces)
  PROVE  LET d == Decode(qs, mode, reply) IN
         /\ IsWhole(reply.pieces) => d = DecodeReply(qs, mode, reply.value)
         /\ ~IsWhole(reply.pieces) => IsList(d.problems) /\ d.problems # <<>>
<1> DEFINE p == reply.pieces
           text == ExtractJson(p)
           d == Decode(qs, mode, reply)
<1>1. IsWhole(p) <=> text = <<"value">>
  BY Extracts, Wholes
<1>2. d = IF ~IsPrefix(<<"value">>, text) THEN Bad(Problem("NotJson", Reply))
          ELSE IF Len(text) > 1 THEN Bad(Problem("TrailingText", Reply))
          ELSE DecodeReply(qs, mode, reply.value)
  BY DEF Decode
<1>3. text \in Seq(Pieces)
  <2>1. ASSUME NEW s \in Seq(Pieces) PROVE Trim(s) \in Seq(Pieces)
    <3>1. Len(s) \in Nat /\ \A i \in Solid(s) : i \in 1..Len(s)
      BY LenProperties DEF Solid
    <3>2. CASE Solid(s) = {}
      <4>1. Trim(s) = <<>> /\ <<>> \in Seq(Pieces)
        BY <3>2 DEF Trim, Solid
      <4>2. QED
        BY <4>1
    <3>3. CASE Solid(s) # {}
      <4>1. \E i \in Solid(s) : 1 <= i /\ i <= Len(s)
        BY <3>1, <3>3
      <4>2. PICK lo, hi \in Solid(s) :
              /\ 1 <= lo /\ lo <= hi /\ hi <= Len(s)
              /\ \A i \in Solid(s) : 1 <= i /\ i <= Len(s) => lo <= i /\ i <= hi
        BY <3>1, <4>1, SolidEnds
      <4>3. Trim(SubSeq(s, 1, Len(s))) = SubSeq(s, lo, hi)
        <5> DEFINE one == 1
                   n == Len(s)
        <5>1. one \in Nat \ {0} /\ n \in 0..Len(s) /\ one <= lo /\ hi <= n
          BY <3>1, <4>2
        <5>2. \A i \in Solid(s) : one <= i /\ i <= n => lo <= i /\ i <= hi
          BY <4>2
        <5> HIDE DEF one, n
        <5>3. Trim(SubSeq(s, one, n)) = SubSeq(s, lo, hi)
          BY <4>2, <5>1, <5>2, Trims
        <5>4. QED
          BY <5>3 DEF one, n
      <4>4. Trim(s) = SubSeq(s, lo, hi)
        BY <4>3, SubSeqFull
      <4>5. SubSeq(s, lo, hi) \in Seq(Pieces)
        <5>1. lo \in Nat \ {0} /\ hi \in 0..Len(s)
          BY <3>1, <4>2
        <5>2. QED
          BY <5>1, Window
      <4>6. QED
        BY <4>4, <4>5
    <3>4. QED
      BY <3>2, <3>3
  <2>2. ASSUME NEW s \in Seq(Pieces), NEW m \in Nat \ {0}, NEW n \in 0..Len(s)
        PROVE  SubSeq(s, m, n) \in Seq(Pieces)
    BY Window
  <2> DEFINE trimmed == Trim(p)
             m == IF IsPrefix(<<"fence", "json">>, trimmed) THEN 3 ELSE 2
             rest == SubSeq(trimmed, m, Len(trimmed))
             body == Trim(rest)
             front == SubSeq(body, 1, Len(body) - 1)
  <2>3. trimmed \in Seq(Pieces)
    BY <2>1
  <2>4. text = IF ~IsPrefix(<<"fence">>, trimmed) THEN trimmed
               ELSE IF IsSuffix(<<"fence">>, body) THEN Trim(front) ELSE body
    BY DEF ExtractJson, Front
  <2>5. m \in Nat \ {0} /\ Len(trimmed) \in 0..Len(trimmed)
    BY <2>3, LenProperties
  <2> HIDE DEF trimmed, m
  <2>6. rest \in Seq(Pieces)
    BY <2>2, <2>3, <2>5
  <2> HIDE DEF rest
  <2>7. body \in Seq(Pieces) /\ Len(body) \in Nat
    BY <2>1, <2>6, LenProperties
  <2> HIDE DEF body
  <2>8. ASSUME IsSuffix(<<"fence">>, body) PROVE front \in Seq(Pieces)
    <3>1. Len(body) >= 1
      BY <2>7, <2>8, EndsWith
    <3> DEFINE n == Len(body) - 1
               one == 1
    <3>2. n \in 0..Len(body) /\ one \in Nat \ {0}
      BY <2>7, <3>1
    <3> HIDE DEF n, one
    <3>3. SubSeq(body, one, n) \in Seq(Pieces)
      BY <2>2, <2>7, <3>2
    <3>4. QED
      BY <3>3 DEF n, one
  <2> HIDE DEF front, text
  <2>9. QED
    BY <2>1, <2>3, <2>4, <2>7, <2>8
<1>4. Len(text) \in Nat
  BY <1>3, LenProperties
<1> HIDE DEF text, p, d
<1>5. /\ IsPrefix(<<"value">>, text) <=> Len(text) >= 1 /\ text[1] = "value"
      /\ text = <<"value">> <=> Len(text) = 1 /\ text[1] = "value"
  BY <1>3, StartsWith
<1>6. CASE text = <<"value">>
  <2>1. IsPrefix(<<"value">>, text) /\ ~(Len(text) > 1)
    BY <1>4, <1>5, <1>6
  <2>2. d = DecodeReply(qs, mode, reply.value)
    BY <1>2, <2>1
  <2>3. QED
    BY <1>1, <1>6, <2>2 DEF p, d
<1>7. CASE text # <<"value">>
  <2>1. ~IsPrefix(<<"value">>, text) \/ Len(text) > 1
    <3>1. SUFFICES ASSUME IsPrefix(<<"value">>, text) PROVE Len(text) > 1
      OBVIOUS
    <3>2. Len(text) >= 1 /\ text[1] = "value"
      BY <1>5, <3>1
    <3>3. Len(text) # 1
      BY <1>5, <1>7, <3>2
    <3>4. \A m \in Nat : m >= 1 /\ m # 1 => m > 1
      OBVIOUS
    <3>5. QED
      BY <1>4, <3>2, <3>3, <3>4
  <2>2. d = Bad(Problem("NotJson", Reply)) \/ d = Bad(Problem("TrailingText", Reply))
    BY <1>2, <2>1
  <2>3. IsList(d.problems) /\ d.problems # <<>>
    BY <2>2, BadIs
  <2>4. QED
    BY <1>1, <1>7, <2>3 DEF p, d
<1>8. QED
  BY <1>6, <1>7

\* A question is answered as asked if the decoder takes its answer.
LEMMA AnswersFit ==
  ASSUME NEW qs, Posed(qs), NEW r \in DOMAIN Replies, NEW k \in DOMAIN qs,
         AnswersOf(r) \in Json, AnswersOf(r).json = "object"
  PROVE  AnswersQuestion(r, qs[k]) <=>
           /\ qs[k].id \in NamesOf(AnswersOf(r))
           /\ Fitting(qs[k], call.mode, LastOf(AnswersOf(r).members, qs[k].id))
<1> DEFINE w == AnswersOf(r)
           q == qs[k]
           x == LastOf(w.members, q.id)
<1>1. AnswersQuestion(r, q) <=>
        /\ Has(w.members, q.id)
        /\ FitsProperty(Schema.defs[AnswersDef].properties[q.id], x)
        /\ InBounds(q, x)
  BY DEF AnswersQuestion
<1>2. ASSUME Has(w.members, q.id)
      PROVE  Fitting(q, call.mode, x) <=>
               /\ FitsProperty(Schema.defs[AnswersDef].properties[q.id], x)
               /\ InBounds(q, x)
  <2>1. x \in Json
    BY <1>2, LastTyped
  <2> HIDE DEF x, w
  <2>2. QED
    BY <2>1, Agrees
<1> HIDE DEF x, w, q
<1>3. Has(w.members, q.id) <=> q.id \in NamesOf(w)
  BY HasIs
<1>4. QED
  BY <1>1, <1>2, <1>3 DEF x, w, q

\* A value fits the schema if its names are those asked for, and each answer fits.
LEMMA SchemaFits ==
  ASSUME NEW qs, Posed(qs), NEW v
  PROVE  LET w == LastOf(v.members, "answers") IN
         FitsSchema(v) <=>
           /\ IsReadable(v) /\ NamesOf(v) = {"answers"}
           /\ IsReadable(w) /\ NamesOf(w) = {qs[k].id : k \in DOMAIN qs}
           /\ \A k \in DOMAIN qs :
                FitsProperty(Schema.defs[AnswersDef].properties[qs[k].id], LastOf(w.members, qs[k].id))
<1> DEFINE w == LastOf(v.members, "answers")
           root == Schema.root
           answers == Schema.defs[AnswersDef]
           ids == {qs[k].id : k \in DOMAIN qs}
<1>1. Schema = WriteSchema(qs, call.mode) /\ AllQuestions(qs)
  BY DEF Posed, Schema
<1>2. LET s == WriteSchema(qs, call.mode) IN
      /\ s.root.required = {"answers"} /\ s.root.properties["answers"] = Reference(AnswersDef)
      /\ s.defs[AnswersDef].required = {qs[k].id : k \in DOMAIN qs}
  BY <1>1, Writes
<1>3. root.required = {"answers"} /\ root.properties["answers"].ref = AnswersDef /\ answers.required = ids
  BY <1>1, <1>2 DEF Reference
<1> HIDE DEF root, answers, w
<1>4. FitsSchema(v) <=>
        /\ IsReadable(v)
        /\ root.required = {v.members[i].name : i \in DOMAIN v.members}
        /\ \A n \in root.required :
             /\ IsReadable(LastOf(v.members, n))
             /\ Schema.defs[root.properties[n].ref].required =
                  {LastOf(v.members, n).members[i].name : i \in DOMAIN LastOf(v.members, n).members}
             /\ \A m \in Schema.defs[root.properties[n].ref].required :
                  FitsProperty(Schema.defs[root.properties[n].ref].properties[m],
                               LastOf(LastOf(v.members, n).members, m))
  BY DEF FitsSchema, FitsObject, root
<1>5. FitsSchema(v) <=>
        /\ IsReadable(v) /\ NamesOf(v) = {"answers"}
        /\ IsReadable(w) /\ NamesOf(w) = ids
        /\ \A m \in ids : FitsProperty(answers.properties[m], LastOf(w.members, m))
  <2>1. \A u : NamesOf(u) = {u.members[i].name : i \in DOMAIN u.members}
    BY DEF NamesOf
  <2>2. Schema.defs[root.properties["answers"].ref] = answers
    BY <1>3 DEF answers
  <2>3. FitsSchema(v) <=>
          /\ IsReadable(v) /\ root.required = NamesOf(v)
          /\ \A n \in root.required :
               /\ IsReadable(LastOf(v.members, n))
               /\ Schema.defs[root.properties[n].ref].required = NamesOf(LastOf(v.members, n))
               /\ \A m \in Schema.defs[root.properties[n].ref].required :
                    FitsProperty(Schema.defs[root.properties[n].ref].properties[m],
                                 LastOf(LastOf(v.members, n).members, m))
    BY <1>4, <2>1, Zenon
  <2>4. FitsSchema(v) <=>
          /\ IsReadable(v) /\ {"answers"} = NamesOf(v)
          /\ IsReadable(w) /\ answers.required = NamesOf(w)
          /\ \A m \in answers.required : FitsProperty(answers.properties[m], LastOf(w.members, m))
    BY <1>3, <2>2, <2>3 DEF w
  <2>5. QED
    BY <1>3, <2>4
<1>6. QED
  BY <1>5 DEF w, answers

\* The decoder accepts a reply exactly if the schema and the bounds do.
LEMMA Judges ==
  ASSUME NEW qs, Posed(qs), NEW r \in DOMAIN Replies
  PROVE  LET v == Replies[r].value IN
         Decode(qs, call.mode, Replies[r]).problems = <<>> <=>
           /\ IsWhole(Replies[r].pieces) /\ FitsSchema(v)
           /\ \A k \in DOMAIN qs : AnswersQuestion(r, qs[k])
<1> DEFINE v == Replies[r].value
           w == LastOf(v.members, "answers")
           mode == call.mode
           whole == IsWhole(Replies[r].pieces)
           d == Decode(qs, mode, Replies[r])
           read == DecodeReply(qs, mode, v)
           Fits(k) == Fitting(qs[k], mode, LastOf(w.members, qs[k].id))
           ids == {qs[k].id : k \in DOMAIN qs}
           Shape == /\ IsReadable(v) /\ NamesOf(v) = {"answers"}
                    /\ IsReadable(w) /\ NamesOf(w) = ids
           Property(k) == FitsProperty(Schema.defs[AnswersDef].properties[qs[k].id],
                                       LastOf(w.members, qs[k].id))
<1>1. v \in Json /\ Replies[r].pieces \in Seq(Pieces) /\ mode \in Modes /\ AllQuestions(qs)
  BY JsonAssumption DEF Posed
<1>2. AnswersOf(r) = w
  BY DEF AnswersOf
<1>3. /\ whole => d = read
      /\ ~whole => d.problems # <<>>
  BY <1>1, Decodes
<1>4. read.problems = <<>> <=> Shape /\ \A k \in DOMAIN qs : Fits(k)
  <2> DEFINE ok == read.problems = <<>>
  <2>1. LET e == DecodeReply(qs, mode, v)
            u == LastOf(v.members, "answers")
        IN e.problems = <<>> <=>
             /\ IsReadable(v) /\ NamesOf(v) = {"answers"}
             /\ IsReadable(u) /\ NamesOf(u) = {qs[k].id : k \in DOMAIN qs}
             /\ \A k \in DOMAIN qs : Fitting(qs[k], mode, LastOf(u.members, qs[k].id))
    <3> HIDE DEF v, mode
    <3>1. QED
      BY <1>1, ReplyRead
  <2>2. QED
    BY <2>1
<1>5. FitsSchema(v) <=> Shape /\ \A k \in DOMAIN qs : Property(k)
  <2>1. LET u == LastOf(v.members, "answers") IN
        FitsSchema(v) <=>
          /\ IsReadable(v) /\ NamesOf(v) = {"answers"}
          /\ IsReadable(u) /\ NamesOf(u) = {qs[k].id : k \in DOMAIN qs}
          /\ \A k \in DOMAIN qs :
               FitsProperty(Schema.defs[AnswersDef].properties[qs[k].id], LastOf(u.members, qs[k].id))
    BY SchemaFits
  <2>2. QED
    BY <2>1
<1>6. ASSUME Shape
      PROVE  /\ \A k \in DOMAIN qs : AnswersQuestion(r, qs[k]) <=> qs[k].id \in NamesOf(w) /\ Fits(k)
             /\ \A k \in DOMAIN qs : qs[k].id \in NamesOf(w)
             /\ \A k \in DOMAIN qs : Fits(k) => Property(k)
  <2>1. w \in Json /\ w.json = "object"
    <3>1. v.json = "object" /\ "answers" \in NamesOf(v) /\ w.json = "object"
      BY <1>6 DEF IsReadable
    <3>2. QED
      BY <1>1, <3>1, LastTyped, HasIs
  <2>2. ASSUME NEW k \in DOMAIN qs
        PROVE  AnswersQuestion(r, qs[k]) <=> qs[k].id \in NamesOf(w) /\ Fits(k)
    <3>1. AnswersOf(r) \in Json /\ AnswersOf(r).json = "object"
      BY <1>2, <2>1
    <3>2. AnswersQuestion(r, qs[k]) <=>
            /\ qs[k].id \in NamesOf(AnswersOf(r))
            /\ Fitting(qs[k], call.mode, LastOf(AnswersOf(r).members, qs[k].id))
      BY <3>1, AnswersFit
    <3>3. QED
      BY <1>2, <3>2
  <2>3. \A k \in DOMAIN qs : qs[k].id \in NamesOf(w)
    BY <1>6
  <2>4. ASSUME NEW k \in DOMAIN qs, Fits(k) PROVE Property(k)
    <3> DEFINE x == LastOf(w.members, qs[k].id)
    <3>1. x \in Json
      BY <2>1, <2>3, LastTyped, HasIs
    <3> HIDE DEF x, w
    <3>2. Fitting(qs[k], call.mode, x) =>
            FitsProperty(Schema.defs[AnswersDef].properties[qs[k].id], x)
      BY <3>1, Agrees
    <3>3. QED
      BY <2>4, <3>2 DEF x, w
  <2> HIDE DEF w, Shape, Fits, Property
  <2>5. QED
    BY <2>2, <2>3, <2>4
<1> HIDE DEF v, whole, d, read, Shape, Fits, Property, w
<1>7. d.problems = <<>> <=> whole /\ FitsSchema(v) /\ \A k \in DOMAIN qs : AnswersQuestion(r, qs[k])
  <2>1. ASSUME whole, Shape
        PROVE  d.problems = <<>> <=> FitsSchema(v) /\ \A k \in DOMAIN qs : AnswersQuestion(r, qs[k])
    BY <1>3, <1>4, <1>5, <1>6, <2>1
  <2>2. ~Shape => ~FitsSchema(v) /\ read.problems # <<>>
    BY <1>4, <1>5
  <2>3. QED
    BY <1>3, <2>1, <2>2
<1>8. QED
  BY <1>7 DEF v, whole, d

\* What is told of a reply that is refused, question by question.
LEMMA Tells ==
  ASSUME NEW qs, Posed(qs), NEW r \in DOMAIN Replies,
         IsWhole(Replies[r].pieces), IsReadable(Replies[r].value)
  PROVE  LET d == Decode(qs, call.mode, Replies[r])
             v == Replies[r].value
         IN /\ ~Has(v.members, "answers") => Missing(Reply, "answers") \in ToSet(d.problems)
            /\ Has(v.members, "answers") /\ IsReadable(AnswersOf(r)) =>
                 \A k \in DOMAIN qs :
                   \/ Blamed(d, qs[k].id) <=> ~AnswersQuestion(r, qs[k])
                   \/ Problem("NotJson", Reply) \in ToSet(d.problems)
<1> DEFINE v == Replies[r].value
           w == AnswersOf(r)
           mode == call.mode
           d == Decode(qs, mode, Replies[r])
           Fits(k) == Fitting(qs[k], mode, LastOf(w.members, qs[k].id))
           Ok(k) == qs[k].id \in NamesOf(w) /\ Fits(k)
<1>1. v \in Json /\ Replies[r].pieces \in Seq(Pieces) /\ mode \in Modes /\ AllQuestions(qs)
  BY JsonAssumption DEF Posed
<1>2. w = LastOf(v.members, "answers")
  BY DEF AnswersOf
<1>3. d = DecodeReply(qs, mode, v)
  BY <1>1, Decodes
<1>4. /\ IsReadable(v) /\ "answers" \notin NamesOf(v) =>
           Missing(Reply, "answers") \in ToSet(d.problems)
      /\ IsReadable(v) /\ "answers" \in NamesOf(v) /\ IsReadable(w) =>
           \A k \in DOMAIN qs :
             /\ Ok(k) => ~Blamed(d, qs[k].id)
             /\ ~Ok(k) => Blamed(d, qs[k].id) \/ Problem("NotJson", Reply) \in ToSet(d.problems)
  <2>1. LET e == DecodeReply(qs, mode, v)
            u == LastOf(v.members, "answers")
            Gives(k) == Fitting(qs[k], mode, LastOf(u.members, qs[k].id))
        IN /\ IsReadable(v) /\ "answers" \notin NamesOf(v) =>
                Missing(Reply, "answers") \in ToSet(e.problems)
           /\ IsReadable(v) /\ "answers" \in NamesOf(v) /\ IsReadable(u) =>
                \A k \in DOMAIN qs :
                  /\ qs[k].id \in NamesOf(u) /\ Gives(k) => ~Blamed(e, qs[k].id)
                  /\ ~(qs[k].id \in NamesOf(u) /\ Gives(k)) =>
                       Blamed(e, qs[k].id) \/ Problem("NotJson", Reply) \in ToSet(e.problems)
    <3> HIDE DEF v, mode
    <3>1. QED
      BY <1>1, ReplyRead
  <2> HIDE DEF d, v, w
  <2>2. QED
    BY <1>2, <1>3, <2>1
<1>5. Has(v.members, "answers") <=> "answers" \in NamesOf(v)
  BY HasIs
<1>6. ASSUME "answers" \in NamesOf(v), IsReadable(w), NEW k \in DOMAIN qs
      PROVE  AnswersQuestion(r, qs[k]) <=> Ok(k)
  <2>1. v.json = "object" /\ w.json = "object"
    BY <1>6 DEF IsReadable
  <2>2. w \in Json
    BY <1>1, <1>2, <1>6, <2>1, LastTyped, HasIs
  <2>3. QED
    BY <2>1, <2>2, AnswersFit
<1> HIDE DEF d, w, Ok, v
<1>7. QED
  BY <1>4, <1>5, <1>6 DEF d, w, v

-----------------------------------------------------------------------------
(* The last reply of a call, and what the call ends with. *)

\* What a call asks, once it has asked: the questions of its set, and their schema.
Posing ==
  pc \in Asking \/ attempts # <<>> =>
    /\ call.set \in Askable
    /\ asked = [questions |-> Model[call.set].questions,
                schema |-> WriteSchema(Model[call.set].questions, call.mode)]

\* The reply a call ends with is the one that has no problem.
LastCall == attempts[Len(attempts)]
Settled ==
  /\ attempts # <<>> /\ LastCall.outcome = "reply" =>
       /\ LastCall.text \in DOMAIN Replies
       /\ Problems(LastCall.text) = <<>> <=> pc \in {"answered", "unfit"}
  /\ pc = "answered" =>
       /\ attempts # <<>> /\ LastCall.outcome = "reply"
       /\ result = Convert(asked.questions, call.mode,
                           Decoded[call.set][call.mode][LastCall.text].value, call.normalize)

\* A step that makes no call and settles nothing keeps what is settled.
LEMMA SettledKept ==
  ASSUME Posing, Settled, UNCHANGED <<call, asked, attempts>>,
         pc' \in {"answered", "unfit"} <=> pc \in {"answered", "unfit"},
         pc' = "answered" => pc = "answered" /\ UNCHANGED result,
         pc' \in Asking /\ attempts = <<>> => pc \in Asking
  PROVE  Posing' /\ Settled'
<1>1. Posing'
  BY DEF Posing
<1>2. ASSUME NEW r PROVE Problems(r)' = Problems(r)
  BY DEF Problems
<1>3. LastCall' = LastCall
  BY DEF LastCall
<1>4. Settled'
  BY <1>2, <1>3 DEF Settled
<1>5. QED
  BY <1>1, <1>4

\* A finished call is the last one.
LEMMA CallRecorded ==
  ASSUME TypeOK, NEW outcome \in {"reply", "error", "nonanswer"},
         NEW text \in DOMAIN Replies \cup Texts, NEW tokens \in Tokens,
         Record(outcome, text, tokens)
  PROVE  attempts' # <<>> /\ LastCall'.outcome = outcome /\ LastCall'.text = text
<1>1. /\ attempts' \in Seq(Calls)
      /\ Len(attempts) \in Nat /\ Len(attempts') = Len(attempts) + 1
      /\ attempts'[Len(attempts) + 1] =
           [messages |-> messages, outcome |-> outcome, text |-> text, tokens |-> tokens]
  BY Recorded
<1>2. attempts' # <<>>
  BY <1>1, EmptySeq
<1>3. QED
  BY <1>1, <1>2 DEF LastCall

\* Every step keeps both.
LEMMA AnswersSettle ==
  IInv /\ Posing /\ Settled /\ [Next]_vars => Posing' /\ Settled'
<1> SUFFICES ASSUME IInv, Posing, Settled, [Next]_vars PROVE Posing' /\ Settled'
  OBVIOUS
<1>0. TypeOK
  BY DEF IInv
<1>1. CASE UNCHANGED vars
  BY <1>1, SettledKept DEF vars
<1>2. CASE Send
  <2>1. pc = "ready" /\ attempts = <<>> /\ UNCHANGED <<call, attempts, result>>
    BY <1>2 DEF Send, IInv, InStep
  <2>2. CASE pc' = "invalid" /\ UNCHANGED asked
    BY <2>1, <2>2, SettledKept DEF Asking
  <2>3. CASE /\ call.set \in Askable /\ pc' = "asking"
             /\ asked' = [questions |-> Model[call.set].questions,
                          schema |-> WriteSchema(Model[call.set].questions, call.mode)]
    <3>1. Posing'
      BY <2>1, <2>3 DEF Posing
    <3>2. Settled'
      BY <2>1, <2>3 DEF Settled
    <3>3. QED
      BY <3>1, <3>2
  <2>4. QED
    BY <1>2, <2>2, <2>3 DEF Send
<1>3. CASE Drop
  BY <1>3, SettledKept DEF Drop, Asking, Settled
<1>4. CASE Retry
  BY <1>4, SettledKept DEF Retry, Asking
\* A call that got no reply.
<1>5. ASSUME NEW text \in Texts, CallFails(text) \/ NonAnswer(text) PROVE Posing' /\ Settled'
  <2>1. PICK outcome \in {"error", "nonanswer"} :
          /\ pc = "asking" /\ Record(outcome, text, None) /\ UNCHANGED <<call, asked>>
          /\ pc' \in {"sleeping", "failed", "refused"}
    BY <1>5 DEF CallFails, NonAnswer
  <2>2. LastCall'.outcome = outcome
    BY <1>0, <2>1, CallRecorded DEF Tokens
  <2>3. Posing'
    BY <2>1 DEF Posing, Asking
  <2>4. QED
    BY <2>1, <2>2, <2>3 DEF Settled
<1>6. ASSUME NEW r \in DOMAIN Replies, Answer(r) PROVE Posing' /\ Settled'
  <2>1. /\ pc = "asking" /\ Record("reply", r, Replies[r].tokens) /\ UNCHANGED <<call, asked>>
        /\ Problems(r) = <<>> /\ pc' \in {"answered", "unfit"}
        /\ pc' = "answered" =>
             result' = Convert(asked.questions, call.mode,
                               Decoded[call.set][call.mode][r].value, call.normalize)
    BY <1>6 DEF Answer, Finish
  <2>2. attempts' # <<>> /\ LastCall'.outcome = "reply" /\ LastCall'.text = r
    <3>1. Replies[r].tokens \in Tokens
      BY EvaluateAssumption DEF Tokens
    <3>2. QED
      BY <1>0, <2>1, <3>1, CallRecorded
  <2>3. Posing'
    BY <2>1 DEF Posing, Asking
  <2>4. Problems(r)' = Problems(r)
    BY <2>1 DEF Problems
  <2>5. QED
    BY <2>1, <2>2, <2>3, <2>4 DEF Settled
<1>7. ASSUME NEW r \in DOMAIN Replies, Malformed(r) PROVE Posing' /\ Settled'
  <2>1. /\ pc = "asking" /\ Record("reply", r, Replies[r].tokens) /\ UNCHANGED <<call, asked>>
        /\ Problems(r) # <<>> /\ pc' \in {"asking", "malformed"}
    BY <1>7 DEF Malformed
  <2>2. attempts' # <<>> /\ LastCall'.outcome = "reply" /\ LastCall'.text = r
    <3>1. Replies[r].tokens \in Tokens
      BY EvaluateAssumption DEF Tokens
    <3>2. QED
      BY <1>0, <2>1, <3>1, CallRecorded
  <2>3. Posing'
    BY <2>1 DEF Posing, Asking
  <2>4. Problems(r)' = Problems(r)
    BY <2>1 DEF Problems
  <2>5. QED
    BY <2>1, <2>2, <2>3, <2>4 DEF Settled
<1>8. QED
  BY <1>1, <1>2, <1>3, <1>4, <1>5, <1>6, <1>7 DEF Next

\* So they hold always, with the invariant of the loop.
LEMMA Settles == Spec => [](IInv /\ Posing /\ Settled)
<1>1. Init => Posing /\ Settled
  BY DEF Init, Posing, Settled, Asking
<1>2. IInv /\ Posing /\ Settled /\ [Next]_vars => Posing' /\ Settled'
  BY AnswersSettle
<1>3. QED
  BY <1>1, <1>2, Holds, PTL DEF Spec

\* The last reply, with the questions it was asked and what was made of it.
LEMMA LastReplyIs ==
  ASSUME IInv, Posing, Settled, NEW r \in LastReply
  PROVE  /\ r \in DOMAIN Replies /\ r = LastCall.text
         /\ Posed(Questions)
         /\ Decoded[call.set][call.mode][r] = Decode(Questions, call.mode, Replies[r])
         /\ Problems(r) = Decode(Questions, call.mode, Replies[r]).problems
         /\ Problems(r) = <<>> <=> pc \in {"answered", "unfit"}
<1>1. attempts # <<>> /\ LastCall.outcome = "reply" /\ r = LastCall.text
  BY DEF LastReply, LastCall
<1>2. r \in DOMAIN Replies /\ (Problems(r) = <<>> <=> pc \in {"answered", "unfit"})
  BY <1>1 DEF Settled
<1>3. call.set \in Askable /\ call.mode \in Modes
  BY <1>1 DEF Posing, IInv, TypeOK
<1>4. Questions = Model[call.set].questions
  BY <1>1 DEF Posing, Questions
<1>5. Posed(Questions)
  <2>1. AllQuestions(Model[call.set].questions)
    BY <1>3, Asks
  <2>2. QED
    BY <1>1, <1>3, <1>4, <2>1 DEF Posing, Posed
<1>6. Decoded[call.set][call.mode][r] = Decode(Questions, call.mode, Replies[r])
  BY <1>2, <1>3, <1>4 DEF Decoded
<1>7. QED
  BY <1>1, <1>2, <1>5, <1>6 DEF Problems

\* The decoder (decode.rs) accepts the replies that the schema the model is told
\* (schema.rs) describes, within the bounds the schema leaves to the decoder, and
\* no other: of any questions and any text.
THEOREM AcceptsBySchema == Spec => []SchemaAgrees
<1>1. ASSUME IInv, Posing, Settled PROVE SchemaAgrees
  <2>1. SUFFICES ASSUME NEW r \in LastReply
                 PROVE  Problems(r) = <<>> <=>
                          /\ IsWhole(Replies[r].pieces)
                          /\ FitsSchema(Replies[r].value)
                          /\ \A i \in DOMAIN Questions : AnswersQuestion(r, Questions[i])
    BY DEF SchemaAgrees
  <2>2. /\ r \in DOMAIN Replies /\ Posed(Questions)
        /\ Problems(r) = Decode(Questions, call.mode, Replies[r]).problems
    BY <1>1, LastReplyIs
  <2>3. LET v == Replies[r].value IN
        Decode(Questions, call.mode, Replies[r]).problems = <<>> <=>
          /\ IsWhole(Replies[r].pieces) /\ FitsSchema(v)
          /\ \A k \in DOMAIN Questions : AnswersQuestion(r, Questions[k])
    BY <2>2, Judges
  <2>4. QED
    BY <2>2, <2>3
<1>2. QED
  BY <1>1, Settles, PTL

\* What a model is told of a reply it must correct leaves out no question it did
\* not answer as asked, and blames no other.
THEOREM CorrectionsAreComplete == Spec => []CorrectionsComplete
<1>1. ASSUME IInv, Posing, Settled PROVE CorrectionsComplete
  <2> DEFINE problems(r) == ToSet(Problems(r))
  <2>1. ASSUME NEW r \in LastReply
        PROVE  /\ pc \notin {"answered", "unfit"} => problems(r) # {}
               /\ (IsWhole(Replies[r].pieces) /\ IsReadable(Replies[r].value)) =>
                    IF ~Has(Replies[r].value.members, "answers")
                      THEN Missing(Reply, "answers") \in problems(r)
                      ELSE IsReadable(AnswersOf(r)) =>
                        \A i \in DOMAIN Questions :
                          \/ (\E p \in problems(r) : Naming(Questions[i].id, p))
                               <=> ~AnswersQuestion(r, Questions[i])
                          \/ Problem("NotJson", Reply) \in problems(r)
    <3>1. /\ r \in DOMAIN Replies /\ Posed(Questions)
          /\ Problems(r) = Decode(Questions, call.mode, Replies[r]).problems
          /\ Problems(r) = <<>> <=> pc \in {"answered", "unfit"}
      BY <1>1, <2>1, LastReplyIs
    <3> DEFINE d == Decode(Questions, call.mode, Replies[r])
    <3>2. IsList(d.problems)
      <4>1. Replies[r].pieces \in Seq(Pieces) /\ Replies[r].value \in Json
        BY <3>1, JsonAssumption
      <4>2. LET e == Decode(Questions, call.mode, Replies[r]) IN
            /\ IsWhole(Replies[r].pieces) => e = DecodeReply(Questions, call.mode, Replies[r].value)
            /\ ~IsWhole(Replies[r].pieces) => IsList(e.problems) /\ e.problems # <<>>
        BY <4>1, Decodes
      <4>3. IsList(DecodeReply(Questions, call.mode, Replies[r].value).problems)
        BY <3>1, <4>1, ReplyRead DEF Posed
      <4>4. QED
        BY <4>2, <4>3
    <3>3. pc \notin {"answered", "unfit"} => problems(r) # {}
      <4>1. d.problems = <<>> <=> ToSet(d.problems) = {}
        BY <3>2, ListIs DEF IsList
      <4>2. QED
        BY <3>1, <4>1
    <3>4. ASSUME IsWhole(Replies[r].pieces), IsReadable(Replies[r].value)
          PROVE  /\ ~Has(Replies[r].value.members, "answers") =>
                      Missing(Reply, "answers") \in ToSet(d.problems)
                 /\ Has(Replies[r].value.members, "answers") /\ IsReadable(AnswersOf(r)) =>
                      \A k \in DOMAIN Questions :
                        \/ Blamed(d, Questions[k].id) <=> ~AnswersQuestion(r, Questions[k])
                        \/ Problem("NotJson", Reply) \in ToSet(d.problems)
      <4>1. LET e == Decode(Questions, call.mode, Replies[r])
                v == Replies[r].value
            IN /\ ~Has(v.members, "answers") => Missing(Reply, "answers") \in ToSet(e.problems)
               /\ Has(v.members, "answers") /\ IsReadable(AnswersOf(r)) =>
                    \A k \in DOMAIN Questions :
                      \/ Blamed(e, Questions[k].id) <=> ~AnswersQuestion(r, Questions[k])
                      \/ Problem("NotJson", Reply) \in ToSet(e.problems)
        BY <3>1, <3>4, Tells
      <4>2. QED
        BY <4>1
    <3>5. problems(r) = ToSet(d.problems)
      BY <3>1
    <3> HIDE DEF d
    <3>6. QED
      BY <3>3, <3>4, <3>5 DEF Blamed
  <2>2. QED
    BY <2>1 DEF CorrectionsComplete, Naming, Ahead
<1>2. QED
  BY <1>1, Settles, PTL

-----------------------------------------------------------------------------
(* Sums. *)

\* A function over the first n numbers is a list of length n.
LEMMA ListOfInts ==
  ASSUME NEW n \in Nat, NEW parts \in [1..n -> Int]
  PROVE  parts \in Seq(Int) /\ Len(parts) = n /\ DOMAIN parts = 1..n
<1>1. parts \in Seq(Int)
  BY Sequences
<1>2. DOMAIN parts = 1..Len(parts) /\ Len(parts) \in Nat
  BY <1>1, LenProperties
<1>3. 1..n = 1..Len(parts)
  BY <1>2
<1>4. n = Len(parts)
  <2>1. n > 0 => n \in 1..Len(parts)
    BY <1>3
  <2>2. Len(parts) > 0 => Len(parts) \in 1..n
    BY <1>2, <1>3
  <2>3. QED
    BY <1>2, <2>1, <2>2
<1>5. QED
  BY <1>1, <1>2, <1>4

\* A sum is that of the parts before the last, and the last.
LEMMA SumUnfolds ==
  ASSUME NEW n \in Nat, NEW parts \in [1..n -> Int]
  PROVE  \E f \in [0..n -> Int] :
           Sum(parts) = f[n] /\ f[0] = 0 /\ \A i \in 1..n : f[i] = f[i - 1] + parts[i]
<1> DEFINE step == [p \in Nat \X Int |-> p[2] + (IF p[1] \in 1..n THEN parts[p[1]] ELSE 0)]
           Is(f) == f = [i \in 0..n |-> IF i = 0 THEN 0 ELSE f[i - 1] + parts[i]]
           upto == CHOOSE f : Is(f)
<1>1. Len(parts) = n
  BY ListOfInts
<1>2. Sum(parts) = upto[n]
  BY <1>1 DEF Sum
<1>3. step \in [(Nat \X Int) -> Int]
  OBVIOUS
<1>4. PICK g \in [0..n -> Int] : Recursive(g, 0..n, 0, step)
  <2> HIDE DEF step
  <2>1. 0 \in Int
    OBVIOUS
  <2>2. QED
    BY <1>3, <2>1, RecursionUpTo
<1>5. g[0] = 0 /\ \A i \in 1..n : g[i] = g[i - 1] + parts[i]
  <2>1. \A i \in 1..n : i \in (0..n) \ {0} /\ i \in Nat /\ i - 1 \in 0..n
    OBVIOUS
  <2>2. \A i \in 1..n : g[i - 1] \in Int
    BY <1>4, <2>1
  <2>3. \A i \in 1..n : g[i] = step[<<i, g[i - 1]>>]
    BY <1>4, <2>1, Zenon DEF Recursive
  <2>4. g[0] = 0
    BY <1>4 DEF Recursive
  <2>5. QED
    BY <2>1, <2>2, <2>3, <2>4
<1> HIDE DEF step
<1>6. Is(g)
  BY <1>5
<1>7. Is(upto)
  <2> HIDE DEF Is
  <2>1. QED
    BY <1>6
<1> HIDE DEF upto
<1>8. \A i \in 0..n : upto[i] = IF i = 0 THEN 0 ELSE upto[i - 1] + parts[i]
  BY <1>7
<1> HIDE DEF Is
<1> DEFINE alike == {i \in Nat : i <= n => upto[i] = g[i]}
<1>9. 0 \in alike
  BY <1>5, <1>8
<1>10. ASSUME NEW i \in Nat, i \in alike PROVE i + 1 \in alike
  <2>1. SUFFICES ASSUME i + 1 <= n PROVE upto[i + 1] = g[i + 1]
    OBVIOUS
  <2>2. i + 1 \in 1..n /\ i + 1 \in 0..n /\ (i + 1) - 1 = i /\ upto[i] = g[i] /\ i + 1 # 0
    BY <1>10, <2>1
  <2>3. QED
    BY <1>5, <1>8, <2>2
<1> HIDE DEF alike
<1>11. n \in alike
  BY <1>9, <1>10, NatSetInduction
<1>12. Sum(parts) = g[n]
  BY <1>2, <1>11 DEF alike
<1>13. QED
  BY <1>5, <1>12

\* A sum of integers is one.
LEMMA SumTyped ==
  ASSUME NEW n \in Nat, NEW parts \in [1..n -> Int] PROVE Sum(parts) \in Int
<1>1. PICK f \in [0..n -> Int] : Sum(parts) = f[n]
  BY SumUnfolds
<1>2. QED
  BY <1>1

\* Products with a sum.
LEMMA Distributes ==
  \A c, a, b \in Int :
    c * (a + b) = c * a + c * b /\ c * a \in Int /\ c * b \in Int
    /\ (a + b) * c = a * c + b * c /\ a * c \in Int /\ b * c \in Int
OBVIOUS

\* A sum is weighed as its parts are.
LEMMA SumAbove ==
  ASSUME NEW n \in Nat, NEW a \in [1..n -> Int], NEW t \in [1..n -> Int], NEW c \in Int,
         \A i \in 1..n : c * a[i] <= t[i]
  PROVE  c * Sum(a) <= Sum(t)
<1>1. PICK f \in [0..n -> Int] : Sum(a) = f[n] /\ f[0] = 0 /\ \A i \in 1..n : f[i] = f[i - 1] + a[i]
  BY SumUnfolds
<1>2. PICK g \in [0..n -> Int] : Sum(t) = g[n] /\ g[0] = 0 /\ \A i \in 1..n : g[i] = g[i - 1] + t[i]
  BY SumUnfolds
<1> DEFINE G == {i \in Nat : i <= n => c * f[i] <= g[i]}
<1>3. 0 \in G
  BY <1>1, <1>2
<1>4. ASSUME NEW i \in Nat, i \in G PROVE i + 1 \in G
  <2>1. SUFFICES ASSUME i + 1 <= n PROVE c * f[i + 1] <= g[i + 1]
    OBVIOUS
  <2>2. i + 1 \in 1..n /\ (i + 1) - 1 = i /\ c * f[i] <= g[i] /\ i \in 0..n /\ i + 1 \in 0..n
    BY <1>4, <2>1
  <2>3. f[i + 1] = f[i] + a[i + 1] /\ g[i + 1] = g[i] + t[i + 1] /\ c * a[i + 1] <= t[i + 1]
    BY <1>1, <1>2, <2>2
  <2>4. f[i] \in Int /\ a[i + 1] \in Int /\ g[i] \in Int /\ t[i + 1] \in Int
    BY <2>2
  <2> DEFINE x == f[i]
             y == a[i + 1]
             cx == c * x
             cy == c * y
  <2>5. x \in Int /\ y \in Int /\ f[i + 1] = x + y
    BY <2>3, <2>4
  <2> HIDE DEF x, y
  <2>6. c * (x + y) = cx + cy /\ cx \in Int /\ cy \in Int
    BY <2>5, Distributes
  <2>7. c * f[i + 1] = cx + cy
    BY <2>5, <2>6
  <2>8. c * f[i] = cx /\ c * a[i + 1] = cy
    BY DEF x, y
  <2> HIDE DEF cx, cy
  <2> DEFINE gi == g[i]
             ti == t[i + 1]
             gj == g[i + 1]
             cj == c * f[i + 1]
  <2>9. gi \in Int /\ ti \in Int /\ gj = gi + ti /\ cj = cx + cy /\ cx <= gi /\ cy <= ti
    BY <2>2, <2>3, <2>4, <2>7, <2>8
  <2> HIDE DEF gi, ti, gj, cj
  <2>10. cj <= gj
    BY <2>6, <2>9
  <2>11. QED
    BY <2>10 DEF gj, cj
<1> HIDE DEF G
<1>5. n \in G
  BY <1>3, <1>4, NatSetInduction
<1>6. QED
  BY <1>1, <1>2, <1>5 DEF G

\* And from above.
LEMMA SumBelow ==
  ASSUME NEW n \in Nat, NEW a \in [1..n -> Int], NEW t \in [1..n -> Int], NEW c \in Int,
         \A i \in 1..n : t[i] <= c * a[i]
  PROVE  Sum(t) <= c * Sum(a)
<1>1. PICK f \in [0..n -> Int] : Sum(a) = f[n] /\ f[0] = 0 /\ \A i \in 1..n : f[i] = f[i - 1] + a[i]
  BY SumUnfolds
<1>2. PICK g \in [0..n -> Int] : Sum(t) = g[n] /\ g[0] = 0 /\ \A i \in 1..n : g[i] = g[i - 1] + t[i]
  BY SumUnfolds
<1> DEFINE G == {i \in Nat : i <= n => g[i] <= c * f[i]}
<1>3. 0 \in G
  BY <1>1, <1>2
<1>4. ASSUME NEW i \in Nat, i \in G PROVE i + 1 \in G
  <2>1. SUFFICES ASSUME i + 1 <= n PROVE g[i + 1] <= c * f[i + 1]
    OBVIOUS
  <2>2. i + 1 \in 1..n /\ (i + 1) - 1 = i /\ g[i] <= c * f[i] /\ i \in 0..n /\ i + 1 \in 0..n
    BY <1>4, <2>1
  <2>3. f[i + 1] = f[i] + a[i + 1] /\ g[i + 1] = g[i] + t[i + 1] /\ t[i + 1] <= c * a[i + 1]
    BY <1>1, <1>2, <2>2
  <2>4. f[i] \in Int /\ a[i + 1] \in Int /\ g[i] \in Int /\ t[i + 1] \in Int
    BY <2>2
  <2> DEFINE x == f[i]
             y == a[i + 1]
             cx == c * x
             cy == c * y
  <2>5. x \in Int /\ y \in Int /\ f[i + 1] = x + y
    BY <2>3, <2>4
  <2> HIDE DEF x, y
  <2>6. c * (x + y) = cx + cy /\ cx \in Int /\ cy \in Int
    BY <2>5, Distributes
  <2>7. c * f[i + 1] = cx + cy
    BY <2>5, <2>6
  <2>8. c * f[i] = cx /\ c * a[i + 1] = cy
    BY DEF x, y
  <2> HIDE DEF cx, cy
  <2> DEFINE gi == g[i]
             ti == t[i + 1]
             gj == g[i + 1]
             cj == c * f[i + 1]
  <2>9. gi \in Int /\ ti \in Int /\ gj = gi + ti /\ cj = cx + cy /\ gi <= cx /\ ti <= cy
    BY <2>2, <2>3, <2>4, <2>7, <2>8
  <2> HIDE DEF gi, ti, gj, cj
  <2>10. gj <= cj
    BY <2>6, <2>9
  <2>11. QED
    BY <2>10 DEF gj, cj
<1> HIDE DEF G
<1>5. n \in G
  BY <1>3, <1>4, NatSetInduction
<1>6. QED
  BY <1>1, <1>2, <1>5 DEF G

\* A sum of n alike is n times one of them.
LEMMA SumAlike ==
  ASSUME NEW n \in Nat, NEW c \in Int PROVE Sum([i \in 1..n |-> c]) = n * c
<1> DEFINE a == [i \in 1..n |-> c]
<1>1. a \in [1..n -> Int] /\ \A i \in 1..n : a[i] = c
  OBVIOUS
<1> HIDE DEF a
<1>2. PICK f \in [0..n -> Int] : Sum(a) = f[n] /\ f[0] = 0 /\ \A i \in 1..n : f[i] = f[i - 1] + a[i]
  BY <1>1, SumUnfolds
<1> DEFINE G == {i \in Nat : i <= n => f[i] = i * c}
<1>3. 0 \in G
  BY <1>2
<1>4. ASSUME NEW i \in Nat, i \in G PROVE i + 1 \in G
  <2>1. SUFFICES ASSUME i + 1 <= n PROVE f[i + 1] = (i + 1) * c
    OBVIOUS
  <2>2. i + 1 \in 1..n /\ (i + 1) - 1 = i /\ f[i] = i * c
    BY <1>4, <2>1
  <2>3. f[i + 1] = i * c + c
    BY <1>1, <1>2, <2>2
  <2>4. (i + 1) * c = i * c + c
    OBVIOUS
  <2>5. QED
    BY <2>3, <2>4
<1> HIDE DEF G
<1>5. n \in G
  BY <1>3, <1>4, NatSetInduction
<1>6. QED
  BY <1>2, <1>5 DEF G, a

\* A sum of natural numbers is one.
LEMMA SumNat ==
  ASSUME NEW n \in Nat, NEW parts \in [1..n -> Nat] PROVE Sum(parts) \in Nat
<1>1. parts \in [1..n -> Int] /\ \A i \in 1..n : parts[i] \in Nat
  OBVIOUS
<1>2. PICK f \in [0..n -> Int] : Sum(parts) = f[n] /\ f[0] = 0 /\ \A i \in 1..n : f[i] = f[i - 1] + parts[i]
  BY <1>1, SumUnfolds
<1> DEFINE G == {i \in Nat : i <= n => f[i] >= 0}
<1>3. 0 \in G
  BY <1>2
<1>4. ASSUME NEW i \in Nat, i \in G PROVE i + 1 \in G
  <2>1. SUFFICES ASSUME i + 1 <= n PROVE f[i + 1] >= 0
    OBVIOUS
  <2>2. i + 1 \in 1..n /\ (i + 1) - 1 = i /\ f[i] >= 0 /\ f[i] \in Int
    BY <1>4, <2>1
  <2>3. QED
    BY <1>1, <1>2, <2>2
<1> HIDE DEF G
<1>5. n \in G
  BY <1>3, <1>4, NatSetInduction
<1>6. QED
  BY <1>2, <1>5 DEF G

\* What one part is, and all the others are not.
LEMMA SumOne ==
  ASSUME NEW n \in Nat, NEW parts \in [1..n -> Nat], NEW k \in 1..n,
         \A j \in 1..n : j # k => parts[j] = 0
  PROVE  Sum(parts) = parts[k]
<1>0. parts \in [1..n -> Int]
  OBVIOUS
<1>1. PICK f \in [0..n -> Int] : Sum(parts) = f[n] /\ f[0] = 0 /\ \A i \in 1..n : f[i] = f[i - 1] + parts[i]
  BY <1>0, SumUnfolds
<1> DEFINE G == {i \in Nat : i <= n => f[i] = IF i < k THEN 0 ELSE parts[k]}
<1>2. 0 \in G
  BY <1>1
<1>3. ASSUME NEW i \in Nat, i \in G PROVE i + 1 \in G
  <2>1. SUFFICES ASSUME i + 1 <= n PROVE f[i + 1] = IF i + 1 < k THEN 0 ELSE parts[k]
    OBVIOUS
  <2>2. i + 1 \in 1..n /\ (i + 1) - 1 = i /\ f[i] = IF i < k THEN 0 ELSE parts[k]
    BY <1>3, <2>1
  <2>3. f[i + 1] = f[i] + parts[i + 1] /\ parts[k] \in Nat
    BY <1>1, <2>2
  <2>4. i + 1 # k => parts[i + 1] = 0
    BY <2>2
  <2>5. i + 1 < k \/ i + 1 = k \/ i + 1 > k
    OBVIOUS
  <2>6. QED
    BY <2>2, <2>3, <2>4, <2>5
<1> HIDE DEF G
<1>4. n \in G
  BY <1>2, <1>3, NatSetInduction
<1>5. QED
  BY <1>1, <1>4 DEF G

\* A sum is at least one part and another.
LEMMA SumTwo ==
  ASSUME NEW n \in Nat, NEW parts \in [1..n -> Nat], NEW k \in 1..n, NEW j \in 1..n, j # k
  PROVE  parts[j] + parts[k] <= Sum(parts)
<1>1. parts \in [1..n -> Int] /\ parts[k] \in Nat /\ parts[j] \in Nat
  OBVIOUS
<1>2. PICK f \in [0..n -> Int] : Sum(parts) = f[n] /\ f[0] = 0 /\ \A i \in 1..n : f[i] = f[i - 1] + parts[i]
  BY <1>1, SumUnfolds
<1> DEFINE ofK(i) == IF i < k THEN 0 ELSE parts[k]
           ofJ(i) == IF i < j THEN 0 ELSE parts[j]
           G == {i \in Nat : i <= n => f[i] >= ofK(i) + ofJ(i)}
<1>3. 0 \in G
  BY <1>2
<1>4. ASSUME NEW i \in Nat, i \in G PROVE i + 1 \in G
  <2>1. SUFFICES ASSUME i + 1 <= n PROVE f[i + 1] >= ofK(i + 1) + ofJ(i + 1)
    OBVIOUS
  <2>2. i + 1 \in 1..n /\ (i + 1) - 1 = i /\ f[i] >= ofK(i) + ofJ(i) /\ f[i] \in Int
    BY <1>2, <1>4, <2>1
  <2>3. f[i + 1] = f[i] + parts[i + 1] /\ parts[i + 1] \in Nat
    BY <1>2, <2>2
  <2>4. ofK(i) \in Nat /\ ofJ(i) \in Nat
    BY <1>1
  <2>5. CASE i + 1 = k
    <3>1. ofK(i + 1) = parts[i + 1] /\ ofK(i) = 0
      BY <2>5
    <3>2. ofJ(i + 1) = ofJ(i)
      BY <2>5
    <3> HIDE DEF ofK, ofJ
    <3>3. QED
      BY <2>2, <2>3, <2>4, <3>1, <3>2
  <2>6. CASE i + 1 = j
    <3>1. ofJ(i + 1) = parts[i + 1] /\ ofJ(i) = 0
      BY <2>6
    <3>2. ofK(i + 1) = ofK(i)
      BY <2>6
    <3> HIDE DEF ofK, ofJ
    <3>3. QED
      BY <2>2, <2>3, <2>4, <3>1, <3>2
  <2>7. CASE i + 1 # k /\ i + 1 # j
    <3>1. ofK(i + 1) = ofK(i)
      BY <2>7
    <3>2. ofJ(i + 1) = ofJ(i)
      BY <2>7
    <3> HIDE DEF ofK, ofJ
    <3>3. QED
      BY <2>2, <2>3, <2>4, <3>1, <3>2
  <2>8. QED
    BY <2>5, <2>6, <2>7
<1> HIDE DEF G
<1>5. n \in G
  BY <1>3, <1>4, NatSetInduction
<1>6. ofK(n) = parts[k] /\ ofJ(n) = parts[j]
  OBVIOUS
<1>7. QED
  BY <1>1, <1>2, <1>5, <1>6 DEF G

\* A sum is at least each of its parts.
LEMMA SumPart ==
  ASSUME NEW n \in Nat, NEW parts \in [1..n -> Nat], NEW k \in 1..n
  PROVE  parts[k] <= Sum(parts)
<1>1. parts \in [1..n -> Int] /\ parts[k] \in Nat
  OBVIOUS
<1>2. PICK f \in [0..n -> Int] : Sum(parts) = f[n] /\ f[0] = 0 /\ \A i \in 1..n : f[i] = f[i - 1] + parts[i]
  BY <1>1, SumUnfolds
<1> DEFINE ofK(i) == IF i < k THEN 0 ELSE parts[k]
           G == {i \in Nat : i <= n => f[i] >= ofK(i)}
<1>3. 0 \in G
  BY <1>2
<1>4. ASSUME NEW i \in Nat, i \in G PROVE i + 1 \in G
  <2>1. SUFFICES ASSUME i + 1 <= n PROVE f[i + 1] >= ofK(i + 1)
    OBVIOUS
  <2>2. i + 1 \in 1..n /\ (i + 1) - 1 = i /\ f[i] >= ofK(i) /\ f[i] \in Int
    BY <1>2, <1>4, <2>1
  <2>3. f[i + 1] = f[i] + parts[i + 1] /\ parts[i + 1] \in Nat
    BY <1>2, <2>2
  <2>4. ofK(i) \in Nat
    BY <1>1
  <2>5. CASE i + 1 = k
    <3>1. ofK(i + 1) = parts[i + 1] /\ ofK(i) = 0
      BY <2>5
    <3> HIDE DEF ofK
    <3>2. QED
      BY <2>2, <2>3, <2>4, <3>1
  <2>6. CASE i + 1 # k
    <3>1. ofK(i + 1) = ofK(i)
      BY <2>6
    <3> HIDE DEF ofK
    <3>2. QED
      BY <2>2, <2>3, <2>4, <3>1
  <2>7. QED
    BY <2>5, <2>6
<1> HIDE DEF G
<1>5. n \in G
  BY <1>3, <1>4, NatSetInduction
<1>6. ofK(n) = parts[k]
  OBVIOUS
<1>7. QED
  BY <1>1, <1>2, <1>5, <1>6 DEF G

\* The first of the largest.
LEMMA FirstMaxIs ==
  ASSUME NEW n \in Nat \ {0}, NEW parts \in [1..n -> Nat]
  PROVE  /\ FirstMax(parts) \in 1..n
         /\ \A j \in 1..n : parts[j] <= parts[FirstMax(parts)]
                            /\ (parts[j] = parts[FirstMax(parts)] => FirstMax(parts) <= j)
<1> DEFINE best(m) == {i \in 1..m : \A j \in 1..m : parts[j] <= parts[i]}
           G == {m \in Nat : m + 1 <= n => best(m + 1) # {}}
<1>1. 0 \in G
  <2>1. 1 \in best(1)
    OBVIOUS
  <2>2. QED
    BY <2>1
<1>2. ASSUME NEW m \in Nat, m \in G PROVE m + 1 \in G
  <2>0. m + 1 + 1 = m + 2
    OBVIOUS
  <2>1. SUFFICES ASSUME m + 2 <= n PROVE best(m + 2) # {}
    BY <2>0
  <2>2. PICK i \in 1..(m + 1) : \A j \in 1..(m + 1) : parts[j] <= parts[i]
    BY <1>2, <2>1
  <2>3. i \in 1..n /\ m + 2 \in 1..n /\ parts[i] \in Nat /\ parts[m + 2] \in Nat
    BY <2>1
  <2>4. \A j \in 1..(m + 2) : (j \in 1..(m + 1) \/ j = m + 2) /\ parts[j] \in Nat
    BY <2>1
  <2>5. CASE parts[m + 2] <= parts[i]
    <3>1. \A j \in 1..(m + 2) : parts[j] <= parts[i]
      BY <2>2, <2>4, <2>5
    <3>2. i \in best(m + 2)
      BY <3>1
    <3>3. QED
      BY <3>2
  <2>6. CASE ~(parts[m + 2] <= parts[i])
    <3>1. \A j \in 1..(m + 2) : parts[j] <= parts[m + 2]
      BY <2>2, <2>3, <2>4, <2>6
    <3>2. m + 2 \in best(m + 2)
      BY <3>1
    <3>3. QED
      BY <3>2
  <2>7. QED
    BY <2>5, <2>6
<1> HIDE DEF G
<1>3. n - 1 \in G
  <2>1. n - 1 \in Nat
    OBVIOUS
  <2>2. Nat \subseteq G
    BY <1>1, <1>2, NatSetInduction
  <2>3. QED
    BY <2>1, <2>2
<1>4. best(n) # {} /\ best(n) \in SUBSET Nat
  <2>1. n - 1 + 1 = n
    OBVIOUS
  <2>2. QED
    BY <1>3, <2>1 DEF G
<1>5. PICK i \in best(n) : \A j \in best(n) : i <= j
  <2> HIDE DEF best
  <2>1. QED
    BY <1>4, Least
<1>6. ASSUME NEW j \in 1..n PROVE parts[j] <= parts[i] /\ (parts[j] = parts[i] => i <= j)
  <2>1. parts[j] <= parts[i]
    BY <1>5
  <2>2. parts[j] = parts[i] => j \in best(n)
    BY <1>5
  <2>3. QED
    BY <1>5, <2>1, <2>2
<1>7. DOMAIN parts = 1..n /\ i \in 1..n
  BY <1>5
<1>8. \E m \in DOMAIN parts : \A j \in DOMAIN parts : parts[j] <= parts[m] /\ (parts[j] = parts[m] => m <= j)
  BY <1>6, <1>7
<1>9. QED
  BY <1>7, <1>8 DEF FirstMax

\* What is said of products.
LEMMA Products ==
  /\ \A a, b, c \in Nat : a <= b => c * a <= c * b
  /\ \A a, b, c \in Nat : c > 0 /\ c * a = c * b => a = b
  /\ \A a, b \in Nat : a * b \in Nat /\ (a * b = 0 <=> a = 0 \/ b = 0)
<1>1. \A a, b, c \in Nat : a <= b => c * a <= c * b
  OBVIOUS
<1>2. \A a, b, c \in Nat : c > 0 /\ c * a = c * b => a = b
  OBVIOUS
<1>3. \A a, b \in Nat : a * b \in Nat /\ (a * b = 0 <=> a = 0 \/ b = 0)
  OBVIOUS
<1>4. QED
  BY <1>1, <1>2, <1>3

\* The likeliest of the parts weighs something if anything does, and all there is
\* if only one does.
LEMMA OneHeavy ==
  ASSUME NEW n \in Nat \ {0}, NEW p \in [1..n -> Nat]
  PROVE  LET first == FirstMax(p) IN
         /\ first \in 1..n /\ p[first] \in Nat
         /\ Sum(p) = 0 <=> p[first] = 0
         /\ Cardinality({k \in 1..n : p[k] > 0}) = 1 <=>
              Sum(p) # 0 /\ \A j \in 1..n : j # first => p[j] = 0
<1> DEFINE first == FirstMax(p)
           heavy == {k \in 1..n : p[k] > 0}
<1>1. first \in 1..n /\ \A j \in 1..n : p[j] <= p[first]
  BY FirstMaxIs
<1>2. \A j \in 1..n : p[j] \in Nat
  OBVIOUS
<1> HIDE DEF first
<1>3. Sum(p) \in Nat
  BY SumNat
<1>4. p[first] <= Sum(p)
  BY <1>1, SumPart
<1>5. ASSUME p[first] = 0 PROVE Sum(p) = 0
  <2>1. \A j \in 1..n : j # first => p[j] = 0
    BY <1>1, <1>2, <1>5
  <2>2. Sum(p) = p[first]
    BY <1>1, <2>1, SumOne
  <2>3. QED
    BY <1>5, <2>2
<1>6. Sum(p) = 0 <=> p[first] = 0
  BY <1>1, <1>2, <1>3, <1>4, <1>5
<1>7. ASSUME Cardinality(heavy) = 1
      PROVE  Sum(p) # 0 /\ \A j \in 1..n : j # first => p[j] = 0
  <2>1. IsFiniteSet(heavy)
    <3>1. IsFiniteSet(1..n)
      BY FS_Interval
    <3>2. heavy \in SUBSET (1..n)
      OBVIOUS
    <3> HIDE DEF heavy
    <3>3. QED
      BY <3>1, <3>2, FS_Subset
  <2>2. PICK x : heavy = {x}
    <3> HIDE DEF heavy
    <3>1. QED
      BY <1>7, <2>1, FS_Singleton
  <2>3. x \in 1..n /\ p[x] > 0
    BY <2>2
  <2>4. p[first] # 0
    BY <1>1, <1>2, <2>3
  <2>5. first = x
    BY <1>1, <1>2, <2>2, <2>4
  <2>6. \A j \in 1..n : j # first => p[j] = 0
    BY <1>2, <2>2, <2>5
  <2>7. QED
    BY <1>6, <2>4, <2>6
<1>8. ASSUME Sum(p) # 0, \A j \in 1..n : j # first => p[j] = 0
      PROVE  Cardinality(heavy) = 1
  <2>1. p[first] > 0
    BY <1>1, <1>2, <1>6, <1>8
  <2>2. heavy = {first}
    BY <1>1, <1>2, <1>8, <2>1
  <2> HIDE DEF heavy
  <2>3. QED
    BY <2>2, FS_Singleton
<1>9. QED
  BY <1>1, <1>2, <1>6, <1>7, <1>8 DEF first

\* A rescaled distribution is all of its whole.
LEMMA Rescales ==
  ASSUME NEW n \in Nat \ {0}, NEW p \in [1..n -> Nat]
  PROVE  LET d == Rescale(p) IN
         /\ d.parts \in [1..n -> Nat] /\ d.whole \in Nat \ {0} /\ Sum(d.parts) = d.whole
         /\ Sum(p) # 0 => d.parts = p
         /\ Sum(p) = 0 => \A i \in 1..n : d.parts[i] = 1 /\ p[i] = 0
<1>1. p \in [1..n -> Int] /\ DOMAIN p = 1..n /\ Len(p) = n
  <2>1. p \in [1..n -> Int]
    OBVIOUS
  <2>2. QED
    BY <2>1, ListOfInts
<1>2. Sum(p) \in Nat
  BY SumNat
<1>3. CASE Sum(p) = 0
  <2> DEFINE one == 1
             ones == [i \in 1..n |-> one]
  <2>1. Rescale(p) = [parts |-> ones, whole |-> n]
    BY <1>1, <1>3 DEF Rescale
  <2>2. ones \in [1..n -> Nat] /\ (\A i \in 1..n : ones[i] = 1) /\ one \in Int /\ n * one = n
    OBVIOUS
  <2> HIDE DEF one
  <2>3. Sum(ones) = n
    BY <2>2, SumAlike
  <2> HIDE DEF ones
  <2>4. ASSUME NEW i \in 1..n PROVE p[i] = 0
    <3>1. p[i] <= Sum(p) /\ p[i] \in Nat
      BY SumPart
    <3>2. QED
      BY <1>3, <3>1
  <2>5. QED
    BY <1>3, <2>1, <2>2, <2>3, <2>4
<1>4. CASE Sum(p) # 0
  BY <1>1, <1>2, <1>4 DEF Rescale
<1>5. QED
  BY <1>3, <1>4

\* A choice is certain exactly if one of its outcomes has all the weight.
LEMMA ChoiceSure ==
  ASSUME NEW n \in Nat, n >= 2, NEW p \in [1..n -> Nat]
  PROVE  LET c == ChoiceConfidence(Rescale(p)) IN
         /\ c[1] \in 0..c[2]
         /\ c[1] = c[2] <=> Cardinality({k \in 1..n : p[k] > 0}) = 1
<1> DEFINE d == Rescale(p)
           q == d.parts
           whole == d.whole
           first == FirstMax(q)
           max == q[first]
           c == ChoiceConfidence(d)
           heavy == {k \in 1..n : p[k] > 0}
<1>0. n \in Nat \ {0}
  OBVIOUS
<1>1. /\ q \in [1..n -> Nat] /\ whole \in Nat \ {0} /\ Sum(q) = whole
      /\ Sum(p) # 0 => q = p
      /\ Sum(p) = 0 => \A i \in 1..n : q[i] = 1 /\ p[i] = 0
  BY <1>0, Rescales
<1>2. Len(q) = n
  <2>1. q \in [1..n -> Int]
    BY <1>1
  <2> HIDE DEF q
  <2>2. QED
    BY <2>1, ListOfInts
<1>3. c[1] = n * max - whole /\ c[2] = whole * (n - 1)
  BY <1>2 DEF ChoiceConfidence
<1> HIDE DEF d, c, q, whole
<1>4. /\ first \in 1..n /\ max \in Nat
      /\ \A j \in 1..n : q[j] <= max
  BY <1>0, <1>1, FirstMaxIs, OneHeavy
<1>5. max <= whole
  BY <1>0, <1>1, <1>4, SumPart
<1>6. whole <= n * max
  <2> DEFINE one == 1
             ones == [i \in 1..n |-> one]
             most == max
  <2>1. ones \in [1..n -> Int] /\ one \in Int /\ n * one = n
    OBVIOUS
  <2>2. \A i \in 1..n : ones[i] = 1
    OBVIOUS
  <2> HIDE DEF one
  <2>3. Sum(ones) = n
    BY <2>1, SumAlike
  <2> HIDE DEF ones
  <2>4. q \in [1..n -> Int] /\ most \in Int /\ \A i \in 1..n : q[i] <= most * ones[i]
    BY <1>1, <1>4, <2>2
  <2> HIDE DEF most
  <2>5. Sum(q) <= most * Sum(ones)
    BY <1>0, <2>1, <2>4, SumBelow
  <2>6. QED
    BY <1>1, <2>3, <2>4, <2>5 DEF most
<1>7. n * max <= n * whole /\ (n * max = n * whole => max = whole)
  <2> HIDE DEF max
  <2>1. QED
    BY <1>0, <1>1, <1>4, <1>5, Products
<1>8. whole * (n - 1) = n * whole - whole
  BY <1>1
<1>9. n * max \in Int /\ n * whole \in Int
  BY <1>1, <1>4
<1>10. max = whole <=> Cardinality(heavy) = 1
  <2> HIDE DEF heavy
  <2>1. CASE Sum(p) = 0
    <3>1. max = 1 /\ 1 \in 1..n /\ 2 \in 1..n
      BY <1>1, <1>4, <2>1
    <3>2. max # whole
      <4>1. \E j \in 1..n : j # first
        BY <1>4, <3>1
      <4>2. PICK j \in 1..n : j # first
        BY <4>1
      <4>3. q[j] + q[first] <= Sum(q)
        BY <1>0, <1>1, <1>4, <4>2, SumTwo
      <4>4. q[j] = 1 /\ q[first] = 1
        BY <1>1, <1>4, <2>1
      <4>5. QED
        BY <1>1, <3>1, <4>3, <4>4
    <3>3. Cardinality(heavy) # 1
      BY <1>0, <2>1, OneHeavy DEF heavy
    <3>4. QED
      BY <3>2, <3>3
  <2>2. CASE Sum(p) # 0
    <3>1. q = p
      BY <1>1, <2>2
    <3>2. Cardinality(heavy) = 1 <=> \A j \in 1..n : j # first => p[j] = 0
      BY <1>0, <2>2, <3>1, OneHeavy DEF heavy
    <3>3. ASSUME max = whole, NEW j \in 1..n, j # first PROVE p[j] = 0
      <4>1. q[j] + q[first] <= Sum(q) /\ q[j] \in Nat
        BY <1>0, <1>1, <1>4, <3>3, SumTwo
      <4>2. QED
        BY <1>1, <1>4, <3>1, <3>3, <4>1
    <3>4. ASSUME \A j \in 1..n : j # first => p[j] = 0 PROVE max = whole
      <4>1. Sum(q) = q[first]
        BY <1>0, <1>1, <1>4, <3>1, <3>4, SumOne
      <4>2. QED
        BY <1>1, <4>1
    <3>5. QED
      BY <3>2, <3>3, <3>4
  <2>3. QED
    BY <2>1, <2>2
<1>11. /\ c[1] \in 0..c[2]
       /\ c[1] = c[2] <=> max = whole
  <2> DEFINE nm == n * max
             nw == n * whole
             cw == whole * (n - 1)
             m == max
  <2>1. /\ nm \in Int /\ nw \in Int /\ whole \in Int /\ cw = nw - whole
        /\ whole <= nm /\ nm <= nw /\ (nm = nw <=> m = whole)
        /\ c[1] = nm - whole /\ c[2] = cw
    BY <1>1, <1>3, <1>6, <1>7, <1>8, <1>9
  <2> HIDE DEF nm, nw, cw, m
  <2>2. c[1] \in 0..c[2] /\ (c[1] = c[2] <=> m = whole)
    BY <2>1
  <2>3. QED
    BY <2>2 DEF m
<1>12. QED
  BY <1>10, <1>11 DEF c, d

\* A sum of parts that weigh nothing or more is nothing exactly if all are nothing.
LEMMA SumNone ==
  ASSUME NEW n \in Nat \ {0}, NEW p \in [1..n -> Nat]
  PROVE  Sum(p) = 0 <=> \A i \in 1..n : p[i] = 0
<1>1. ASSUME Sum(p) = 0, NEW i \in 1..n PROVE p[i] = 0
  <2>1. p[i] <= Sum(p) /\ p[i] \in Nat
    BY SumPart
  <2>2. QED
    BY <1>1, <2>1
<1>2. ASSUME \A i \in 1..n : p[i] = 0 PROVE Sum(p) = 0
  <2>1. FirstMax(p) \in 1..n /\ (Sum(p) = 0 <=> p[FirstMax(p)] = 0)
    BY OneHeavy
  <2>2. QED
    BY <1>2, <2>1
<1>3. QED
  BY <1>1, <1>2

\* A distance is a natural number, and zero only between equals.
LEMMA Distances ==
  \A a, b \in Int : Distance(a, b) \in Nat /\ (Distance(a, b) = 0 <=> a = b)
BY DEF Distance

\* A score is certain exactly if one of its levels has all the weight.
LEMMA ScoreSure ==
  ASSUME NEW n \in Nat, n >= 2, NEW p \in [1..n -> Nat]
  PROVE  LET c == ScoreConfidence(Rescale(p)) IN
         /\ c[1] \in 0..c[2]
         /\ c[1] = c[2] <=> Cardinality({k \in 1..n : p[k] > 0}) = 1
<1> DEFINE d == Rescale(p)
           q == d.parts
           whole == d.whole
           first == FirstMax(q)
           away == [i \in 1..n |-> q[i] * Distance(i, first)]
           even == [i \in 1..n |-> Distance(2 * i, n + 1)]
           spread == Sum(away)
           uniform == Sum(even)
           wu == whole * uniform
           ns == 2 * n * spread
           c == ScoreConfidence(d)
           heavy == {k \in 1..n : p[k] > 0}
<1>0. n \in Nat \ {0}
  OBVIOUS
<1>1. /\ q \in [1..n -> Nat] /\ whole \in Nat \ {0} /\ Sum(q) = whole
      /\ Sum(p) # 0 => q = p
      /\ Sum(p) = 0 => \A i \in 1..n : q[i] = 1 /\ p[i] = 0
  BY <1>0, Rescales
<1>2. Len(q) = n
  <2>1. q \in [1..n -> Int]
    BY <1>1
  <2> HIDE DEF q
  <2>2. QED
    BY <2>1, ListOfInts
<1>3. c[1] = Max({0, wu - ns}) /\ c[2] = wu
  BY <1>2 DEF ScoreConfidence
<1> HIDE DEF d, c, q, whole
<1>4. first \in 1..n
  BY <1>0, <1>1, FirstMaxIs
<1> HIDE DEF first
<1>5. away \in [1..n -> Nat]
  <2>1. ASSUME NEW i \in 1..n PROVE q[i] * Distance(i, first) \in Nat
    <3>1. q[i] \in Nat /\ i \in Int /\ first \in Int
      BY <1>1, <1>4
    <3>2. Distance(i, first) \in Nat
      BY <3>1, Distances, Zenon
    <3>3. QED
      BY <3>1, <3>2, Products
  <2>2. QED
    BY <2>1
<1>6. even \in [1..n -> Nat] /\ even[1] = n - 1
  <2>1. \A i \in 1..n : 2 * i \in Int /\ n + 1 \in Int
    OBVIOUS
  <2>2. even \in [1..n -> Nat]
    BY <2>1, Distances
  <2>3. Distance(2 * 1, n + 1) = n - 1
    BY DEF Distance
  <2>4. 1 \in 1..n
    OBVIOUS
  <2>5. QED
    BY <2>2, <2>3, <2>4
<1>7. uniform \in Nat /\ uniform > 0
  <2>1. 1 \in 1..n /\ n - 1 > 0
    OBVIOUS
  <2> DEFINE one == 1
  <2>2. one \in 1..n /\ even[one] = n - 1
    BY <1>6, <2>1
  <2> HIDE DEF one, even
  <2>3. even[one] <= Sum(even) /\ Sum(even) \in Nat
    BY <1>0, <1>6, <2>2, SumPart, SumNat
  <2>4. QED
    BY <2>1, <2>2, <2>3
<1>8. spread \in Nat
  <2> HIDE DEF away
  <2>1. QED
    BY <1>0, <1>5, SumNat
<1>9. spread = 0 <=> \A i \in 1..n : i # first => q[i] = 0
  <2>1. \A i \in 1..n : away[i] = 0 <=> i = first \/ q[i] = 0
    <3>1. SUFFICES ASSUME NEW i \in 1..n
                   PROVE  q[i] * Distance(i, first) = 0 <=> i = first \/ q[i] = 0
      OBVIOUS
    <3>2. q[i] \in Nat /\ i \in Int /\ first \in Int
      BY <1>1, <1>4
    <3>3. Distance(i, first) \in Nat /\ (Distance(i, first) = 0 <=> i = first)
      BY <3>2, Distances, Zenon
    <3>4. QED
      BY <3>2, <3>3, Products
  <2> HIDE DEF away
  <2>2. spread = 0 <=> \A i \in 1..n : away[i] = 0
    BY <1>0, <1>5, SumNone
  <2>3. QED
    BY <2>1, <2>2
<1> HIDE DEF uniform, spread
<1>10. wu \in Nat /\ wu > 0
  BY <1>1, <1>7, Products
<1>11. ns \in Nat /\ (ns = 0 <=> spread = 0)
  <2>1. 2 * n \in Nat /\ 2 * n # 0
    OBVIOUS
  <2> DEFINE tn == 2 * n
  <2>2. tn * spread \in Nat /\ (tn * spread = 0 <=> tn = 0 \/ spread = 0)
    <3> HIDE DEF tn
    <3>1. tn \in Nat
      BY <2>1 DEF tn
    <3>2. QED
      BY <1>8, <3>1, Products
  <2>3. QED
    BY <2>1, <2>2
<1> HIDE DEF wu, ns
<1>12. /\ c[1] \in 0..c[2]
       /\ c[1] = c[2] <=> spread = 0
  <2> DEFINE left == wu - ns
             S == {0, left}
             m == Max(S)
  <2>1. left \in Int /\ left <= wu /\ (left = wu <=> spread = 0)
    BY <1>10, <1>11
  <2>2. \E x \in S : \A y \in S : x >= y
    <3>1. CASE left >= 0
      BY <2>1, <3>1
    <3>2. CASE left < 0
      BY <2>1, <3>2
    <3>3. QED
      BY <2>1, <3>1, <3>2
  <2> HIDE DEF S
  <2>3. m \in S /\ \A y \in S : m >= y
    BY <2>2 DEF Max
  <2>4. m = 0 \/ m = left
    BY <2>3 DEF S
  <2>5. m >= 0 /\ m >= left
    BY <2>3 DEF S
  <2> HIDE DEF m, left
  <2>6. m \in 0..wu /\ (m = wu <=> left = wu)
    BY <1>10, <2>1, <2>4, <2>5
  <2>7. c[1] = m /\ c[2] = wu
    BY <1>3 DEF m, S, left
  <2>8. QED
    BY <2>1, <2>6, <2>7
<1>13. spread = 0 <=> Cardinality(heavy) = 1
  <2> HIDE DEF heavy
  <2>1. CASE Sum(p) = 0
    <3>1. \A i \in 1..n : q[i] # 0
      BY <1>1, <2>1
    <3>2. 1 \in 1..n /\ 2 \in 1..n
      OBVIOUS
    <3>3. \E i \in 1..n : i # first
      BY <3>2
    <3>4. spread # 0
      BY <1>9, <3>1, <3>3
    <3>5. Cardinality(heavy) # 1
      BY <1>0, <2>1, OneHeavy DEF heavy
    <3>6. QED
      BY <3>4, <3>5
  <2>2. CASE Sum(p) # 0
    <3>1. q = p
      BY <1>1, <2>2
    <3>2. first = FirstMax(p)
      BY <3>1 DEF first
    <3>3. Cardinality(heavy) = 1 <=> \A j \in 1..n : j # first => p[j] = 0
      BY <1>0, <2>2, <3>2, OneHeavy DEF heavy
    <3>4. QED
      BY <1>9, <3>1, <3>3
  <2>3. QED
    BY <2>1, <2>2
<1>14. QED
  BY <1>12, <1>13 DEF c, d

\* A score lies among the levels that have weight.
LEMMA ScoreWithin ==
  ASSUME NEW n \in Nat \ {0}, NEW p \in [1..n -> Nat]
  PROVE  LET s == ExpectedScore(Rescale(p)) IN
         \E low, high \in 1..n :
           /\ Sum(p) = 0 \/ (p[low] > 0 /\ p[high] > 0)
           /\ s[1] >= (low - 1) * s[2]
           /\ s[1] <= (high - 1) * s[2]
<1> DEFINE d == Rescale(p)
           q == d.parts
           whole == d.whole
           at == [i \in 1..n |-> (i - 1) * q[i]]
           s == ExpectedScore(d)
           heavy == {k \in 1..n : q[k] > 0}
<1>1. /\ q \in [1..n -> Nat] /\ whole \in Nat \ {0} /\ Sum(q) = whole
      /\ Sum(p) # 0 => q = p
  BY Rescales
<1>2. s[1] = Sum(at) /\ s[2] = whole
  <2>1. DOMAIN q = 1..n
    BY <1>1
  <2>2. s = <<Sum([i \in DOMAIN q |-> (i - 1) * q[i]]), whole>>
    BY DEF ExpectedScore
  <2>3. QED
    BY <2>1, <2>2
<1> HIDE DEF d, q, whole, s
<1>3. at \in [1..n -> Int] /\ q \in [1..n -> Int]
  BY <1>1
<1>4. \A i \in 1..n : at[i] = (i - 1) * q[i] /\ q[i] \in Nat
  BY <1>1
<1> HIDE DEF at
<1>5. heavy # {} /\ heavy \in SUBSET (0..n) /\ heavy \in SUBSET Nat
  <2>1. FirstMax(q) \in 1..n /\ q[FirstMax(q)] \in Nat /\ (Sum(q) = 0 <=> q[FirstMax(q)] = 0)
    BY <1>1, OneHeavy
  <2>2. QED
    BY <1>1, <2>1
<1>6. PICK low \in heavy : \A k \in heavy : low <= k
  <2> HIDE DEF heavy
  <2>1. QED
    BY <1>5, Least
<1>7. PICK high \in heavy : \A k \in heavy : k <= high
  <2> HIDE DEF heavy
  <2>1. QED
    BY <1>5, Greatest
<1>8. low \in 1..n /\ high \in 1..n /\ q[low] > 0 /\ q[high] > 0
  BY <1>6, <1>7
<1> DEFINE first == low - 1
           last == high - 1
<1>9. first \in Int /\ last \in Int
  BY <1>8
<1>10. ASSUME NEW i \in 1..n PROVE first * q[i] <= at[i] /\ at[i] <= last * q[i]
  <2>1. CASE q[i] = 0
    BY <1>4, <1>8, <2>1
  <2>2. CASE q[i] # 0
    <3>0. i \in heavy
      <4>1. q[i] \in Nat
        BY <1>4
      <4>2. q[i] > 0
        BY <2>2, <4>1
      <4>3. QED
        BY <4>2
    <3>1. low <= i /\ i <= high
      BY <1>6, <1>7, <3>0, Zenon
    <3> DEFINE x == q[i]
               y == i - 1
    <3>2. x \in Nat /\ first \in Nat /\ last \in Nat /\ y \in Nat /\ first <= y /\ y <= last
      BY <1>4, <1>8, <3>1
    <3>3. at[i] = y * x
      BY <1>4
    <3> HIDE DEF x, y, first, last
    <3>4. x * first <= x * y /\ x * y <= x * last
      BY <3>2, Products
    <3>5. x * first = first * x /\ x * y = y * x /\ x * last = last * x
      BY <3>2
    <3>6. QED
      BY <3>3, <3>4, <3>5 DEF x
  <2>3. QED
    BY <2>1, <2>2
<1> HIDE DEF first, last
<1>11. first * Sum(q) <= Sum(at)
  BY <1>3, <1>9, <1>10, SumAbove
<1>12. Sum(at) <= last * Sum(q)
  BY <1>3, <1>9, <1>10, SumBelow
<1>13. s[1] >= (low - 1) * s[2] /\ s[1] <= (high - 1) * s[2]
  <2>1. first * whole \in Int /\ last * whole \in Int /\ Sum(at) \in Int
    BY <1>1, <1>3, <1>9, SumTyped
  <2>2. Sum(at) >= first * whole /\ Sum(at) <= last * whole
    BY <1>1, <1>11, <1>12, <2>1
  <2>3. QED
    BY <1>2, <2>2 DEF first, last
<1>14. Sum(p) = 0 \/ (p[low] > 0 /\ p[high] > 0)
  BY <1>1, <1>8
<1>15. QED
  BY <1>8, <1>13, <1>14 DEF s, d

\* The first of the largest parts is the least of the places of the largest.
LEMMA FirstIsLeast ==
  ASSUME NEW n \in Nat \ {0}, NEW p \in [1..n -> Nat]
  PROVE  FirstMax(p) = Min({k \in 1..n : \A l \in 1..n : p[l] <= p[k]})
<1> DEFINE first == FirstMax(p)
           likeliest == {k \in 1..n : \A l \in 1..n : p[l] <= p[k]}
<1>1. /\ first \in 1..n
      /\ \A j \in 1..n : p[j] <= p[first] /\ (p[j] = p[first] => first <= j)
  BY FirstMaxIs
<1> HIDE DEF first
<1>2. \A k \in 1..n : p[k] \in Nat
  OBVIOUS
<1>3. first \in likeliest
  BY <1>1
<1>4. \A k \in likeliest : first <= k /\ k \in Nat
  BY <1>1, <1>2
<1> HIDE DEF likeliest
<1>5. \A x \in likeliest : (\A y \in likeliest : x <= y) => x = first
  BY <1>3, <1>4
<1>6. \E x \in likeliest : \A y \in likeliest : x <= y
  BY <1>3, <1>4
<1>7. Min(likeliest) = first
  BY <1>5, <1>6 DEF Min
<1>8. QED
  BY <1>7 DEF likeliest, first

\* What each outcome of a question weighs in an answer.
WeightsOf(q, v) ==
  [k \in DOMAIN Labels(q) |->
     IF v.json = "object" THEN LastOf(v.members, Labels(q)[k]).parts
     ELSE IF v.json = "string" THEN IF v.text = Labels(q)[k] THEN Unit ELSE 0
     ELSE IF v.parts = (k - 1) * Unit THEN Unit ELSE 0]

\* A distribution as it is reported of these weights.
Reports(w, enabled, N) ==
  LET misses == Distance(Sum(w), Unit) > Tolerance
      p == N.probabilities.parts
      whole == N.probabilities.whole
  IN /\ N \in Normalizations
     /\ DOMAIN p = DOMAIN w /\ \A k \in DOMAIN w : p[k] \in Nat
     /\ IF enabled /\ misses
          THEN /\ Sum(p) = whole
               /\ \A k, l \in DOMAIN p : p[k] * w[l] = p[l] * w[k]
               /\ N.original = w /\ w # None
          ELSE /\ \A k \in DOMAIN p : p[k] * Unit = w[k] * whole
               /\ N.original = None
     /\ N.error > Tolerance <=> misses

\* The weights a model gives are reported as given or, if asked for, rescaled.
LEMMA Normalizes ==
  ASSUME NEW n \in Nat \ {0}, NEW w \in [1..n -> Nat], NEW enabled \in BOOLEAN
  PROVE  Reports(w, enabled, Normalize(w, enabled))
<1> DEFINE error == Distance(Sum(w), Unit)
           d == Rescale(w)
           N == Normalize(w, enabled)
<1>1. Unit \in Nat \ {0} /\ Tolerance \in Nat
  BY AnswersAssumption
<1>2. Sum(w) \in Nat
  BY SumNat
<1>3. error \in Nat
  <2>1. Sum(w) \in Int /\ Unit \in Int
    BY <1>1, <1>2
  <2>2. QED
    BY <2>1, Distances, Zenon
<1>4. w \in Seq(Nat) /\ DOMAIN w = 1..n
  BY Sequences
<1>5. /\ d.parts \in [1..n -> Nat] /\ d.whole \in Nat \ {0} /\ Sum(d.parts) = d.whole
      /\ Sum(w) # 0 => d.parts = w
      /\ Sum(w) = 0 => \A i \in 1..n : d.parts[i] = 1 /\ w[i] = 0
  BY Rescales
<1>6. error <= Tolerance <=> ~(error > Tolerance)
  BY <1>1, <1>3
<1>7. d = [parts |-> d.parts, whole |-> d.whole]
  BY DEF Rescale
<1>8. CASE enabled /\ error > Tolerance
  <2>1. N = [probabilities |-> d, error |-> error, original |-> w]
    BY <1>6, <1>8 DEF Normalize
  <2>2. d \in [parts : Seq(Nat), whole : Nat]
    <3> DEFINE q == d.parts
               m == d.whole
    <3>1. q \in Seq(Nat) /\ m \in Nat /\ d = [parts |-> q, whole |-> m]
      BY <1>5, <1>7, Sequences
    <3> HIDE DEF q, m, d
    <3>2. QED
      BY <3>1
  <2>3. \A k, l \in 1..n : d.parts[k] * w[l] = d.parts[l] * w[k]
    <3>1. CASE Sum(w) = 0
      BY <1>5, <3>1
    <3>2. CASE Sum(w) # 0
      <4>1. d.parts = w /\ \A k \in 1..n : w[k] \in Int
        BY <1>5, <3>2
      <4> DEFINE q == d.parts
      <4> HIDE DEF q, d
      <4>2. \A a, b \in Int : a * b = b * a
        OBVIOUS
      <4>3. \A k, l \in 1..n : w[k] * w[l] = w[l] * w[k]
        BY <4>1, <4>2
      <4>4. QED
        BY <4>1, <4>3
    <3>3. QED
      BY <3>1, <3>2
  <2>4. \A k \in 1..n : d.parts[k] \in Nat
    BY <1>5
  <2>5. DOMAIN d.parts = 1..n
    BY <1>5
  <2> HIDE DEF d, error
  <2>6. N \in Normalizations
    BY <1>3, <1>4, <2>1, <2>2 DEF Normalizations
  <2>7. N.probabilities = d /\ N.error = error /\ N.original = w /\ w # None
    BY <1>4, <2>1, AnswersAssumption
  <2> HIDE DEF N
  <2>8. QED
    BY <1>4, <1>5, <1>8, <2>3, <2>4, <2>5, <2>6, <2>7 DEF Reports, error, N
<1>9. CASE ~(enabled /\ error > Tolerance)
  <2>1. N = [probabilities |-> [parts |-> w, whole |-> Unit], error |-> error, original |-> None]
    BY <1>6, <1>9 DEF Normalize
  <2> HIDE DEF error
  <2>2. N \in Normalizations
    BY <1>1, <1>3, <1>4, <2>1 DEF Normalizations
  <2>3. /\ N.probabilities.parts = w /\ N.probabilities.whole = Unit
        /\ N.error = error /\ N.original = None
    BY <2>1
  <2>4. \A k \in 1..n : w[k] \in Nat
    OBVIOUS
  <2> HIDE DEF N
  <2>5. QED
    BY <1>4, <1>9, <2>2, <2>3, <2>4 DEF Reports, error, N
<1>10. QED
  BY <1>8, <1>9

\* An outcome that is named is reported with all the weight.
LEMMA Names ==
  ASSUME NEW n \in Nat \ {0}, NEW k \in 1..n, NEW w, NEW enabled,
         w = [i \in 1..n |-> IF i = k THEN Unit ELSE 0]
  PROVE  Reports(w, enabled, OneHot(n, k))
<1> DEFINE p == [i \in 1..n |-> IF i = k THEN 1 ELSE 0]
           N == OneHot(n, k)
<1>1. Unit \in Nat \ {0} /\ Tolerance \in Nat
  BY AnswersAssumption
<1>2. p \in Seq(Nat) /\ DOMAIN p = 1..n /\ \A i \in 1..n : p[i] = IF i = k THEN 1 ELSE 0
  <2>1. p \in [1..n -> Nat]
    OBVIOUS
  <2>2. p \in Seq(Nat)
    BY <2>1, Sequences
  <2>3. QED
    BY <2>2
<1>3. N = [probabilities |-> [parts |-> p, whole |-> 1], error |-> 0, original |-> None]
  BY DEF OneHot
<1> HIDE DEF p
<1>4. N \in Normalizations
  BY <1>2, <1>3 DEF Normalizations
<1>5. /\ N.probabilities.parts = p /\ N.probabilities.whole = 1
      /\ N.error = 0 /\ N.original = None
  BY <1>3
<1> HIDE DEF N
<1>6. Sum(w) = Unit
  <2>1. w \in [1..n -> Nat] /\ w[k] = Unit /\ \A j \in 1..n : j # k => w[j] = 0
    BY <1>1
  <2>2. Sum(w) = w[k]
    BY <2>1, SumOne
  <2>3. QED
    BY <2>1, <2>2
<1>7. Distance(Sum(w), Unit) = 0
  BY <1>1, <1>6 DEF Distance
<1>8. ~(0 > Tolerance)
  BY <1>1
<1>9. \A i \in 1..n : p[i] \in Nat /\ p[i] * Unit = w[i] * 1
  BY <1>1, <1>2
<1>10. DOMAIN w = 1..n
  OBVIOUS
<1>11. QED
  BY <1>2, <1>4, <1>5, <1>7, <1>8, <1>9, <1>10 DEF Reports, N

\* What an answer that fits its question weighs is what is reported of it.
LEMMA Weighs ==
  ASSUME NEW q, Outlined(q), q.kind # "noul", Len(q.outcomes) >= 2, NEW mode \in Modes,
         NEW v \in Json, Fitting(q, mode, v), NEW enabled \in BOOLEAN
  PROVE  /\ Reports(WeightsOf(q, v), enabled, NormalizationOf(q, mode, Meaning(q, mode, v), enabled))
         /\ DOMAIN WeightsOf(q, v) = 1..Len(q.outcomes)
<1> DEFINE n == Len(q.outcomes)
           w == WeightsOf(q, v)
           m == Meaning(q, mode, v)
<1>1. n \in Nat \ {0} /\ DOMAIN Labels(q) = 1..n /\ \A i \in 1..n : Labels(q)[i] = q.outcomes[i].label
  BY LabelsAre
<1>2. DOMAIN w = 1..n
  BY <1>1 DEF WeightsOf
<1>3. q.kind \in {"choice", "score"}
  BY DEF Outlined, Kinds
<1>4. CASE mode = "probabilities"
  <2>1. IsMap(q, mode)
    BY <1>4 DEF IsMap
  <2>2. /\ IsReadable(v)
        /\ \A i \in DOMAIN Labels(q) : IsNumberIn(LastOf(v.members, Labels(q)[i]))
    BY <1>4 DEF Fitting, IsMap
  <2>3. v.json = "object"
    BY <2>2 DEF IsReadable
  <2>4. m = [i \in DOMAIN Labels(q) |-> LastOf(v.members, Labels(q)[i]).parts]
    BY <1>4 DEF Meaning, IsMap
  <2>5. w = m
    BY <2>3, <2>4 DEF WeightsOf
  <2>6. \A i \in 1..n : LastOf(v.members, Labels(q)[i]).parts \in Nat
    BY <1>1, <2>2, AnswersAssumption DEF IsNumberIn
  <2>7. w \in [1..n -> Nat]
    <3> HIDE DEF n
    <3>1. QED
      BY <1>1, <2>4, <2>5, <2>6
  <2>8. NormalizationOf(q, mode, m, enabled) = Normalize(m, enabled)
    BY <1>4 DEF NormalizationOf, IsMap
  <2> HIDE DEF w, m, n
  <2>9. Reports(w, enabled, Normalize(w, enabled))
    BY <1>1, <2>7, Normalizes
  <2>10. QED
    BY <1>2, <2>5, <2>8, <2>9 DEF w, m, n
<1>5. CASE mode = "discrete"
  <2>1. ~IsMap(q, mode)
    BY <1>5 DEF IsMap
  <2>2. NormalizationOf(q, mode, m, enabled) = OneHot(n, m)
    BY <1>5, <2>1 DEF NormalizationOf
  <2>3. m \in 1..n /\ w = [i \in 1..n |-> IF i = m THEN Unit ELSE 0]
    <3>1. CASE q.kind = "choice"
      <4>1. v.json = "string" /\ v.text \in ToSet(Labels(q))
        BY <1>5, <2>1, <3>1 DEF Fitting
      <4>2. m = CHOOSE i \in DOMAIN Labels(q) : Labels(q)[i] = v.text
        BY <1>5, <2>1, <3>1 DEF Meaning
      <4>3. \E i \in DOMAIN Labels(q) : Labels(q)[i] = v.text
        BY <4>1 DEF ToSet
      <4> HIDE DEF m, n
      <4>4. m \in 1..n /\ Labels(q)[m] = v.text
        BY <1>1, <4>2, <4>3
      <4>5. \A i \in 1..n : v.text = Labels(q)[i] <=> i = m
        BY <1>1, <3>1, <4>4 DEF Outlined, n
      <4>6. w = [i \in 1..n |-> IF v.text = Labels(q)[i] THEN Unit ELSE 0]
        BY <1>1, <4>1 DEF WeightsOf
      <4>7. QED
        BY <4>4, <4>5, <4>6
    <3>2. CASE q.kind = "score"
      <4>1. v.json = "number" /\ v.integer /\ v.parts \div Unit \in 0..(n - 1)
        BY <1>5, <2>1, <3>2 DEF Fitting
      <4>2. m = v.parts \div Unit + 1
        BY <1>5, <2>1, <3>2 DEF Meaning
      <4>3. v.parts \in Int /\ v.parts % Unit = 0
        BY <4>1, JsonAssumption
      <4> DEFINE parts == v.parts
                 level == v.parts \div Unit
      <4>4. level \in Int /\ parts = Unit * level
        BY <1>1, <4>3, LevelIn
      <4>5. Unit \in Nat \ {0} /\ parts \in Int
        BY <4>3, AnswersAssumption
      <4>6. w = [i \in 1..n |-> IF parts = (i - 1) * Unit THEN Unit ELSE 0]
        BY <1>1, <4>1 DEF WeightsOf
      <4>7. level \in 0..(n - 1) /\ m = level + 1
        BY <4>1, <4>2
      <4> HIDE DEF m, n, w, parts, level
      <4>8. ASSUME NEW i \in 1..n PROVE parts = (i - 1) * Unit <=> i = m
        <5> DEFINE j == i - 1
        <5>1. j \in Int /\ (i = m <=> level = j)
          BY <1>1, <4>4, <4>7
        <5> HIDE DEF j
        <5>2. Unit * level = Unit * j <=> level = j
          BY <4>4, <4>5, <5>1, Times
        <5>3. Unit * j = j * Unit
          BY <4>5, <5>1
        <5>4. QED
          BY <4>4, <5>1, <5>2, <5>3 DEF j
      <4>9. m \in 1..n
        BY <1>1, <4>7
      <4>10. QED
        BY <4>6, <4>8, <4>9
    <3>3. QED
      BY <1>3, <3>1, <3>2
  <2> HIDE DEF w, m, n
  <2>4. Reports(w, enabled, OneHot(n, m))
    BY <1>1, <2>3, Names
  <2>5. QED
    BY <1>2, <2>2, <2>4 DEF w, m, n
<1>6. QED
  BY <1>4, <1>5 DEF Modes

-----------------------------------------------------------------------------
(* The answers. *)

\* What AnswersTell says of one question: of its answer v, the converted answer a,
\* and the values the debug information has under the name of the question.
Telling(q, mode, v, enabled, a, errors, originals) ==
  LET p == a.probabilities.parts
      whole == a.probabilities.whole
      labels == Labels(q)
      weights == WeightsOf(q, v)
      misses == Distance(Sum(weights), Unit) > Tolerance
      likeliest == {k \in DOMAIN p : \A l \in DOMAIN p : p[l] <= p[k]}
  IN IF q.kind = "noul"
       THEN a.probability = IF mode = "probabilities" THEN <<v.parts, Unit>>
                            ELSE IF v.is THEN <<1, 1>> ELSE <<0, 1>>
       ELSE /\ IF enabled /\ misses
                 THEN /\ Sum(p) = whole
                      /\ \A k, l \in DOMAIN p : p[k] * weights[l] = p[l] * weights[k]
                      /\ q.id \in DOMAIN originals
                      /\ originals[q.id] = weights
                 ELSE /\ \A k \in DOMAIN p : p[k] * Unit = weights[k] * whole
                      /\ q.id \notin DOMAIN originals
            /\ q.id \in DOMAIN errors <=> misses
            /\ a.confidence[1] \in 0..a.confidence[2]
            /\ a.confidence[1] = a.confidence[2] <=> Cardinality({k \in DOMAIN p : p[k] > 0}) = 1
            /\ q.kind = "choice" => a.choice = labels[Min(likeliest)]
            /\ q.kind = "score" =>
                 \E low, high \in DOMAIN p :
                   /\ Sum(p) = 0 \/ (p[low] > 0 /\ p[high] > 0)
                   /\ a.score[1] >= (low - 1) * a.score[2]
                   /\ a.score[1] <= (high - 1) * a.score[2]

\* The numbers drawn from a distribution.
LEMMA Draws ==
  ASSUME NEW q, Outlined(q), q.kind # "noul", Len(q.outcomes) >= 2, NEW mode \in Modes,
         NEW v \in Json, Fitting(q, mode, v), NEW enabled \in BOOLEAN
  PROVE  LET a == ConvertAnswer(q, mode, Meaning(q, mode, v), enabled)
             p == a.probabilities.parts
             N == NormalizationOf(q, mode, Meaning(q, mode, v), enabled)
             likeliest == {k \in DOMAIN p : \A l \in DOMAIN p : p[l] <= p[k]}
         IN /\ a.probabilities = N.probabilities
            /\ a.confidence[1] \in 0..a.confidence[2]
            /\ a.confidence[1] = a.confidence[2] <=> Cardinality({k \in DOMAIN p : p[k] > 0}) = 1
            /\ q.kind = "choice" => a.choice = Labels(q)[Min(likeliest)]
            /\ q.kind = "score" =>
                 \E low, high \in DOMAIN p :
                   /\ Sum(p) = 0 \/ (p[low] > 0 /\ p[high] > 0)
                   /\ a.score[1] >= (low - 1) * a.score[2]
                   /\ a.score[1] <= (high - 1) * a.score[2]
<1> DEFINE n == Len(q.outcomes)
           m == Meaning(q, mode, v)
           N == NormalizationOf(q, mode, m, enabled)
           reported == N.probabilities
           p == reported.parts
           d == Rescale(p)
           a == ConvertAnswer(q, mode, m, enabled)
<1>1. n \in Nat \ {0} /\ n \in Nat /\ n >= 2
  BY LabelsAre
<1>2. DOMAIN p = 1..n /\ \A k \in 1..n : p[k] \in Nat
  BY Weighs DEF Reports
<1>3. p \in [1..n -> Nat]
  <2>1. N \in Normalizations
    BY Weighs DEF Reports
  <2>2. p \in Seq(Nat)
    <3> HIDE DEF N
    <3>1. QED
      BY <2>1 DEF Normalizations
  <2> HIDE DEF p, n
  <2>3. p = [k \in DOMAIN p |-> p[k]]
    BY <2>2
  <2>4. QED
    BY <1>2, <2>3
<1>4. CASE q.kind = "choice"
  <2>1. a = [kind |-> "choice", choice |-> Labels(q)[FirstMax(p)],
             confidence |-> ChoiceConfidence(d), probabilities |-> reported]
    BY <1>4 DEF ConvertAnswer
  <2> HIDE DEF a, N
  <2>2. /\ a.probabilities = reported /\ a.confidence = ChoiceConfidence(d)
        /\ a.choice = Labels(q)[FirstMax(p)]
    BY <2>1
  <2> HIDE DEF reported
  <2> DEFINE c == ChoiceConfidence(d)
  <2>3. c[1] \in 0..c[2] /\ (c[1] = c[2] <=> Cardinality({k \in 1..n : p[k] > 0}) = 1)
    <3> HIDE DEF p, n
    <3>1. QED
      BY <1>1, <1>3, ChoiceSure
  <2>4. FirstMax(p) = Min({k \in 1..n : \A l \in 1..n : p[l] <= p[k]})
    <3> HIDE DEF p, n
    <3>1. QED
      BY <1>1, <1>3, FirstIsLeast
  <2> HIDE DEF n, c, d
  <2>5. a.probabilities.parts = p /\ a.confidence = c
    BY <2>2 DEF c
  <2>6. q.kind # "score"
    BY <1>4
  <2>7. QED
    BY <1>2, <2>2, <2>3, <2>4, <2>5, <2>6 DEF a, N, m, reported
<1>5. CASE q.kind = "score"
  <2>1. /\ a.probabilities = reported /\ a.confidence = ScoreConfidence(d)
        /\ a.score = ExpectedScore(d)
    BY <1>5 DEF ConvertAnswer
  <2> HIDE DEF a, N
  <2> HIDE DEF reported
  <2> DEFINE c == ScoreConfidence(d)
             s == ExpectedScore(d)
  <2>2. c[1] \in 0..c[2] /\ (c[1] = c[2] <=> Cardinality({k \in 1..n : p[k] > 0}) = 1)
    <3> HIDE DEF p, n
    <3>1. QED
      BY <1>1, <1>3, ScoreSure
  <2>3. \E low, high \in 1..n :
           /\ Sum(p) = 0 \/ (p[low] > 0 /\ p[high] > 0)
           /\ s[1] >= (low - 1) * s[2]
           /\ s[1] <= (high - 1) * s[2]
    <3> HIDE DEF p, n
    <3>1. QED
      BY <1>1, <1>3, ScoreWithin
  <2> HIDE DEF n, c, s, d
  <2>4. a.probabilities.parts = p /\ a.confidence = c /\ a.score = s
    BY <2>1 DEF c, s
  <2>5. q.kind # "choice"
    BY <1>5
  <2>6. QED
    BY <1>2, <2>1, <2>2, <2>3, <2>4, <2>5 DEF a, N, m, reported
<1>6. QED
  BY <1>4, <1>5 DEF Outlined, Kinds

\* Each question of a converted reply has its own answer, and its own place in
\* the debug information.
LEMMA Converts ==
  ASSUME NEW qs, AllQuestions(qs), NEW mode \in Modes, NEW enabled \in BOOLEAN, NEW given,
         \A k \in DOMAIN qs : given[k] \in Json /\ Fitting(qs[k], mode, given[k])
  PROVE  LET values == [k \in DOMAIN qs |-> Meaning(qs[k], mode, given[k])]
             c == Convert(qs, mode, values, enabled)
         IN \A k \in DOMAIN qs :
              Telling(qs[k], mode, given[k], enabled, c.answers[qs[k].id],
                      c.probabilities.errors, c.probabilities.originals)
<1> DEFINE values == [k \in DOMAIN qs |-> Meaning(qs[k], mode, given[k])]
           c == Convert(qs, mode, values, enabled)
           Ns == [i \in DOMAIN qs |-> NormalizationOf(qs[i], mode, values[i], enabled)]
           maps == {i \in DOMAIN qs : Ns[i] # None}
           missed == {i \in maps : Ns[i].error > Tolerance}
           rescaled == {i \in maps : Ns[i].original # None}
           errors == c.probabilities.errors
           originals == c.probabilities.originals
<1>1. \A j, k \in DOMAIN qs : qs[j].id = qs[k].id => j = k
  BY DEF AllQuestions
<1>2. \A k \in DOMAIN qs : values[k] = Meaning(qs[k], mode, given[k])
  OBVIOUS
<1>3. /\ c.answers = [id \in {qs[i].id : i \in DOMAIN qs} |->
                        ConvertAnswer(qs[CHOOSE j \in DOMAIN qs : qs[j].id = id], mode,
                                      values[CHOOSE j \in DOMAIN qs : qs[j].id = id], enabled)]
      /\ c.probabilities = ProbabilityDebug(qs, Ns)
  BY DEF Convert
<1> HIDE DEF values
<1>4. /\ errors = [id \in {qs[i].id : i \in missed} |->
                     Ns[CHOOSE i \in missed : qs[i].id = id].error]
      /\ originals = [id \in {qs[i].id : i \in rescaled} |->
                        Ns[CHOOSE i \in rescaled : qs[i].id = id].original]
  <2> HIDE DEF Ns, c
  <2>1. QED
    BY <1>3 DEF ProbabilityDebug
<1>5. \A k \in DOMAIN qs : Ns[k] = NormalizationOf(qs[k], mode, values[k], enabled)
  OBVIOUS
<1>6. DOMAIN Ns = DOMAIN qs
  OBVIOUS
<1> HIDE DEF c, Ns
<1> SUFFICES ASSUME NEW k \in DOMAIN qs
             PROVE  Telling(qs[k], mode, given[k], enabled, c.answers[qs[k].id], errors, originals)
  BY DEF values, c
<1> DEFINE q == qs[k]
           v == given[k]
           m == Meaning(q, mode, v)
           N == NormalizationOf(q, mode, m, enabled)
           a == ConvertAnswer(q, mode, m, enabled)
           w == WeightsOf(q, v)
           misses == Distance(Sum(w), Unit) > Tolerance
<1>7. c.answers[q.id] = a
  <2>1. (CHOOSE j \in DOMAIN qs : qs[j].id = q.id) = k
    BY <1>1
  <2>2. q.id \in {qs[i].id : i \in DOMAIN qs}
    OBVIOUS
  <2> DEFINE it(id) == CHOOSE j \in DOMAIN qs : qs[j].id = id
             give(i) == ConvertAnswer(qs[i], mode, values[i], enabled)
  <2>3. c.answers = [id \in {qs[i].id : i \in DOMAIN qs} |-> give(it(id))]
    BY <1>3
  <2>4. give(k) = a
    BY <1>2
  <2>5. it(q.id) = k
    BY <2>1
  <2> HIDE DEF it, give, a
  <2>6. c.answers[q.id] = give(it(q.id))
    BY <2>2, <2>3
  <2>7. QED
    BY <2>4, <2>5, <2>6
<1>8. Ns[k] = N
  BY <1>2, <1>5
<1>9. q.id \in DOMAIN errors <=> k \in missed
  <2>1. DOMAIN errors = {qs[i].id : i \in missed}
    BY <1>4
  <2>2. missed \subseteq DOMAIN qs
    OBVIOUS
  <2> HIDE DEF missed, errors
  <2>3. QED
    BY <1>1, <2>1, <2>2
<1>10. /\ q.id \in DOMAIN originals <=> k \in rescaled
       /\ k \in rescaled => originals[q.id] = Ns[k].original
  <2>1. rescaled \subseteq DOMAIN qs
    OBVIOUS
  <2> HIDE DEF rescaled, originals
  <2>2. q.id \in DOMAIN originals <=> k \in rescaled
    BY <1>1, <1>4, <2>1
  <2>3. ASSUME k \in rescaled PROVE originals[q.id] = Ns[k].original
    <3>1. (CHOOSE i \in rescaled : qs[i].id = q.id) = k
      BY <1>1, <2>1, <2>3
    <3>2. QED
      BY <1>4, <2>3, <3>1
  <2>4. QED
    BY <2>2, <2>3
<1>11. Outlined(q) /\ (q.kind # "noul" => Len(q.outcomes) >= 2)
  BY DEF AllQuestions
<1>12. v \in Json /\ Fitting(q, mode, v)
  OBVIOUS
<1> HIDE DEF errors, originals, missed, rescaled, maps
<1>13. CASE q.kind = "noul"
  <2>1. a.probability = IF mode = "probabilities" THEN <<m, Unit>>
                        ELSE <<IF m THEN 1 ELSE 0, 1>>
    BY <1>13 DEF ConvertAnswer
  <2>2. m = IF mode = "probabilities" THEN v.parts ELSE v.is
    BY <1>13 DEF Meaning, IsMap, Modes
  <2>3. mode # "probabilities" => v.is \in BOOLEAN
    <3>1. mode # "probabilities" => v.json = "boolean"
      BY <1>12, <1>13 DEF Fitting, IsMap, Modes
    <3>2. QED
      BY <1>12, <3>1, JsonAssumption
  <2>4. a.probability = IF mode = "probabilities" THEN <<v.parts, Unit>>
                        ELSE IF v.is THEN <<1, 1>> ELSE <<0, 1>>
    <3> HIDE DEF m, a
    <3>1. CASE mode = "probabilities"
      BY <2>1, <2>2, <3>1
    <3>2. CASE mode # "probabilities" /\ v.is
      BY <2>1, <2>2, <3>2
    <3>3. CASE mode # "probabilities" /\ ~v.is
      BY <2>1, <2>2, <3>3
    <3>4. QED
      BY <3>1, <3>2, <3>3
  <2> HIDE DEF a
  <2>5. QED
    BY <1>7, <1>13, <2>4 DEF Telling
<1>14. CASE q.kind # "noul"
  <2>1. Reports(w, enabled, N)
    BY <1>11, <1>12, <1>14, Weighs
  <2> DEFINE p == a.probabilities.parts
             whole == a.probabilities.whole
             likeliest == {i \in DOMAIN p : \A l \in DOMAIN p : p[l] <= p[i]}
  <2>2. /\ a.probabilities = N.probabilities
        /\ a.confidence[1] \in 0..a.confidence[2]
        /\ a.confidence[1] = a.confidence[2] <=> Cardinality({i \in DOMAIN p : p[i] > 0}) = 1
        /\ q.kind = "choice" => a.choice = Labels(q)[Min(likeliest)]
        /\ q.kind = "score" =>
             \E low, high \in DOMAIN p :
               /\ Sum(p) = 0 \/ (p[low] > 0 /\ p[high] > 0)
               /\ a.score[1] >= (low - 1) * a.score[2]
               /\ a.score[1] <= (high - 1) * a.score[2]
    BY <1>11, <1>12, <1>14, Draws
  <2>3. k \in maps
    <3>1. N # None
      BY <2>1, AnswersAssumption DEF Reports
    <3>2. QED
      BY <1>8, <3>1 DEF maps
  <2>4. q.id \in DOMAIN errors <=> misses
    <3>1. N.error > Tolerance <=> misses
      BY <2>1 DEF Reports
    <3>2. QED
      BY <1>8, <1>9, <2>3, <3>1 DEF missed
  <2>5. k \in rescaled <=> N.original # None
    BY <1>8, <2>3 DEF rescaled
  <2>6. IF enabled /\ misses
          THEN /\ Sum(p) = whole
               /\ \A i, l \in DOMAIN p : p[i] * w[l] = p[l] * w[i]
               /\ q.id \in DOMAIN originals /\ originals[q.id] = w
          ELSE /\ \A i \in DOMAIN p : p[i] * Unit = w[i] * whole
               /\ q.id \notin DOMAIN originals
    <3>1. IF enabled /\ misses
            THEN /\ Sum(p) = whole
                 /\ \A i, l \in DOMAIN p : p[i] * w[l] = p[l] * w[i]
                 /\ N.original = w /\ w # None
            ELSE /\ \A i \in DOMAIN p : p[i] * Unit = w[i] * whole
                 /\ N.original = None
      <4> HIDE DEF N, a
      <4>1. QED
        BY <2>1, <2>2 DEF Reports
    <3> HIDE DEF N, a, w
    <3>2. QED
      BY <1>8, <1>10, <2>5, <3>1
  <2> HIDE DEF a, N
  <2>7. QED
    BY <1>7, <1>14, <2>2, <2>4, <2>6 DEF Telling
<1>15. QED
  BY <1>13, <1>14

\* What a caller is given is what the accepted reply says (convert.rs): each
\* question's own answer, read by its label and its last value; rescaled only if
\* that is asked for and needed; the choice, the score and the confidence drawn
\* from that same distribution: of any questions and any accepted reply.
THEOREM AnswersAreTold == Spec => []AnswersTell
<1>1. ASSUME IInv, Posing, Settled PROVE AnswersTell
  <2>1. SUFFICES ASSUME pc = "answered", NEW r \in LastReply, NEW i \in DOMAIN Questions
                 PROVE  Telling(Questions[i], call.mode,
                                LastOf(AnswersOf(r).members, Questions[i].id), call.normalize,
                                result.answers[Questions[i].id],
                                result.probabilities.errors, result.probabilities.originals)
    BY DEF AnswersTell, Telling, WeightsOf
  <2> DEFINE v == Replies[r].value
             w == AnswersOf(r)
             given == [k \in DOMAIN Questions |-> LastOf(w.members, Questions[k].id)]
             values == [k \in DOMAIN Questions |-> Meaning(Questions[k], call.mode, given[k])]
  <2>2. /\ r \in DOMAIN Replies /\ r = LastCall.text /\ Posed(Questions)
        /\ Decoded[call.set][call.mode][r] = Decode(Questions, call.mode, Replies[r])
        /\ Problems(r) = Decode(Questions, call.mode, Replies[r]).problems
        /\ Problems(r) = <<>>
    BY <1>1, <2>1, LastReplyIs
  <2>3. AllQuestions(Questions) /\ call.mode \in Modes
    BY <2>2 DEF Posed
  <2>4. call.normalize \in BOOLEAN
    BY <1>1 DEF IInv, TypeOK
  <2>5. v \in Json /\ Replies[r].pieces \in Seq(Pieces)
    BY <2>2, JsonAssumption
  <2> DEFINE d == Decode(Questions, call.mode, Replies[r])
             read == DecodeReply(Questions, call.mode, v)
  <2>6. d = read
    <3>1. LET e == Decode(Questions, call.mode, Replies[r]) IN
          /\ IsWhole(Replies[r].pieces) => e = DecodeReply(Questions, call.mode, Replies[r].value)
          /\ ~IsWhole(Replies[r].pieces) => IsList(e.problems) /\ e.problems # <<>>
      BY <2>5, Decodes
    <3>2. QED
      BY <2>2, <3>1
  <2>7. w = LastOf(v.members, "answers")
    BY DEF AnswersOf
  <2>8. read.problems = <<>>
    <3> HIDE DEF read, d
    <3>1. d.problems = <<>>
      BY <2>2 DEF d
    <3>2. QED
      BY <2>6, <3>1
  <2>9. /\ IsReadable(v) /\ NamesOf(v) = {"answers"}
        /\ IsReadable(w) /\ NamesOf(w) = {Questions[k].id : k \in DOMAIN Questions}
        /\ \A k \in DOMAIN Questions :
             Fitting(Questions[k], call.mode, LastOf(w.members, Questions[k].id))
        /\ read.value = [k \in DOMAIN Questions |->
                           Meaning(Questions[k], call.mode, LastOf(w.members, Questions[k].id))]
    <3> DEFINE qs == Questions
               mode == call.mode
               root == v
    <3>1. AllQuestions(qs) /\ mode \in Modes /\ root \in Json /\ DecodeReply(qs, mode, root).problems = <<>>
      BY <2>3, <2>5, <2>8
    <3>2. w = LastOf(root.members, "answers")
      BY <2>7
    <3>3. read = DecodeReply(qs, mode, root)
      OBVIOUS
    <3> HIDE DEF qs, mode, root, w, read
    <3>4. LET e == DecodeReply(qs, mode, root)
              x == LastOf(root.members, "answers")
          IN /\ e.problems = <<>> <=>
                  /\ IsReadable(root) /\ NamesOf(root) = {"answers"}
                  /\ IsReadable(x) /\ NamesOf(x) = {qs[k].id : k \in DOMAIN qs}
                  /\ \A k \in DOMAIN qs : Fitting(qs[k], mode, LastOf(x.members, qs[k].id))
             /\ e.problems = <<>> =>
                  e.value = [k \in DOMAIN qs |-> Meaning(qs[k], mode, LastOf(x.members, qs[k].id))]
      BY <3>1, ReplyRead
    <3>5. QED
      BY <3>1, <3>2, <3>3, <3>4 DEF qs, mode, root
  <2>10. w \in Json
    <3>1. v.json = "object" /\ Has(v.members, "answers")
      BY <2>9, HasIs DEF IsReadable
    <3>2. QED
      BY <2>5, <2>7, <3>1, LastTyped
  <2> HIDE DEF w, read, d
  <2>11. \A k \in DOMAIN Questions :
           given[k] \in Json /\ Fitting(Questions[k], call.mode, given[k])
    <3>1. SUFFICES ASSUME NEW k \in DOMAIN Questions
                   PROVE  LastOf(w.members, Questions[k].id) \in Json
      BY <2>9
    <3>2. w.json = "object" /\ Has(w.members, Questions[k].id)
      BY <2>9, HasIs DEF IsReadable
    <3>3. QED
      BY <2>10, <3>2, LastTyped
  <2>12. read.value = values
    BY <2>9
  <2>13. result = Convert(Questions, call.mode, values, call.normalize)
    <3>1. result = Convert(asked.questions, call.mode,
                           Decoded[call.set][call.mode][LastCall.text].value, call.normalize)
      BY <1>1, <2>1 DEF Settled
    <3>2. Decoded[call.set][call.mode][LastCall.text].value = values
      BY <2>2, <2>6, <2>12 DEF d
    <3> HIDE DEF values
    <3>3. QED
      BY <3>1, <3>2 DEF Questions
  <2> HIDE DEF given
  <2>14. LET vals == [k \in DOMAIN Questions |-> Meaning(Questions[k], call.mode, given[k])]
             c == Convert(Questions, call.mode, vals, call.normalize)
         IN \A k \in DOMAIN Questions :
              Telling(Questions[k], call.mode, given[k], call.normalize, c.answers[Questions[k].id],
                      c.probabilities.errors, c.probabilities.originals)
    BY <2>3, <2>4, <2>11, Converts
  <2>15. Telling(Questions[i], call.mode, given[i], call.normalize, result.answers[Questions[i].id],
                 result.probabilities.errors, result.probabilities.originals)
    BY <2>13, <2>14
  <2>16. given[i] = LastOf(w.members, Questions[i].id)
    BY DEF given
  <2>17. QED
    BY <2>15, <2>16 DEF w
<1>2. QED
  BY <1>1, Settles, PTL
===========================================================================
