--------------------------- MODULE ProviderProofs ---------------------------
(***************************************************************************)
(* That one attempt asks what it was told, answers only with what was      *)
(* finished, keeps the size limit, reports a response by its status,       *)
(* records what it did and shows nobody its key, proved for every call and *)
(* its builder, every set of responses and every way the service may fail. *)
(***************************************************************************)
EXTENDS Provider, Inductions, SequenceTheorems, FiniteSetTheorems

-----------------------------------------------------------------------------
(* What is answered: the walk of an interaction. *)

OutputItem == [kind: Items, id: Nat \X Nat]
OutputStep == [kind: Steps, content: Maybe(Seq(OutputItem))]
Wall == [kind |-> "wall", id |-> None]
Walk == [parts: Seq(OutputItem), over: BOOLEAN]

LEMMA ItemWalked ==
  ASSUME NEW item \in OutputItem, NEW w \in Walk
  PROVE  WalkItem(item, w) \in Walk
<1>1. w.parts \in Seq(OutputItem) /\ <<item>> \o w.parts \in Seq(OutputItem)
  <2>1. <<item>> \in Seq(OutputItem) /\ w.parts \in Seq(OutputItem)
    BY DEF Walk
  <2>2. QED
    BY <2>1, ConcatProperties
<1> DEFINE more == <<item>> \o w.parts
<1>2. more \in Seq(OutputItem)
  BY <1>1
<1> HIDE DEF more
<1>3. [w EXCEPT !.parts = more] \in Walk
  BY <1>2 DEF Walk
<1>4. Skip(w) \in Walk
  BY DEF Skip, Walk
<1>5. QED
  BY <1>3, <1>4 DEF WalkItem, more

\* The walk over a content, item by item.
LEMMA ContentUnfolds ==
  ASSUME NEW content \in Seq(OutputItem), NEW w \in Walk
  PROVE  \E f \in [0..Len(content) -> Walk] :
           /\ Backwards(WalkItem, content, w) = f[Len(content)] /\ f[0] = w
           /\ \A n \in 1..Len(content) : f[n] = WalkItem(content[Len(content) + 1 - n], f[n - 1])
<1> DEFINE length == Len(content)
           At(n, v) == IF n \in 1..length THEN WalkItem(content[length + 1 - n], v) ELSE v
           step == [p \in Nat \X Walk |-> At(p[1], p[2])]
           Is(f) == f = [n \in 0..length |-> IF n = 0 THEN w ELSE WalkItem(content[length + 1 - n], f[n - 1])]
           from == CHOOSE f : Is(f)
<1>1. length \in Nat /\ DOMAIN content = 1..length /\ \A n \in 1..length : content[length + 1 - n] \in OutputItem
  BY LenProperties, ElementOfSeq
<1>2. Backwards(WalkItem, content, w) = from[length]
  BY DEF Backwards
<1> HIDE DEF length
<1>4. step \in [(Nat \X Walk) -> Walk]
  <2>1. ASSUME NEW n \in Nat, NEW v \in Walk PROVE At(n, v) \in Walk
    BY <1>1, ItemWalked
  <2> HIDE DEF At
  <2>2. QED
    BY <2>1
<1>5. PICK g \in [0..length -> Walk] : Recursive(g, 0..length, w, step)
  <2> HIDE DEF step
  <2>1. QED
    BY <1>1, <1>4, RecursionUpTo
<1>6. g[0] = w /\ \A n \in 1..length : g[n] = WalkItem(content[length + 1 - n], g[n - 1])
  <2>1. \A n \in 1..length : n \in (0..length) \ {0} /\ n \in Nat /\ n - 1 \in 0..length
    BY <1>1
  <2>2. \A n \in 1..length : g[n] = step[<<n, g[n - 1]>>]
    BY <1>5, <2>1, Zenon DEF Recursive
  <2>3. g[0] = w
    BY <1>5 DEF Recursive
  <2>4. \A n \in 1..length : <<n, g[n - 1]>> \in Nat \X Walk
    BY <1>5, <2>1
  <2>5. \A p \in Nat \X Walk : step[p] = At(p[1], p[2])
    OBVIOUS
  <2>6. \A n \in 1..length : \A v : At(n, v) = WalkItem(content[length + 1 - n], v)
    OBVIOUS
  <2> HIDE DEF step, At
  <2>7. QED
    BY <2>2, <2>3, <2>4, <2>5, <2>6
<1>7. Is(g)
  <2>1. \A n \in 0..length : n # 0 => n \in 1..length
    BY <1>1
  <2>2. g = [n \in 0..length |-> g[n]]
    BY <1>5
  <2>3. QED
    BY <1>6, <2>1, <2>2
<1> HIDE DEF step
<1>8. Is(from)
  <2> HIDE DEF Is
  <2>1. QED
    BY <1>7
<1>9. from[0] = w /\ \A n \in 1..length : from[n] = WalkItem(content[length + 1 - n], from[n - 1])
  <2> HIDE DEF from
  <2>1. \A n \in 0..length : from[n] = IF n = 0 THEN w ELSE WalkItem(content[length + 1 - n], from[n - 1])
    BY <1>8
  <2>2. 0 \in 0..length /\ \A n \in 1..length : n \in 0..length /\ n # 0
    BY <1>1
  <2>3. QED
    BY <2>1, <2>2
<1> HIDE DEF from, Is
<1> DEFINE alike == {n \in Nat : n <= length => from[n] = g[n]}
<1>10. 0 \in alike
  BY <1>6, <1>9
<1>11. ASSUME NEW n \in Nat, n \in alike PROVE n + 1 \in alike
  <2>1. SUFFICES ASSUME n + 1 <= length PROVE from[n + 1] = g[n + 1]
    OBVIOUS
  <2>2. n + 1 \in 1..length /\ (n + 1) - 1 = n /\ from[n] = g[n]
    BY <1>1, <1>11, <2>1
  <2>3. from[n + 1] = WalkItem(content[length + 1 - (n + 1)], from[n]) /\ g[n + 1] = WalkItem(content[length + 1 - (n + 1)], g[n])
    BY <1>6, <1>9, <2>2
  <2>4. QED
    BY <2>2, <2>3
<1> HIDE DEF alike
<1>12. length \in alike
  BY <1>1, <1>10, <1>11, NatSetInduction
<1>13. Backwards(WalkItem, content, w) = g[length]
  BY <1>1, <1>2, <1>12 DEF alike
<1>14. QED
  BY <1>5, <1>6, <1>13 DEF length

LEMMA StepWalked ==
  ASSUME NEW step \in OutputStep, NEW w \in Walk
  PROVE  WalkStep(step, w) \in Walk
<1>1. [w EXCEPT !.over = TRUE] \in Walk /\ Skip(w) \in Walk
  BY DEF Skip, Walk
<1>2. step.content # None => Backwards(WalkItem, step.content, w) \in Walk
  <2>1. SUFFICES ASSUME step.content # None PROVE Backwards(WalkItem, step.content, w) \in Walk
    OBVIOUS
  <2> DEFINE content == step.content
  <2>2. content \in Seq(OutputItem)
    BY <2>1 DEF OutputStep, Maybe
  <2> HIDE DEF content
  <2>3. PICK f \in [0..Len(content) -> Walk] : Backwards(WalkItem, content, w) = f[Len(content)]
    BY <2>2, ContentUnfolds
  <2>4. Len(content) \in 0..Len(content)
    BY <2>2, LenProperties
  <2>5. f[Len(content)] \in Walk
    BY <2>4
  <2>6. QED
    BY <2>3, <2>5 DEF content
<1>3. QED
  BY <1>1, <1>2 DEF WalkStep

\* The walk over an output, step by step.
LEMMA OutputUnfolds ==
  ASSUME NEW output \in Seq(OutputStep), NEW w \in Walk
  PROVE  \E f \in [0..Len(output) -> Walk] :
           /\ Backwards(WalkStep, output, w) = f[Len(output)] /\ f[0] = w
           /\ \A n \in 1..Len(output) : f[n] = WalkStep(output[Len(output) + 1 - n], f[n - 1])
<1> DEFINE length == Len(output)
           At(n, v) == IF n \in 1..length THEN WalkStep(output[length + 1 - n], v) ELSE v
           step == [p \in Nat \X Walk |-> At(p[1], p[2])]
           Is(f) == f = [n \in 0..length |-> IF n = 0 THEN w ELSE WalkStep(output[length + 1 - n], f[n - 1])]
           from == CHOOSE f : Is(f)
<1>1. length \in Nat /\ DOMAIN output = 1..length /\ \A n \in 1..length : output[length + 1 - n] \in OutputStep
  BY LenProperties, ElementOfSeq
<1>2. Backwards(WalkStep, output, w) = from[length]
  BY DEF Backwards
<1> HIDE DEF length
<1>4. step \in [(Nat \X Walk) -> Walk]
  <2>1. ASSUME NEW n \in Nat, NEW v \in Walk PROVE At(n, v) \in Walk
    BY <1>1, StepWalked
  <2> HIDE DEF At
  <2>2. QED
    BY <2>1
<1>5. PICK g \in [0..length -> Walk] : Recursive(g, 0..length, w, step)
  <2> HIDE DEF step
  <2>1. QED
    BY <1>1, <1>4, RecursionUpTo
<1>6. g[0] = w /\ \A n \in 1..length : g[n] = WalkStep(output[length + 1 - n], g[n - 1])
  <2>1. \A n \in 1..length : n \in (0..length) \ {0} /\ n \in Nat /\ n - 1 \in 0..length
    BY <1>1
  <2>2. \A n \in 1..length : g[n] = step[<<n, g[n - 1]>>]
    BY <1>5, <2>1, Zenon DEF Recursive
  <2>3. g[0] = w
    BY <1>5 DEF Recursive
  <2>4. \A n \in 1..length : <<n, g[n - 1]>> \in Nat \X Walk
    BY <1>5, <2>1
  <2>5. \A p \in Nat \X Walk : step[p] = At(p[1], p[2])
    OBVIOUS
  <2>6. \A n \in 1..length : \A v : At(n, v) = WalkStep(output[length + 1 - n], v)
    OBVIOUS
  <2> HIDE DEF step, At
  <2>7. QED
    BY <2>2, <2>3, <2>4, <2>5, <2>6
<1>7. Is(g)
  <2>1. \A n \in 0..length : n # 0 => n \in 1..length
    BY <1>1
  <2>2. g = [n \in 0..length |-> g[n]]
    BY <1>5
  <2>3. QED
    BY <1>6, <2>1, <2>2
<1> HIDE DEF step
<1>8. Is(from)
  <2> HIDE DEF Is
  <2>1. QED
    BY <1>7
<1>9. from[0] = w /\ \A n \in 1..length : from[n] = WalkStep(output[length + 1 - n], from[n - 1])
  <2> HIDE DEF from
  <2>1. \A n \in 0..length : from[n] = IF n = 0 THEN w ELSE WalkStep(output[length + 1 - n], from[n - 1])
    BY <1>8
  <2>2. 0 \in 0..length /\ \A n \in 1..length : n \in 0..length /\ n # 0
    BY <1>1
  <2>3. QED
    BY <2>1, <2>2
<1> HIDE DEF from, Is
<1> DEFINE alike == {n \in Nat : n <= length => from[n] = g[n]}
<1>10. 0 \in alike
  BY <1>6, <1>9
<1>11. ASSUME NEW n \in Nat, n \in alike PROVE n + 1 \in alike
  <2>1. SUFFICES ASSUME n + 1 <= length PROVE from[n + 1] = g[n + 1]
    OBVIOUS
  <2>2. n + 1 \in 1..length /\ (n + 1) - 1 = n /\ from[n] = g[n]
    BY <1>1, <1>11, <2>1
  <2>3. from[n + 1] = WalkStep(output[length + 1 - (n + 1)], from[n]) /\ g[n + 1] = WalkStep(output[length + 1 - (n + 1)], g[n])
    BY <1>6, <1>9, <2>2
  <2>4. QED
    BY <2>2, <2>3
<1> HIDE DEF alike
<1>12. length \in alike
  BY <1>1, <1>10, <1>11, NatSetInduction
<1>13. Backwards(WalkStep, output, w) = g[length]
  BY <1>1, <1>2, <1>12 DEF alike
<1>14. QED
  BY <1>5, <1>6, <1>13 DEF length

\* What the walk has read of some items: none of them is text, or its parts are
\* the last run of text, with nothing before it yet or with what ended it.
Output == Seq(OutputItem \cup {Wall})
IsText(item) == item.kind \in {"text", "bare"}
IsRun(items, a, b, w) ==
  /\ a <= b /\ b <= Len(items)
  /\ Len(w.parts) = b - a + 1 /\ \A k \in 1..Len(w.parts) : w.parts[k] = items[a + k - 1]
  /\ \A i \in a..b : IsText(items[i])
  /\ \A i \in (b + 1)..Len(items) : ~IsText(items[i])
  /\ IF w.over THEN a > 1 /\ ~IsText(items[a - 1]) ELSE a = 1
Reads(items, w) ==
  /\ items \in Output /\ w \in Walk
  /\ \/ w.parts = <<>> /\ ~w.over /\ \A i \in 1..Len(items) : ~IsText(items[i])
     \/ \E a, b \in Nat \ {0} : IsRun(items, a, b, w)

\* Items in front of what was read when the walk was over change nothing.
LEMMA ReadsOver ==
  ASSUME NEW items, NEW w, Reads(items, w), w.over, NEW front \in Output
  PROVE  Reads(front \o items, w)
<1> DEFINE all == front \o items
           shift == Len(front)
<1>1. items \in Output /\ w \in Walk /\ Len(items) \in Nat /\ shift \in Nat /\ Len(w.parts) \in Nat
  <2>1. w.parts \in Seq(OutputItem)
    BY DEF Reads, Walk
  <2>2. QED
    BY <2>1, LenProperties DEF Reads, Output
<1>2. /\ all \in Output /\ Len(all) = shift + Len(items)
      /\ \A i \in 1..Len(items) : all[i + shift] = items[i]
  <2>1. /\ all \in Output /\ Len(all) = shift + Len(items)
        /\ \A i \in 1..(shift + Len(items)) : all[i] = IF i <= shift THEN front[i] ELSE items[i - shift]
    BY <1>1, ConcatProperties DEF Output
  <2> HIDE DEF all
  <2>2. ASSUME NEW i \in 1..Len(items) PROVE all[i + shift] = items[i]
    <3>1. i + shift \in 1..(shift + Len(items)) /\ ~(i + shift <= shift) /\ (i + shift) - shift = i
      BY <1>1
    <3>2. QED
      BY <2>1, <3>1
  <2>3. QED
    BY <2>1, <2>2
<1> HIDE DEF all, shift
<1>3. PICK a, b \in Nat \ {0} : IsRun(items, a, b, w)
  BY DEF Reads
<1>4. /\ a <= b /\ b <= Len(items) /\ a > 1 /\ ~IsText(items[a - 1])
      /\ Len(w.parts) = b - a + 1
  BY <1>3 DEF IsRun
<1>5. a + shift \in Nat \ {0} /\ b + shift \in Nat \ {0}
  BY <1>1
<1>6. \A k \in 1..Len(w.parts) : w.parts[k] = all[a + shift + k - 1]
  <2>1. ASSUME NEW k \in 1..Len(w.parts) PROVE w.parts[k] = all[a + shift + k - 1]
    <3>1. w.parts[k] = items[a + k - 1]
      BY <1>3 DEF IsRun
    <3>2. a + k - 1 \in 1..Len(items) /\ (a + k - 1) + shift = a + shift + k - 1
      BY <1>1, <1>4
    <3>3. QED
      BY <1>2, <3>1, <3>2
  <2>2. QED
    BY <2>1
<1>7. \A i \in (a + shift)..(b + shift) : IsText(all[i])
  <2>1. ASSUME NEW i \in (a + shift)..(b + shift) PROVE IsText(all[i])
    <3>1. i - shift \in a..b /\ i - shift \in 1..Len(items) /\ (i - shift) + shift = i
      BY <1>1, <1>4
    <3>2. IsText(items[i - shift])
      BY <1>3, <3>1 DEF IsRun
    <3>3. QED
      BY <1>2, <3>1, <3>2
  <2>2. QED
    BY <2>1
<1>8. \A i \in (b + shift + 1)..Len(all) : ~IsText(all[i])
  <2>1. ASSUME NEW i \in (b + shift + 1)..Len(all) PROVE ~IsText(all[i])
    <3>1. i - shift \in (b + 1)..Len(items) /\ i - shift \in 1..Len(items) /\ (i - shift) + shift = i
      BY <1>1, <1>2, <1>4
    <3>2. ~IsText(items[i - shift])
      BY <1>3, <3>1 DEF IsRun
    <3>3. QED
      BY <1>2, <3>1, <3>2
  <2>2. QED
    BY <2>1
<1>9. a + shift > 1 /\ ~IsText(all[a + shift - 1])
  <2>1. a - 1 \in 1..Len(items) /\ (a - 1) + shift = a + shift - 1 /\ a + shift > 1
    BY <1>1, <1>4
  <2>2. QED
    BY <1>2, <1>4, <2>1
<1>10. a + shift <= b + shift /\ b + shift <= Len(all) /\ Len(w.parts) = (b + shift) - (a + shift) + 1
  BY <1>1, <1>2, <1>4
<1>11. IsRun(all, a + shift, b + shift, w)
  <2>1. PICK c, d \in Nat \ {0} : c = a + shift /\ d = b + shift
    BY <1>5
  <2>2. IsRun(all, c, d, w)
    <3>1. \A k \in 1..Len(w.parts) : w.parts[k] = all[c + k - 1]
      BY <1>6, <2>1
    <3>2. \A i \in c..d : IsText(all[i])
      BY <1>7, <2>1
    <3>3. \A i \in (d + 1)..Len(all) : ~IsText(all[i])
      BY <1>8, <2>1
    <3>4. /\ c <= d /\ d <= Len(all) /\ Len(w.parts) = d - c + 1
          /\ c > 1 /\ ~IsText(all[c - 1])
      BY <1>1, <1>9, <1>10, <2>1
    <3>5. QED
      BY <3>1, <3>2, <3>3, <3>4 DEF IsRun
  <2>3. QED
    BY <2>1, <2>2
<1>12. QED
  BY <1>1, <1>2, <1>5, <1>11 DEF Reads, all

LEMMA Prepended ==
  ASSUME NEW T, NEW item \in T, NEW items \in Seq(T), NEW all, all = <<item>> \o items
  PROVE  /\ all \in Seq(T) /\ Len(all) = Len(items) + 1 /\ all[1] = item
         /\ \A i \in 1..Len(items) : all[i + 1] = items[i]
<1>1. /\ <<item>> \in Seq(T) /\ Len(<<item>>) = 1 /\ <<item>>[1] = item /\ Len(items) \in Nat
  BY LenProperties
<1>2. /\ all \in Seq(T) /\ Len(all) = 1 + Len(items)
      /\ \A i \in 1..(1 + Len(items)) : all[i] = IF i <= 1 THEN <<item>>[i] ELSE items[i - 1]
  BY <1>1, ConcatProperties
<1>3. \A i \in 1..Len(items) : all[i + 1] = items[i]
  <2>1. ASSUME NEW i \in 1..Len(items) PROVE all[i + 1] = items[i]
    <3>1. i + 1 \in 1..(1 + Len(items)) /\ ~(i + 1 <= 1) /\ (i + 1) - 1 = i
      BY <1>1
    <3>2. QED
      BY <1>2, <3>1
  <2>2. QED
    BY <2>1
<1>4. QED
  BY <1>1, <1>2, <1>3

\* Before the end an item that is no text ends the walk if it has text.
LEMMA ReadsNoText ==
  ASSUME NEW items, NEW w, Reads(items, w), ~w.over,
         NEW item \in OutputItem \cup {Wall}, ~IsText(item)
  PROVE  Reads(<<item>> \o items, Skip(w))
<1> DEFINE all == <<item>> \o items
           v == Skip(w)
<1>1. /\ w \in Walk /\ v \in Walk /\ v.parts = w.parts /\ v.over = (w.parts # <<>>)
  BY DEF Reads, Walk, Skip
<1>2. w.parts \in Seq(OutputItem) /\ Len(w.parts) \in Nat
  BY <1>1, LenProperties DEF Walk
<1>3. /\ items \in Output /\ Len(items) \in Nat
      /\ all \in Output /\ Len(all) = Len(items) + 1 /\ all[1] = item
      /\ \A i \in 1..Len(items) : all[i + 1] = items[i]
  BY Prepended, LenProperties DEF Reads, Output
<1> HIDE DEF all, v
<1>4. CASE w.parts = <<>> /\ \A i \in 1..Len(items) : ~IsText(items[i])
  <2>1. ASSUME NEW i \in 1..Len(all) PROVE ~IsText(all[i])
    <3>1. i = 1 \/ (i - 1 \in 1..Len(items) /\ (i - 1) + 1 = i)
      BY <1>3
    <3>2. QED
      BY <1>3, <1>4, <3>1
  <2>2. QED
    BY <1>1, <1>3, <1>4, <2>1 DEF Reads, all, v
<1>5. ASSUME NEW a \in Nat \ {0}, NEW b \in Nat \ {0}, IsRun(items, a, b, w)
      PROVE  Reads(all, v)
  <2>1. /\ a = 1 /\ a <= b /\ b <= Len(items) /\ Len(w.parts) = b
        /\ \A k \in 1..b : w.parts[k] = items[k]
    BY <1>5 DEF IsRun
  <2>10. /\ \A i \in a..b : IsText(items[i])
         /\ \A i \in (b + 1)..Len(items) : ~IsText(items[i])
    BY <1>5 DEF IsRun
  <2>2. v.over
    <3>1. w.parts # <<>>
      BY <1>2, <2>1
    <3>2. QED
      BY <1>1, <3>1
  <2>3. PICK c, d \in Nat \ {0} : c = 2 /\ d = b + 1
    OBVIOUS
  <2>4. \A k \in 1..Len(v.parts) : v.parts[k] = all[c + k - 1]
    <3>1. ASSUME NEW k \in 1..Len(v.parts) PROVE v.parts[k] = all[c + k - 1]
      <4>1. k \in 1..b /\ k \in 1..Len(items) /\ c + k - 1 = k + 1
        BY <1>1, <1>3, <2>1, <2>3
      <4>2. QED
        BY <1>1, <1>3, <2>1, <4>1
    <3>2. QED
      BY <3>1
  <2>5. \A i \in c..d : IsText(all[i])
    <3>1. ASSUME NEW i \in c..d PROVE IsText(all[i])
      <4>1. i - 1 \in a..b /\ i - 1 \in 1..Len(items) /\ (i - 1) + 1 = i
        BY <1>3, <2>1, <2>3
      <4>2. QED
        <5>1. all[(i - 1) + 1] = items[i - 1]
          BY <1>3, <4>1
        <5>2. QED
          BY <2>10, <4>1, <5>1
    <3>2. QED
      BY <3>1
  <2>6. \A i \in (d + 1)..Len(all) : ~IsText(all[i])
    <3>1. ASSUME NEW i \in (d + 1)..Len(all) PROVE ~IsText(all[i])
      <4>1. i - 1 \in (b + 1)..Len(items) /\ i - 1 \in 1..Len(items) /\ (i - 1) + 1 = i
        BY <1>3, <2>1, <2>3
      <4>2. QED
        <5>1. all[(i - 1) + 1] = items[i - 1]
          BY <1>3, <4>1
        <5>2. QED
          BY <2>10, <4>1, <5>1
    <3>2. QED
      BY <3>1
  <2>7. c <= d /\ d <= Len(all) /\ Len(v.parts) = d - c + 1 /\ c > 1 /\ ~IsText(all[c - 1])
    <3>1. c - 1 = 1 /\ c <= d /\ d <= Len(all) /\ Len(v.parts) = d - c + 1
      BY <1>1, <1>3, <2>1, <2>3
    <3>2. QED
      BY <1>3, <2>3, <3>1
  <2>8. IsRun(all, c, d, v)
    BY <2>2, <2>4, <2>5, <2>6, <2>7 DEF IsRun
  <2>9. QED
    BY <1>1, <1>3, <2>3, <2>8 DEF Reads
<1>6. QED
  BY <1>4, <1>5 DEF Reads, all, v

\* Before the end a text is a part of the run.
LEMMA ReadsText ==
  ASSUME NEW items, NEW w, Reads(items, w), ~w.over, NEW item \in OutputItem, IsText(item)
  PROVE  Reads(<<item>> \o items, [w EXCEPT !.parts = <<item>> \o @])
<1> DEFINE all == <<item>> \o items
           more == <<item>> \o w.parts
           v == [w EXCEPT !.parts = <<item>> \o @]
<1>1. w \in Walk /\ w.parts \in Seq(OutputItem) /\ Len(w.parts) \in Nat
  <2>1. w \in Walk /\ w.parts \in Seq(OutputItem)
    BY DEF Reads, Walk
  <2>2. QED
    BY <2>1, LenProperties
<1>2. /\ more \in Seq(OutputItem) /\ Len(more) = Len(w.parts) + 1 /\ more[1] = item
      /\ \A i \in 1..Len(w.parts) : more[i + 1] = w.parts[i]
  BY <1>1, Prepended
<1> HIDE DEF more
<1>3. v \in Walk /\ v.parts = more /\ ~v.over
  <2>1. v = [w EXCEPT !.parts = more]
    BY DEF more
  <2> HIDE DEF v
  <2>2. QED
    BY <1>1, <1>2, <2>1 DEF Walk
<1>4. /\ items \in Output /\ Len(items) \in Nat
      /\ all \in Output /\ Len(all) = Len(items) + 1 /\ all[1] = item
      /\ \A i \in 1..Len(items) : all[i + 1] = items[i]
  BY Prepended, LenProperties DEF Reads, Output
<1> HIDE DEF all, v
<1>5. ASSUME NEW b \in Nat, b <= Len(items), Len(w.parts) = b,
             \A k \in 1..b : w.parts[k] = items[k] /\ IsText(items[k]),
             \A i \in (b + 1)..Len(items) : ~IsText(items[i])
      PROVE  Reads(all, v)
  <2>1. PICK c, d \in Nat \ {0} : c = 1 /\ d = b + 1
    OBVIOUS
  <2>2. \A k \in 1..Len(v.parts) : v.parts[k] = all[c + k - 1]
    <3>1. ASSUME NEW k \in 1..Len(v.parts) PROVE v.parts[k] = all[k]
      <4>1. k = 1 \/ (k - 1 \in 1..b /\ k - 1 \in 1..Len(items) /\ (k - 1) + 1 = k)
        BY <1>2, <1>3, <1>4, <1>5
      <4>2. CASE k = 1
        BY <1>2, <1>3, <1>4, <4>2
      <4>3. CASE k - 1 \in 1..b /\ k - 1 \in 1..Len(items) /\ (k - 1) + 1 = k
        <5>1. k - 1 \in 1..Len(w.parts) /\ w.parts[k - 1] = items[k - 1]
          BY <1>5, <4>3
        <5>2. more[k] = w.parts[k - 1] /\ all[k] = items[k - 1]
          BY <1>2, <1>4, <4>3, <5>1
        <5>3. QED
          BY <1>3, <5>1, <5>2
      <4>4. QED
        BY <4>1, <4>2, <4>3
    <3>2. \A k \in 1..Len(v.parts) : c + k - 1 = k
      BY <2>1
    <3>3. QED
      BY <3>1, <3>2
  <2>3. \A i \in c..d : IsText(all[i])
    <3>1. ASSUME NEW i \in c..d PROVE IsText(all[i])
      <4>1. i = 1 \/ (i - 1 \in 1..b /\ i - 1 \in 1..Len(items) /\ (i - 1) + 1 = i)
        BY <1>4, <1>5, <2>1
      <4>2. QED
        BY <1>4, <1>5, <4>1
    <3>2. QED
      BY <3>1
  <2>4. \A i \in (d + 1)..Len(all) : ~IsText(all[i])
    <3>1. ASSUME NEW i \in (d + 1)..Len(all) PROVE ~IsText(all[i])
      <4>1. i - 1 \in (b + 1)..Len(items) /\ i - 1 \in 1..Len(items) /\ (i - 1) + 1 = i
        BY <1>4, <1>5, <2>1
      <4>2. QED
        BY <1>4, <1>5, <4>1
    <3>2. QED
      BY <3>1
  <2>5. c = 1 /\ c <= d /\ d <= Len(all) /\ Len(v.parts) = d - c + 1
    BY <1>2, <1>3, <1>4, <1>5, <2>1
  <2>6. IsRun(all, c, d, v)
    BY <1>3, <2>2, <2>3, <2>4, <2>5 DEF IsRun
  <2>7. QED
    BY <1>3, <1>4, <2>1, <2>6 DEF Reads
<1>6. CASE w.parts = <<>> /\ \A i \in 1..Len(items) : ~IsText(items[i])
  <2>1. PICK b \in Nat : b = 0
    OBVIOUS
  <2>2. b <= Len(items) /\ Len(w.parts) = b
    BY <1>4, <1>6, <2>1
  <2>3. \A k \in 1..b : w.parts[k] = items[k] /\ IsText(items[k])
    BY <2>1
  <2>4. \A i \in (b + 1)..Len(items) : ~IsText(items[i])
    BY <1>6, <2>1
  <2>5. QED
    BY <1>5, <2>2, <2>3, <2>4, Zenon DEF all, v
<1>7. ASSUME NEW a \in Nat \ {0}, NEW b \in Nat \ {0}, IsRun(items, a, b, w)
      PROVE  Reads(all, v)
  <2>1. /\ a = 1 /\ a <= b /\ b <= Len(items) /\ Len(w.parts) = b
        /\ \A k \in 1..b : w.parts[k] = items[k]
    BY <1>7 DEF IsRun
  <2>2. /\ \A k \in 1..b : IsText(items[k])
        /\ \A i \in (b + 1)..Len(items) : ~IsText(items[i])
    BY <1>7, <2>1 DEF IsRun
  <2>3. QED
    BY <1>5, <2>1, <2>2
<1>8. QED
  BY <1>6, <1>7 DEF Reads, all, v

LEMMA OutputJoins ==
  ASSUME NEW s \in Output, NEW t \in Output
  PROVE  /\ s \o t \in Output /\ Len(s \o t) = Len(s) + Len(t)
         /\ \A i \in 1..(Len(s) + Len(t)) : (s \o t)[i] = IF i <= Len(s) THEN s[i] ELSE t[i - Len(s)]
BY ConcatProperties DEF Output

\* One item, or a step that has none, read as the walk reads it.
LEMMA ReadsItem ==
  ASSUME NEW items, NEW w, Reads(items, w), NEW item \in OutputItem
  PROVE  Reads(<<item>> \o items, WalkItem(item, w))
<1>1. CASE w.over
  <2>1. <<item>> \in Output
    BY DEF Output
  <2>2. WalkItem(item, w) = w
    BY <1>1 DEF WalkItem
  <2>3. QED
    BY <1>1, <2>1, <2>2, ReadsOver
<1>2. CASE ~w.over /\ IsText(item)
  <2>1. WalkItem(item, w) = [w EXCEPT !.parts = <<item>> \o @]
    BY <1>2 DEF WalkItem, IsText
  <2>2. QED
    BY <1>2, <2>1, ReadsText
<1>3. CASE ~w.over /\ ~IsText(item)
  <2>1. WalkItem(item, w) = Skip(w)
    BY <1>3 DEF WalkItem, IsText
  <2>2. item \in OutputItem \cup {Wall}
    OBVIOUS
  <2>3. QED
    BY <1>3, <2>1, <2>2, ReadsNoText, Zenon
<1>4. QED
  BY <1>1, <1>2, <1>3

LEMMA ReadsContent ==
  ASSUME NEW items, NEW w, Reads(items, w), NEW content \in Seq(OutputItem)
  PROVE  Reads(content \o items, Backwards(WalkItem, content, w))
<1> DEFINE length == Len(content)
           last(n) == SubSeq(content, length + 1 - n, length)
<1>1. /\ length \in Nat /\ \A i \in 1..length : content[i] \in OutputItem
      /\ items \in Output /\ w \in Walk /\ Len(items) \in Nat
  BY LenProperties, ElementOfSeq DEF Reads, Output
<1>2. content \in Output /\ SubSeq(content, 1, length) = content
  <2>1. content \in [1..length -> OutputItem \cup {Wall}]
    BY <1>1, LenProperties
  <2>2. content \in Output
    BY <1>1, <2>1, Sequences, Zenon DEF Output
  <2> DEFINE front == SubSeq(content, 1, length)
  <2>3. front \in Seq(OutputItem) /\ Len(front) = length /\ \A i \in 1..length : front[i] = content[i]
    BY <1>1
  <2>4. front = content
    <3> HIDE DEF front
    <3>1. QED
      BY <2>3, SeqEqual
  <2>5. QED
    BY <2>2, <2>4
<1>3. PICK f \in [0..Len(content) -> Walk] :
        /\ Backwards(WalkItem, content, w) = f[Len(content)] /\ f[0] = w
        /\ \A n \in 1..Len(content) : f[n] = WalkItem(content[Len(content) + 1 - n], f[n - 1])
  BY <1>1, ContentUnfolds
<1> DEFINE good == {n \in Nat : n <= length => Reads(last(n) \o items, f[n])}
<1>4. 0 \in good
  <2>1. last(0) = <<>> 
    BY <1>1
  <2>2. <<>> \o items = items
    BY <1>1 DEF Output
  <2>3. QED
    BY <1>3, <2>1, <2>2
<1>5. ASSUME NEW n \in Nat, n \in good PROVE n + 1 \in good
  <2>1. SUFFICES ASSUME n + 1 <= length PROVE Reads(last(n + 1) \o items, f[n + 1])
    OBVIOUS
  <2> DEFINE item == content[length - n]
  <2>2. item \in OutputItem /\ f[n + 1] = WalkItem(item, f[n])
    <3>1. n + 1 \in 1..length /\ (n + 1) - 1 = n /\ length + 1 - (n + 1) = length - n /\ length - n \in 1..length
      BY <1>1, <2>1
    <3>2. QED
      BY <1>1, <1>3, <3>1
  <2>3. last(n + 1) \o items = <<item>> \o (last(n) \o items)
    <3> DEFINE s == last(n + 1) 
               t == last(n)
               u == t \o items
               left == s \o items
               right == <<item>> \o u
    <3>1. /\ s \in Output /\ Len(s) = n + 1 /\ \A i \in 1..(n + 1) : s[i] = content[length - n + i - 1]
          /\ t \in Output /\ Len(t) = n /\ \A i \in 1..n : t[i] = content[length - n + i]
      <4>1. /\ length + 1 - (n + 1) = length - n /\ length - n \in 1..length
            /\ length + 1 - n \in 1..(length + 1) /\ length \in Nat
        BY <1>1, <2>1
      <4>2. s \in Output /\ Len(s) = n + 1 /\ \A i \in 1..(n + 1) : s[i] = content[length - n + i - 1]
        BY <1>2, <4>1, SubSeqProperties DEF Output
      <4>3. t \in Output /\ Len(t) = n /\ \A i \in 1..n : t[i] = content[length - n + i]
        BY <1>2, <4>1, SubSeqProperties DEF Output
      <4>4. QED
        BY <4>2, <4>3
    <3> HIDE DEF s, t
    <3>2. /\ u \in Output /\ Len(u) = n + Len(items)
          /\ \A i \in 1..(n + Len(items)) : u[i] = IF i <= n THEN t[i] ELSE items[i - n]
      BY <1>1, <3>1, OutputJoins
    <3>3. /\ left \in Output /\ Len(left) = n + 1 + Len(items)
          /\ \A i \in 1..(n + 1 + Len(items)) : left[i] = IF i <= n + 1 THEN s[i] ELSE items[i - (n + 1)]
      <4>1. /\ left \in Output /\ Len(left) = Len(s) + Len(items)
            /\ \A i \in 1..(Len(s) + Len(items)) : left[i] = IF i <= Len(s) THEN s[i] ELSE items[i - Len(s)]
        BY <1>1, <3>1, OutputJoins
      <4> HIDE DEF left
      <4>2. QED
        BY <3>1, <4>1
    <3> HIDE DEF u
    <3>4. /\ right \in Output /\ Len(right) = Len(u) + 1 /\ right[1] = item
          /\ \A i \in 1..Len(u) : right[i + 1] = u[i]
      <4>1. item \in OutputItem \cup {Wall}
        BY <2>2
      <4> HIDE DEF item
      <4>2. QED
        BY <3>2, <4>1, Prepended DEF Output
    <3> HIDE DEF left, right
    <3>5. ASSUME NEW i \in 1..Len(left) PROVE left[i] = right[i]
      <4>1. CASE i = 1
        <5>1. left[1] = s[1] /\ s[1] = content[length - n]
          BY <1>1, <3>1, <3>3, <4>1
        <5>2. QED
          BY <3>4, <4>1, <5>1
      <4>2. CASE i \in 2..(n + 1)
        <5>1. i - 1 \in 1..n /\ i - 1 \in 1..Len(u) /\ (i - 1) + 1 = i /\ i \in 1..(n + 1)
          BY <1>1, <3>2, <4>2
        <5>2. right[i] = t[i - 1] /\ left[i] = s[i]
          BY <1>1, <3>2, <3>3, <3>4, <5>1
        <5>3. t[i - 1] = content[length - n + (i - 1)] /\ s[i] = content[length - n + i - 1]
          BY <3>1, <5>1
        <5>4. length - n + (i - 1) = length - n + i - 1
          BY <1>1
        <5>5. QED
          BY <5>2, <5>3, <5>4
      <4>3. CASE i > n + 1
        <5>1. /\ i - 1 \in 1..Len(u) /\ (i - 1) + 1 = i /\ ~(i - 1 <= n) /\ ~(i <= n + 1)
              /\ (i - 1) - n = i - (n + 1)
          BY <1>1, <3>2, <3>3, <4>3
        <5>2. right[i] = items[(i - 1) - n] /\ left[i] = items[i - (n + 1)]
          BY <1>1, <3>2, <3>3, <3>4, <5>1
        <5>3. QED
          BY <5>1, <5>2
      <4>4. QED
        BY <3>3, <4>1, <4>2, <4>3
    <3>6. left = right
      <4>1. Len(left) = Len(right)
        BY <1>1, <3>2, <3>3, <3>4
      <4>2. QED
        BY <3>3, <3>4, <3>5, <4>1, SeqEqual DEF Output
    <3>7. QED
      BY <3>6 DEF left, right, s, t, u
  <2>4. Reads(last(n) \o items, f[n])
    BY <1>1, <1>5, <2>1
  <2> HIDE DEF last, item
  <2>5. QED
    BY <2>2, <2>3, <2>4, ReadsItem, Zenon
<1> HIDE DEF good
<1>6. length \in good
  BY <1>1, <1>4, <1>5, NatSetInduction
<1>7. last(length) = content
  <2>1. length + 1 - length = 1
    BY <1>1
  <2>2. QED
    BY <1>2, <2>1
<1>8. QED
  BY <1>1, <1>3, <1>6, <1>7 DEF good

\* The items of a step, as AfterInput lays them out.
Laid(step) == IF step.kind = "answer" /\ step.content # None THEN step.content ELSE <<Wall>>

LEMMA LaidTyped == ASSUME NEW step \in OutputStep PROVE Laid(step) \in Output
<1>1. CASE step.kind = "answer" /\ step.content # None
  <2> DEFINE content == step.content
  <2>1. content \in Seq(OutputItem) /\ Laid(step) = content
    BY <1>1 DEF Laid, OutputStep, Maybe
  <2> HIDE DEF content
  <2>2. content \in [1..Len(content) -> OutputItem \cup {Wall}] /\ Len(content) \in Nat
    BY <2>1, LenProperties, ElementOfSeq
  <2>3. QED
    BY <2>1, <2>2, Sequences, Zenon DEF Output
<1>2. CASE ~(step.kind = "answer" /\ step.content # None)
  <2>1. Laid(step) = <<Wall>>
    BY <1>2 DEF Laid
  <2>2. \A x : <<x>> \in Seq(OutputItem \cup {x})
    OBVIOUS
  <2>3. QED
    BY <2>1, <2>2, Zenon DEF Output
<1>3. QED
  BY <1>1, <1>2

\* A step that is no input, read as the walk reads it.
LEMMA ReadsStep ==
  ASSUME NEW items, NEW w, Reads(items, w), NEW step \in OutputStep, step.kind # "input"
  PROVE  Reads(Laid(step) \o items, WalkStep(step, w))
<1>1. CASE w.over
  <2>1. [w EXCEPT !.over = TRUE] = w
    BY <1>1 DEF Reads, Walk
  <2>2. WalkStep(step, w) = w
    BY <1>1, <2>1 DEF WalkStep
  <2>3. QED
    BY <1>1, <2>2, LaidTyped, ReadsOver, Zenon
<1>2. CASE ~w.over /\ step.kind = "answer" /\ step.content # None
  <2>1. step.content \in Seq(OutputItem)
    BY <1>2 DEF OutputStep, Maybe
  <2>2. WalkStep(step, w) = Backwards(WalkItem, step.content, w) /\ Laid(step) = step.content
    BY <1>2, Zenon DEF WalkStep, Laid
  <2> DEFINE content == step.content
  <2> HIDE DEF content
  <2>3. Reads(content \o items, Backwards(WalkItem, content, w))
    BY <2>1, ReadsContent DEF content
  <2>4. QED
    BY <2>2, <2>3, Zenon DEF content
<1>3. CASE ~w.over /\ ~(step.kind = "answer" /\ step.content # None)
  <2>1. WalkStep(step, w) = Skip(w) /\ Laid(step) = <<Wall>>
    BY <1>3 DEF WalkStep, Laid
  <2>2. Wall \in OutputItem \cup {Wall} /\ ~IsText(Wall)
    BY DEF Wall, IsText
  <2>3. Reads(<<Wall>> \o items, Skip(w))
    BY <1>3, <2>2, ReadsNoText
  <2>4. QED
    BY <2>1, <2>3
<1>4. QED
  BY <1>1, <1>2, <1>3

\* What has been read is the last run of text.
LEMMA RunIsLast ==
  ASSUME NEW items, NEW w, Reads(items, w) PROVE LastRun(items) = Texts(w.parts)
<1> DEFINE runs == {r \in (DOMAIN items) \X (DOMAIN items) :
                 /\ r[1] <= r[2] /\ \A i \in r[1]..r[2] : IsText(items[i])
                 /\ \A i \in DOMAIN items : i > r[2] => ~IsText(items[i])}
           run == CHOOSE r \in runs : \A s \in runs : r[1] <= s[1]
<1>1. LastRun(items) = IF runs = {} THEN <<>> ELSE Texts(SubSeq(items, run[1], run[2]))
  BY Zenon DEF LastRun, IsText
<1>2. /\ items \in Output /\ Len(items) \in Nat /\ DOMAIN items = 1..Len(items)
      /\ w.parts \in Seq(OutputItem) /\ Len(w.parts) \in Nat
  <2>1. items \in Output /\ w.parts \in Seq(OutputItem)
    BY DEF Reads, Walk
  <2>2. QED
    BY <2>1, LenProperties DEF Output
<1>3. CASE w.parts = <<>> /\ \A i \in 1..Len(items) : ~IsText(items[i])
  <2>1. runs = {}
    <3>1. ASSUME NEW r \in runs PROVE FALSE
      <4>1. r[1] \in 1..Len(items) /\ r[1] <= r[2] /\ r[2] \in 1..Len(items) /\ \A i \in r[1]..r[2] : IsText(items[i])
        BY <1>2
      <4>2. r[1] \in r[1]..r[2]
        BY <1>2, <4>1
      <4>3. QED
        BY <1>3, <4>1, <4>2
    <3>2. QED
      BY <3>1
  <2>2. Texts(<<>>) = <<>>
    <3> DEFINE kept == {i \in DOMAIN <<>> : <<>>[i].kind = "text"}
    <3>1. kept \cap DOMAIN <<>> = {} /\ <<>> \in Seq({})
      OBVIOUS
    <3> HIDE DEF kept
    <3>2. Sift(<<>>, kept) = <<>>
      BY <3>1, SiftsNone, Zenon
    <3>3. QED
      BY <3>2 DEF Texts, kept
  <2>3. QED
    BY <1>1, <1>3, <2>1, <2>2, Zenon
<1>4. ASSUME NEW a \in Nat \ {0}, NEW b \in Nat \ {0}, IsRun(items, a, b, w)
      PROVE  LastRun(items) = Texts(w.parts)
  <2>1. /\ a <= b /\ b <= Len(items) /\ a \in 1..Len(items) /\ b \in 1..Len(items)
        /\ \A i \in a..b : IsText(items[i])
        /\ \A i \in 1..Len(items) : i > b => ~IsText(items[i])
        /\ a = 1 \/ (a - 1 \in 1..Len(items) /\ ~IsText(items[a - 1]))
    BY <1>2, <1>4 DEF IsRun
  <2> DEFINE last == <<a, b>>
  <2>2. last \in runs
    BY <1>2, <2>1
  <2>3. ASSUME NEW r \in runs PROVE r[1] \in Nat /\ a <= r[1] /\ r[2] = b /\ r = <<r[1], r[2]>>
    <3>1. /\ r = <<r[1], r[2]>> /\ r[1] \in 1..Len(items) /\ r[2] \in 1..Len(items)
          /\ r[1] <= r[2] /\ \A i \in r[1]..r[2] : IsText(items[i])
          /\ \A i \in 1..Len(items) : i > r[2] => ~IsText(items[i])
      BY <1>2
    <3> HIDE DEF runs
    <3>2. r[2] = b
      <4>1. r[2] \in r[1]..r[2] /\ b \in a..b
        BY <1>2, <2>1, <3>1
      <4>2. ~(r[2] > b) /\ ~(b > r[2])
        BY <2>1, <3>1, <4>1
      <4>3. QED
        BY <1>2, <2>1, <3>1, <4>2
    <3>3. a <= r[1]
      <4>1. SUFFICES ASSUME r[1] < a PROVE FALSE
        BY <1>2, <3>1
      <4>2. a - 1 \in r[1]..r[2] /\ a # 1
        BY <1>2, <2>1, <3>1, <3>2, <4>1
      <4>3. QED
        BY <2>1, <3>1, <4>2
    <3>4. QED
      BY <3>1, <3>2, <3>3
  <2> HIDE DEF runs
  <2>4. run \in runs /\ run[1] <= a
    <3>1. last[1] = a /\ \A s \in runs : last[1] <= s[1]
      BY <2>3
    <3>2. run \in runs /\ \A s \in runs : run[1] <= s[1]
      BY <2>2, <3>1
    <3>3. QED
      BY <2>2, <3>1, <3>2
  <2> HIDE DEF run
  <2>5. run[1] = a /\ run[2] = b
    BY <2>3, <2>4
  <2> DEFINE part == SubSeq(items, a, b)
             texts == w.parts
  <2>6. part = texts
    <3>1. /\ part \in Output /\ Len(part) = b - a + 1 /\ \A k \in 1..(b - a + 1) : part[k] = items[a + k - 1]
      BY <1>2, <2>1, SubSeqProperties DEF Output
    <3>2. /\ texts \in [1..Len(texts) -> OutputItem \cup {Wall}] /\ Len(texts) \in Nat
          /\ Len(texts) = b - a + 1 /\ \A k \in 1..(b - a + 1) : texts[k] = items[a + k - 1]
      BY <1>2, <1>4, LenProperties, ElementOfSeq DEF IsRun
    <3> HIDE DEF part, texts
    <3>3. texts \in Output
      BY <3>2, Sequences, Zenon DEF Output
    <3>4. Len(part) = Len(texts) /\ \A k \in 1..Len(part) : part[k] = texts[k]
      BY <3>1, <3>2
    <3>5. QED
      BY <3>1, <3>3, <3>4, SeqEqual DEF Output
  <2> HIDE DEF part
  <2>7. runs # {}
    BY <2>2
  <2>8. QED
    BY <1>1, <2>5, <2>6, <2>7, Zenon DEF part
<1>5. QED
  BY <1>3, <1>4 DEF Reads

\* The walk reads what is after the last input, and no more.
LEMMA OutputRead ==
  ASSUME NEW output \in Seq(OutputStep)
  PROVE  OutputText(output) = LastRun(AfterInput(output))
<1> DEFINE length == Len(output)
           start == [parts |-> <<>>, over |-> FALSE]
           inputs == {i \in DOMAIN output : output[i].kind = "input"}
           first == IF inputs = {} THEN 1 ELSE 1 + CHOOSE i \in inputs : \A j \in inputs : j <= i
           after == SubSeq(output, first, length)
           laid == [i \in DOMAIN after |-> Laid(after[i])]
<1>1. length \in Nat /\ DOMAIN output = 1..length /\ \A i \in 1..length : output[i] \in OutputStep
  BY LenProperties, ElementOfSeq
<1>2. start \in Walk
  BY DEF Walk
<1>3. OutputText(output) = Texts(Backwards(WalkStep, output, start).parts)
  BY DEF OutputText
<1>4. AfterInput(output) = Flat(laid)
  BY Zenon DEF AfterInput, Laid, Wall
<1>5. /\ first \in 1..(length + 1)
      /\ first > 1 => output[first - 1].kind = "input"
      /\ \A i \in first..length : output[i].kind # "input"
  <2>1. CASE inputs = {}
    BY <1>1, <2>1
  <2>2. CASE inputs # {}
    <3> DEFINE last == CHOOSE i \in inputs : \A j \in inputs : j <= i
    <3>1. inputs \in SUBSET (0..length)
      BY <1>1
    <3>2. last \in inputs /\ \A j \in inputs : j <= last
      <4> HIDE DEF inputs
      <4>1. \E i \in inputs : \A j \in inputs : j <= i
        BY <1>1, <2>2, <3>1, Greatest
      <4>2. QED
        BY <4>1
    <3> HIDE DEF last
    <3>3. first = 1 + last
      BY <2>2 DEF last
    <3>4. last \in 1..length /\ output[last].kind = "input"
      BY <1>1, <3>2
    <3>5. ASSUME NEW i \in first..length PROVE output[i].kind # "input"
      <4>1. i \in 1..length /\ ~(i <= last)
        BY <1>1, <3>3, <3>4
      <4>2. QED
        BY <1>1, <3>2, <4>1
    <3> HIDE DEF first
    <3>6. first - 1 = last /\ first \in 1..(length + 1)
      BY <1>1, <3>3, <3>4
    <3>7. QED
      BY <3>4, <3>5, <3>6
  <2>3. QED
    BY <2>1, <2>2
<1> HIDE DEF start, inputs, first, length
<1> DEFINE count == length + 1 - first
<1>6. /\ count \in 0..length /\ Len(after) = count /\ DOMAIN after = 1..count
      /\ \A i \in 1..count : after[i] = output[first + i - 1] /\ after[i] \in OutputStep
  <2>1. /\ after \in Seq(OutputStep) /\ Len(after) = count
        /\ \A i \in 1..count : after[i] = output[first + i - 1]
    <3>1. first \in 1..(length + 1) /\ length \in 0..Len(output)
      BY <1>1, <1>5 DEF length
    <3>2. QED
      BY <1>1, <1>5, <3>1, SubSeqProperties
  <2> HIDE DEF after
  <2>2. DOMAIN after = 1..Len(after) /\ \A i \in 1..Len(after) : after[i] \in OutputStep
    BY <2>1, LenProperties, ElementOfSeq
  <2>3. QED
    BY <1>1, <1>5, <2>1, <2>2
<1> HIDE DEF after, count
<1>7. laid \in Seq(Output) /\ Len(laid) = count /\ \A i \in 1..count : laid[i] = Laid(after[i])
  <2>1. laid \in [1..count -> Output] /\ count \in Nat
    BY <1>1, <1>6, LaidTyped
  <2>2. laid \in Seq(Output)
    BY <2>1, Sequences, Zenon
  <2>3. QED
    BY <1>6, <2>1, <2>2, LenProperties
<1> HIDE DEF laid
<1>8. PICK f \in [0..count -> Output] :
        /\ Flat(laid) = f[count] /\ f[0] = <<>>
        /\ \A n \in 1..count : f[n] = laid[count + 1 - n] \o f[n - 1]
  <2>1. \E f \in [0..Len(laid) -> Output] :
          /\ Flat(laid) = f[Len(laid)] /\ f[0] = <<>>
          /\ \A n \in 1..Len(laid) : f[n] = laid[Len(laid) + 1 - n] \o f[n - 1]
    BY <1>7, FlatUnfolds DEF Output
  <2>2. Len(laid) = count
    BY <1>7
  <2>3. QED
    BY <2>1, <2>2, Zenon
<1>9. PICK w \in [0..Len(output) -> Walk] :
        /\ Backwards(WalkStep, output, start) = w[Len(output)] /\ w[0] = start
        /\ \A n \in 1..Len(output) : w[n] = WalkStep(output[Len(output) + 1 - n], w[n - 1])
  BY <1>2, OutputUnfolds
<1> DEFINE good == {n \in Nat : n <= count => Reads(f[n], w[n])}
<1>10. 0 \in good
  <2>1. start.parts = <<>> /\ ~start.over /\ start \in Walk
    BY <1>2 DEF start
  <2>2. <<>> \in Output /\ \A i \in 1..Len(<<>>) : FALSE
    BY DEF Output
  <2>3. QED
    BY <1>8, <1>9, <2>1, <2>2 DEF Reads
<1>11. ASSUME NEW n \in Nat, n \in good PROVE n + 1 \in good
  <2>1. SUFFICES ASSUME n + 1 <= count PROVE Reads(f[n + 1], w[n + 1])
    OBVIOUS
  <2>2. /\ n + 1 \in 1..count /\ n + 1 \in 1..length /\ (n + 1) - 1 = n
        /\ count + 1 - (n + 1) = count - n /\ length + 1 - (n + 1) = length - n
        /\ count - n \in 1..count /\ first + (count - n) - 1 = length - n
        /\ length - n \in first..length /\ length - n \in 1..length
    <3>1. first \in Nat /\ 1 <= first /\ first <= length + 1 /\ count = length + 1 - first
      BY <1>1, <1>5 DEF count
    <3>2. QED
      BY <1>1, <2>1, <3>1
  <2> DEFINE step == output[length - n]
  <2>3. step \in OutputStep /\ step.kind # "input" /\ step = after[count - n]
    BY <1>1, <1>5, <1>6, <2>2
  <2> HIDE DEF step
  <2>4. w[n + 1] = WalkStep(step, w[n])
    BY <1>9, <2>2 DEF step, length
  <2>5. f[n + 1] = Laid(step) \o f[n]
    BY <1>7, <1>8, <2>2, <2>3
  <2>6. Reads(f[n], w[n])
    BY <1>6, <1>11, <2>1
  <2>7. QED
    BY <2>3, <2>4, <2>5, <2>6, ReadsStep
<1> HIDE DEF good
<1>12. Reads(f[count], w[count])
  <2>1. Nat \subseteq good
    BY <1>10, <1>11, NatSetInduction
  <2>2. QED
    <3>1. count \in Nat /\ count <= count
      BY <1>1, <1>6
    <3>2. count \in good
      BY <2>1, <3>1
    <3>3. QED
      BY <3>1, <3>2 DEF good
<1> DEFINE rest == {n \in Nat : n <= length /\ n > count =>
             w[n].parts = w[count].parts /\ w[n].over}
<1>13. 0 \in rest
  BY <1>1, <1>6
<1>14. ASSUME NEW n \in Nat, n \in rest PROVE n + 1 \in rest
  <2>1. SUFFICES ASSUME n + 1 <= length, n + 1 > count
                 PROVE  w[n + 1].parts = w[count].parts /\ w[n + 1].over
    OBVIOUS
  <2>2. /\ n + 1 \in 1..length /\ (n + 1) - 1 = n /\ n \in 0..length
        /\ length + 1 - (n + 1) = length - n
    BY <1>1, <2>1
  <2>3. w[n + 1] = WalkStep(output[length - n], w[n]) /\ w[n] \in Walk
    BY <1>9, <2>2 DEF length
  <2>4. w[n].parts = w[count].parts /\ (w[n].over \/ output[length - n].kind = "input")
    <3>1. CASE n = count
      <4>1. first > 1 /\ length - n = first - 1
        BY <1>1, <1>5, <2>1, <3>1 DEF count
      <4>2. QED
        BY <1>5, <3>1, <4>1
    <3>2. CASE n > count
      BY <1>14, <2>2, <3>2
    <3>3. QED
      BY <1>1, <1>6, <2>1, <3>1, <3>2
  <2>5. w[n + 1] = [w[n] EXCEPT !.over = TRUE]
    BY <2>3, <2>4 DEF WalkStep
  <2>6. w[n + 1].parts = w[n].parts /\ w[n + 1].over
    BY <2>3, <2>5 DEF Walk
  <2>7. QED
    BY <2>4, <2>6
<1> HIDE DEF rest
<1>15. w[length].parts = w[count].parts
  <2>1. length \in rest
    BY <1>1, <1>13, <1>14, NatSetInduction
  <2>2. length = count \/ length > count
    BY <1>1, <1>6
  <2>3. QED
    BY <1>1, <2>1, <2>2 DEF rest
<1>16. LastRun(f[count]) = Texts(w[count].parts)
  BY <1>12, RunIsLast
<1>17. QED
  BY <1>3, <1>4, <1>8, <1>9, <1>15, <1>16, Zenon DEF length

-----------------------------------------------------------------------------
\* The limit as the attempt goes on: no response before its head, none that
\* declares too much once the body is read, nothing recorded or returned
\* before the end.
Underway ==
  /\ ask \in Asks
  /\ pc \in {"resolving", "idle", "waiting", "sent", "reading", "ended"}
  /\ pc \notin {"resolving", "ended"} => provider.limit \in Nat
  /\ pc \in {"resolving", "idle", "waiting", "sent"} => read = 0 /\ response = None
  /\ pc = "reading" => response \in Responses /\ ~(response.declared > provider.limit)
  /\ read \in Nat
  /\ DOMAIN trace = {"request", "response", "finish"}
  /\ pc # "ended" => outcome = None /\ trace.response = None

IInv == Underway /\ WithinLimit /\ StatusDecides

-----------------------------------------------------------------------------
USE ProviderAssumption

\* What each kind of failure is told as.
LEMMA ToldKinds ==
  /\ \A kind, status, message, kept :
       /\ Told(kind, status, message, kept).kind = kind
       /\ Told(kind, status, message, kept).status = status
       /\ Told(kind, status, message, kept).message = message
       /\ Told(kind, status, message, kept).kept = kept
  /\ \A f : Connection(f).kind \in {"Connection", "Passed"}
BY DEF Told, Connection, Withheld

\* An API error has its response's status; that of a body over the limit
\* holds none of the body.
LEMMA ApiErrors ==
  ASSUME NEW r \in Responses
  PROVE  /\ \A whole : ApiError(r, whole).kind = "Api" /\ ApiError(r, whole).status = r.status
         /\ ApiError(r, FALSE).message = Fixed
         /\ ApiError(r, FALSE).kept \in {<<>>, r.headers}
<1>1. r.headers \in Seq(Tokens)
  BY SeqMonotonic DEF Response, Text, Written
<1>2. r.headers \o <<>> = r.headers
  BY <1>1
<1>3. QED
  BY <1>2, ToldKinds DEF ApiError, NotShown

\* A body over the limit is told by the status.
LEMMA TooLargeTold ==
  ASSUME NEW r \in Responses
  PROVE  \/ Success(r.status) /\ TooLarge(r).kind = "ResponseTooLarge"
         \/ /\ ~Success(r.status)
            /\ TooLarge(r).kind = "Api" /\ TooLarge(r).status = r.status
            /\ TooLarge(r).message = Fixed /\ TooLarge(r).kept \in {<<>>, r.headers}
<1>1. CASE Success(r.status)
  BY <1>1, ToldKinds DEF TooLarge
<1>2. CASE ~Success(r.status)
  <2>1. TooLarge(r) = ApiError(r, FALSE)
    BY <1>2 DEF TooLarge
  <2>2. QED
    BY <1>2, <2>1, ApiErrors, ZenonT(60)
<1>3. QED
  BY <1>1, <1>2

\* What is read of a success response is an answer or a non-answer.
LEMMA ReadingTold ==
  ASSUME NEW b, NEW status
  PROVE  Reading(b, status).told.kind \in {"Answer", "NonAnswer"}
<1>1. \A reason : NonAnswer(reason, status).kind = "NonAnswer"
  BY ToldKinds DEF NonAnswer
<1>2. \A items : [Told("Answer", status, <<>>, <<>>) EXCEPT !.text = items].kind = "Answer"
  BY DEF Told
<1>3. \A finish, reason :
        Screened(b, finish, NonAnswer(reason, status)).told.kind = "NonAnswer"
  BY <1>1, ToldKinds DEF Screened, NonAnswer
<1>4. QED
  BY <1>2, <1>3 DEF Reading

\* A provider that is not refused has a limit: its builder's, else the default.
LEMMA SettledLimit ==
  ASSUME NEW a \in Asks, NEW b, b = Resolve(a.client, a.call), ~IsRefused(b),
         NEW p, p = Settle(b, a.env), ~IsRefused(p)
  PROVE  p.limit \in Nat
<1>1. b.max_response_bytes \in Nat \cup {None}
  <2>1. \/ b \in {a.client.instance, a.call.instance} \ {None}
        \/ \E why : b = Refused(why)
        \/ \E vendor, model : b = NewBuilder(vendor, model)
    BY DEF Resolve
  <2>2. \A why : IsRefused(Refused(why))
    BY DEF IsRefused, Refused
  <2>3. \A vendor, model : NewBuilder(vendor, model).max_response_bytes = None
    BY DEF NewBuilder
  <2>4. QED
    BY <2>1, <2>2, <2>3
<1>2. \/ \E why : p = Refused(why)
      \/ p.limit = Or(b.max_response_bytes, DefaultLimit)
  BY DEF Settle
<1>3. \A why : IsRefused(Refused(why))
  BY DEF IsRefused, Refused
<1>4. QED
  BY <1>1, <1>2, <1>3 DEF Or

-----------------------------------------------------------------------------
(* Texts: what a search finds, and what escaping and cutting make of it. *)

\* A token occurs in a text.
In(token, t) == \E i \in DOMAIN t : t[i] = token

\* A text that spells the key once it is decoded or escaped.
Respelled(t) == In("escaped", t) \/ In("tabbed", t)

LEMMA WrittenTexts == Text \subseteq Seq(Tokens) /\ \A t \in Text : ~In("part", t)
<1>1. Text \subseteq Seq(Tokens)
  BY SeqMonotonic DEF Text, Written
<1>2. ASSUME NEW t \in Text, NEW i \in DOMAIN t PROVE t[i] # "part"
  <2>1. t \in Seq(Written) /\ i \in 1..Len(t)
    BY LenProperties DEF Text
  <2>2. t[i] \in Written
    BY <2>1, ElementOfSeq
  <2>3. QED
    BY <2>2 DEF Written
<1>3. QED
  BY <1>1, <1>2 DEF In

LEMMA InJoined ==
  ASSUME NEW s \in Seq(Tokens), NEW t \in Seq(Tokens), NEW token
  PROVE  s \o t \in Seq(Tokens) /\ (In(token, s \o t) <=> In(token, s) \/ In(token, t))
<1>1. /\ s \o t \in Seq(Tokens) /\ Len(s) \in Nat /\ Len(t) \in Nat
      /\ DOMAIN s = 1..Len(s) /\ DOMAIN t = 1..Len(t)
      /\ DOMAIN (s \o t) = 1..(Len(s) + Len(t))
      /\ \A i \in 1..(Len(s) + Len(t)) :
           (s \o t)[i] = IF i <= Len(s) THEN s[i] ELSE t[i - Len(s)]
  <2>1. s \o t \in Seq(Tokens) /\ Len(s \o t) = Len(s) + Len(t)
    BY ConcatProperties
  <2>2. QED
    BY <2>1, ConcatProperties, LenProperties
<1> DEFINE u == s \o t
<1> HIDE DEF u
<1>2. ASSUME NEW i \in DOMAIN s, s[i] = token PROVE In(token, u)
  BY <1>1, <1>2 DEF u, In
<1>3. ASSUME NEW i \in DOMAIN t, t[i] = token PROVE In(token, u)
  <2>1. i + Len(s) \in 1..(Len(s) + Len(t)) /\ ~(i + Len(s) <= Len(s)) /\ (i + Len(s)) - Len(s) = i
    BY <1>1
  <2>2. u[i + Len(s)] = token
    BY <1>1, <1>3, <2>1 DEF u
  <2>3. QED
    BY <1>1, <2>1, <2>2 DEF u, In
<1>4. ASSUME NEW i \in DOMAIN u, u[i] = token PROVE In(token, s) \/ In(token, t)
  <2>1. CASE i <= Len(s)
    BY <1>1, <1>4, <2>1 DEF u, In
  <2>2. CASE ~(i <= Len(s))
    <3>1. i - Len(s) \in DOMAIN t /\ t[i - Len(s)] = token
      BY <1>1, <1>4, <2>2 DEF u
    <3>2. QED
      BY <3>1 DEF In
  <2>3. QED
    BY <2>1, <2>2
<1>5. QED
  BY <1>1, <1>2, <1>3, <1>4 DEF In, u

\* A text rewritten token by token is a text.
LEMMA Rewritten ==
  ASSUME NEW t \in Seq(Tokens), NEW u, DOMAIN u = DOMAIN t, u = [i \in DOMAIN t |-> u[i]],
         \A i \in DOMAIN t : u[i] \in Tokens
  PROVE  u \in Seq(Tokens) /\ Len(u) = Len(t)
<1>1. Len(t) \in Nat /\ DOMAIN t = 1..Len(t)
  BY LenProperties
<1>2. u \in [1..Len(t) -> Tokens]
  BY <1>1
<1>3. u \in Seq(Tokens)
  BY <1>1, <1>2
<1>4. QED
  BY <1>1, <1>3, LenProperties

\* Escaping spells the key of a control character, and nothing else anew.
LEMMA Escapes ==
  ASSUME NEW t \in Seq(Tokens)
  PROVE  /\ Escape(t) \in Seq(Tokens)
         /\ In("key", Escape(t)) => In("key", t) \/ In("tabbed", t)
         /\ In("part", Escape(t)) => In("part", t)
<1>1. \A i \in DOMAIN t : t[i] \in Tokens
  BY LenProperties, ElementOfSeq
<1>2. /\ DOMAIN Escape(t) = DOMAIN t
      /\ \A i \in DOMAIN t : Escape(t)[i] = IF t[i] = "tabbed" THEN "key" ELSE t[i]
  BY DEF Escape
<1>3. Escape(t) = [i \in DOMAIN t |-> Escape(t)[i]]
  BY DEF Escape
<1>4. \A i \in DOMAIN t : Escape(t)[i] \in Tokens
  BY <1>1, <1>2 DEF Tokens
<1>5. Escape(t) \in Seq(Tokens)
  BY <1>2, <1>3, <1>4, Rewritten
<1>6. QED
  BY <1>2, <1>5 DEF In

LEMMA Decodes ==
  ASSUME NEW t \in Seq(Tokens)
  PROVE  /\ Decode(t) \in Seq(Tokens)
         /\ In("key", Decode(t)) => In("key", t) \/ In("escaped", t)
         /\ In("tabbed", Decode(t)) => In("tabbed", t)
         /\ In("part", Decode(t)) => In("part", t)
<1>1. \A i \in DOMAIN t : t[i] \in Tokens
  BY LenProperties, ElementOfSeq
<1>2. /\ DOMAIN Decode(t) = DOMAIN t
      /\ \A i \in DOMAIN t : Decode(t)[i] = IF t[i] = "escaped" THEN "key" ELSE t[i]
  BY DEF Decode
<1>3. Decode(t) = [i \in DOMAIN t |-> Decode(t)[i]]
  BY DEF Decode
<1>4. \A i \in DOMAIN t : Decode(t)[i] \in Tokens
  BY <1>1, <1>2 DEF Tokens
<1>5. Decode(t) \in Seq(Tokens)
  BY <1>2, <1>3, <1>4, Rewritten
<1>6. QED
  BY <1>2, <1>5 DEF In

\* A cut leaves what came before it, and at most a part of a key.
LEMMA Cuts ==
  ASSUME NEW t \in Seq(Tokens)
  PROVE  /\ Cut(t) \in Seq(Tokens)
         /\ In("key", Cut(t)) => In("key", t)
         /\ In("part", Cut(t)) => In("part", t) \/ In("key", t)
<1>1. CASE Width(t) <= MaxMessage
  BY <1>1 DEF Cut
<1>2. CASE ~(Width(t) <= MaxMessage)
  <2> DEFINE fits == {n \in 0..Len(t) : Width(SubSeq(t, 1, n)) <= MaxMessage}
             n == CHOOSE n \in fits : \A m \in fits : m <= n
             whole == SubSeq(t, 1, n)
  <2>1. Len(t) \in Nat /\ DOMAIN t = 1..Len(t) /\ \A i \in 1..Len(t) : t[i] \in Tokens
    BY LenProperties, ElementOfSeq
  <2>2. Width(<<>>) = 0
    <3>1. {i \in DOMAIN <<>> : <<>>[i] = "key"} = {} /\ Len(<<>>) = 0
      OBVIOUS
    <3>2. QED
      BY <3>1, FS_EmptySet DEF Width
  <2>3. SubSeq(t, 1, 0) = <<>> /\ SubSeq(t, 1, Len(t)) = t
    BY <2>1, SubSeqEmpty, SubSeqFull
  <2>4. 0 \in fits
    <3>1. Width(SubSeq(t, 1, 0)) = 0
      BY <2>2, <2>3
    <3>2. 0 \in 0..Len(t) /\ 0 <= MaxMessage
      BY <2>1
    <3>3. QED
      BY <3>1, <3>2
  <2>5. Len(t) \notin fits
    BY <1>2, <2>3
  <2>6. n \in fits
    <3>1. fits \in SUBSET (0..Len(t)) /\ fits # {}
      BY <2>4
    <3> HIDE DEF fits
    <3>2. \E m \in fits : \A k \in fits : k <= m
      BY <2>1, <3>1, Greatest
    <3>3. QED
      BY <3>2
  <2>7. n \in 0..(Len(t) - 1)
    BY <2>1, <2>5, <2>6
  <2>8. Cut(t) = IF t[n + 1] = "key" /\ Width(whole) < MaxMessage THEN Append(whole, "part") ELSE whole
    BY <1>2 DEF Cut
  <2> HIDE DEF n, fits
  <2>9. /\ whole \in Seq(Tokens) /\ Len(whole) = n
        /\ \A i \in 1..n : whole[i] = t[i]
    BY <2>1, <2>7, SubSeqProperties
  <2>10. DOMAIN whole = 1..n
    BY <2>9, LenProperties
  <2> HIDE DEF whole
  <2>11. \A token : In(token, whole) => In(token, t)
    BY <2>1, <2>7, <2>9, <2>10 DEF In
  <2>12. CASE t[n + 1] = "key" /\ Width(whole) < MaxMessage
    <3>1. In("key", t)
      BY <2>1, <2>7, <2>12 DEF In
    <3>2. "part" \in Tokens
      BY DEF Tokens
    <3>3. /\ Append(whole, "part") \in Seq(Tokens)
          /\ Len(Append(whole, "part")) = n + 1
          /\ \A i \in 1..n : Append(whole, "part")[i] = whole[i]
          /\ Append(whole, "part")[n + 1] = "part"
      BY <2>9, <3>2, AppendProperties
    <3>4. Cut(t) = Append(whole, "part")
      BY <2>8, <2>12
    <3>5. DOMAIN Cut(t) = 1..(n + 1)
      BY <3>3, <3>4, LenProperties
    <3>6. In("key", Cut(t)) => In("key", whole)
      BY <2>7, <2>10, <3>3, <3>4, <3>5 DEF In
    <3>7. QED
      BY <2>11, <3>1, <3>3, <3>4, <3>6
  <2>13. CASE ~(t[n + 1] = "key" /\ Width(whole) < MaxMessage)
    BY <2>8, <2>9, <2>11, <2>13
  <2>14. QED
    BY <2>12, <2>13
<1>3. QED
  BY <1>1, <1>2

LEMMA Bounds ==
  ASSUME NEW t \in Seq(Tokens)
  PROVE  /\ Bounded(t) \in Seq(Tokens)
         /\ In("part", Bounded(t)) => In("part", t) \/ In("key", t) \/ In("tabbed", t)
BY Escapes, Cuts DEF Bounded

\* A message of the provider's own is told as it is.
LEMMA FixedTold == Bounded(Fixed) = Fixed /\ Fixed \in Seq(Tokens) /\ \A token : In(token, Fixed) => token = "word"
<1>1. Fixed \in Seq(Tokens) /\ DOMAIN Fixed = {1} /\ Fixed[1] = "word" /\ Len(Fixed) = 1
  BY DEF Fixed, Tokens
<1>2. Escape(Fixed) = Fixed
  BY <1>1 DEF Escape, Fixed
<1>3. {i \in DOMAIN Fixed : Fixed[i] = "key"} = {}
  BY <1>1
<1>4. Width(Fixed) = 1
  <2>1. Cardinality({i \in DOMAIN Fixed : Fixed[i] = "key"}) = 0
    BY <1>3, FS_EmptySet
  <2>2. QED
    BY <1>1, <2>1 DEF Width
<1>5. 1 <= MaxMessage
  OBVIOUS
<1>6. QED
  BY <1>1, <1>2, <1>4, <1>5 DEF Bounded, Cut, In

-----------------------------------------------------------------------------
(* What is told of an attempt that failed, and of a reply that is no answer. *)

\* A text others wrote, or made of one: no part of a key is in it, and a key
\* only if the text it is made of spells one.
Spells(t) == In("key", t) \/ In("tabbed", t)
Made(t, of) ==
  t \in Seq(Tokens) /\ ~In("part", t) /\ (Spells(t) => In("key", of) \/ Respelled(of))

LEMMA RawWritten ==
  ASSUME NEW b \in Body
  PROVE  /\ Raw(b) \in Seq(Tokens) /\ ~In("part", Raw(b))
         /\ \A t \in {b.stop, b.why, b.message} : t # None =>
              t \in Text /\ \A token : In(token, t) => In(token, Raw(b))
<1>1. /\ b.stop \in Text \cup {None} /\ b.why \in Text \cup {None}
      /\ b.message \in Text \cup {None} /\ b.rest \in Text
  BY DEF Body, Maybe
<1>2. <<>> \in Seq(Tokens) /\ \A token : ~In(token, <<>>)
  BY DEF In
<1>3. \A t \in Text \cup {None} :
        /\ Optional(t) \in Seq(Tokens) /\ ~In("part", Optional(t))
        /\ t # None => Optional(t) = t
  BY <1>2, WrittenTexts DEF Optional
<1> DEFINE one == Optional(b.stop) \o Optional(b.why)
           two == one \o Optional(b.message)
<1>4. one \in Seq(Tokens) /\ \A token :
        In(token, one) <=> In(token, Optional(b.stop)) \/ In(token, Optional(b.why))
  BY <1>1, <1>3, InJoined
<1> HIDE DEF one
<1>5. two \in Seq(Tokens) /\ \A token :
        In(token, two) <=> In(token, one) \/ In(token, Optional(b.message))
  BY <1>1, <1>3, <1>4, InJoined
<1> HIDE DEF two
<1>6. two \o b.rest \in Seq(Tokens) /\ \A token :
        In(token, two \o b.rest) <=> In(token, two) \/ In(token, b.rest)
  BY <1>1, <1>5, WrittenTexts, InJoined
<1>7. Raw(b) = two \o b.rest
  BY DEF Raw, two, one
<1>8. ~In("part", b.rest)
  BY <1>1, WrittenTexts
<1>9. \A token : In(token, Raw(b)) <=>
        \/ In(token, Optional(b.stop)) \/ In(token, Optional(b.why))
        \/ In(token, Optional(b.message)) \/ In(token, b.rest)
  BY <1>4, <1>5, <1>6, <1>7, Zenon
<1>10. ~In("part", Raw(b))
  BY <1>1, <1>3, <1>8, <1>9
<1>11. ASSUME NEW t \in {b.stop, b.why, b.message}, t # None
       PROVE  t \in Text /\ \A token : In(token, t) => In(token, Raw(b))
  BY <1>1, <1>3, <1>9, <1>11
<1>12. QED
  BY <1>6, <1>7, <1>10, <1>11

LEMMA MadeByDecoding ==
  ASSUME NEW t \in Text PROVE Made(Decode(t), t)
BY WrittenTexts, Decodes DEF Made, Spells, Respelled

\* A stop reason that was decoded is one.
LEMMA DecodedText ==
  ASSUME NEW t \in Text PROVE Decode(t) # None
<1>1. Decode(t) \in Seq(Tokens)
  BY WrittenTexts, Decodes
<1>2. QED
  BY <1>1

LEMMA MadeByJoining ==
  ASSUME NEW s, NEW t, NEW of, Made(s, of), Made(t, of) PROVE Made(s \o t, of)
BY InJoined DEF Made, Spells

\* The reason a vendor's reply is refused for is the provider's own, with the
\* vendor's stop reason at most.
LEMMA ReasonsMade ==
  ASSUME NEW b \in Body, NEW api \in Apis, ~Read(api, b).answers
  PROVE  Made(Read(api, b).reason, Raw(b))
<1> DEFINE stopped == Fixed \o Decode(b.stop)
           both == stopped \o Because(b.why)
<1>1. Made(Fixed, Raw(b)) /\ Made(<<>>, Raw(b))
  <2>1. <<>> \in Seq(Tokens) /\ \A token : ~In(token, <<>>)
    BY DEF In
  <2>2. QED
    BY <2>1, FixedTold DEF Made, Spells
<1>2. \A t \in {b.stop, b.why} : t # None => Made(Decode(t), Raw(b))
  BY RawWritten, MadeByDecoding DEF Made, Spells, Respelled
<1>3. b.stop # None => Made(stopped, Raw(b))
  BY <1>1, <1>2, MadeByJoining
<1>4. b.stop # None => Made(both, Raw(b))
  <2>1. b.why # None => Made(Fixed \o Decode(b.why), Raw(b))
    BY <1>1, <1>2, MadeByJoining
  <2>2. Made(Because(b.why), Raw(b))
    BY <1>1, <2>1 DEF Because
  <2> HIDE DEF stopped
  <2>3. QED
    BY <1>3, <2>2, MadeByJoining DEF both
<1>5. \/ Read(api, b).reason = Fixed
      \/ b.stop # None /\ Read(api, b).reason = stopped
      \/ b.stop # None /\ Read(api, b).reason = both
  <2>1. (\A x : Answer(x).answers) /\ \A why : Refuse(why).reason = why
    BY DEF Answer, Refuse
  <2>2. CASE api = "responses"
    <3>1. \/ ReadResponses(b) = Refuse(Fixed)
          \/ b.stop # None /\ ReadResponses(b) = Refuse(both)
          \/ ReadResponses(b) = Answer(Texts(Parts(b.output)))
      BY Zenon DEF ReadResponses, stopped, both
    <3>2. Read(api, b) = ReadResponses(b)
      BY <2>2 DEF Read
    <3>3. QED
      <4> HIDE DEF stopped, both
      <4>1. QED
        BY <2>1, <3>1, <3>2
  <2>3. CASE api = "chat_completions"
    <3>1. \/ ReadChat(b) = Refuse(Fixed)
          \/ b.stop # None /\ ReadChat(b) = Refuse(stopped)
          \/ ReadChat(b) = Answer(Texts(Content(b.output[1])))
      BY Zenon DEF ReadChat, stopped
    <3>2. Read(api, b) = ReadChat(b)
      BY <2>3 DEF Read
    <3>3. QED
      <4> HIDE DEF stopped, both
      <4>1. QED
        BY <2>1, <3>1, <3>2
  <2>4. CASE api = "messages"
    <3>1. \/ ReadMessages(b) = Refuse(Fixed)
          \/ b.stop # None /\ ReadMessages(b) = Refuse(stopped)
          \/ ReadMessages(b) = Answer(Texts(b.output[1].content))
      BY Zenon DEF ReadMessages, stopped
    <3>2. Read(api, b) = ReadMessages(b)
      BY <2>4 DEF Read
    <3>3. QED
      <4> HIDE DEF stopped, both
      <4>1. QED
        BY <2>1, <3>1, <3>2
  <2>5. CASE api = "interactions"
    <3>1. \/ ReadInteraction(b) = Refuse(Fixed)
          \/ b.stop # None /\ ReadInteraction(b) = Refuse(stopped)
          \/ ReadInteraction(b) = Answer(OutputText(b.output))
      BY Zenon DEF ReadInteraction, stopped
    <3>2. Read(api, b) = ReadInteraction(b)
      BY <2>5 DEF Read
    <3>3. QED
      <4> HIDE DEF stopped, both
      <4>1. QED
        BY <2>1, <3>1, <3>2
  <2>6. QED
    BY <2>2, <2>3, <2>4, <2>5 DEF Apis
<1>6. QED
  BY <1>1, <1>3, <1>4, <1>5

\* What is told shows no key, and a part of one only if what came spelled the key
\* otherwise than the search looks for it.
Shows(told, of) ==
  /\ ~In("key", told.message) /\ ~In("key", told.kept)
  /\ In("part", told.message) => Respelled(of)

LEMMA FixedShown ==
  /\ \A kind, status, of : Shows(Told(kind, status, Fixed, <<>>), of)
  /\ \A status : NonAnswer(Fixed, status) = Told("NonAnswer", status, Fixed, <<>>)
<1>1. \A token : ~In(token, <<>>)
  BY DEF In
<1>2. QED
  BY <1>1, FixedTold, ToldKinds DEF Shows, NonAnswer

LEMMA ConnectionShown ==
  ASSUME NEW f \in Failures PROVE Shows(Connection(f), f.text)
<1>1. f.text \in Text
  BY DEF Failure
<1>2. f.text \in Seq(Tokens) /\ ~In("part", f.text)
  BY <1>1, WrittenTexts
<1>3. In("part", Bounded(f.text)) => In("key", f.text) \/ In("tabbed", f.text)
  BY <1>2, Bounds
<1>4. CASE ~f.short \/ Holds(f.text)
  BY <1>4, FixedShown DEF Connection, Withheld
<1>5. CASE f.short /\ ~Holds(f.text) /\ f.ours
  <2>1. \A token : ~In(token, <<>>)
    BY DEF In
  <2>2. Connection(f) = Told("Passed", None, f.text, <<>>)
    BY <1>5 DEF Connection
  <2>3. QED
    BY <1>2, <1>5, <2>1, <2>2, ToldKinds DEF Shows, Holds, In
<1>6. CASE f.short /\ ~Holds(f.text) /\ ~f.ours /\ Holds(Bounded(f.text))
  BY <1>6, FixedShown DEF Connection, Withheld
<1>7. CASE f.short /\ ~Holds(f.text) /\ ~f.ours /\ ~Holds(Bounded(f.text))
  <2>1. Connection(f) = Told("Connection", None, Bounded(f.text), f.text)
    BY <1>7 DEF Connection
  <2>2. ~In("key", f.text) /\ ~In("key", Bounded(f.text))
    BY <1>7 DEF Holds, In
  <2>3. QED
    BY <1>3, <2>1, <2>2, ToldKinds DEF Shows, Respelled
<1>8. QED
  BY <1>4, <1>5, <1>6, <1>7

\* The bytes of a failure are searched as they came, its message as it is told.
LEMMA ApiErrorShown ==
  ASSUME NEW r \in Responses, NEW whole \in BOOLEAN
  PROVE  Shows(ApiError(r, whole), Raw(r.body))
<1> DEFINE message == IF whole THEN ApiMessage(r.body) ELSE Fixed
           received == r.headers \o (IF whole THEN Raw(r.body) ELSE <<>>)
<1>1. r.body \in Body /\ r.headers \in Text
  BY DEF Response
<1>2. Raw(r.body) \in Seq(Tokens) /\ r.headers \in Seq(Tokens) /\ <<>> \in Seq(Tokens)
  BY <1>1, RawWritten, WrittenTexts
<1>3. ApiError(r, whole) = IF Holds(received) \/ Holds(message \o Bounded(r.headers))
                             THEN NotShown(r.status)
                             ELSE Told("Api", r.status, message, received)
  BY DEF ApiError
<1>4. Made(IF r.body.message \in {None, <<>>} THEN Raw(r.body) ELSE Decode(r.body.message), Raw(r.body))
  <2>1. Made(Raw(r.body), Raw(r.body))
    BY <1>1, RawWritten DEF Made, Spells, Respelled
  <2>2. r.body.message # None => Made(Decode(r.body.message), Raw(r.body))
    BY <1>1, RawWritten, MadeByDecoding DEF Made, Spells, Respelled
  <2>3. QED
    BY <2>1, <2>2
<1>5. ApiMessage(r.body) \in Seq(Tokens)
      /\ (In("part", ApiMessage(r.body)) => In("key", Raw(r.body)) \/ Respelled(Raw(r.body)))
  BY <1>4, Bounds DEF ApiMessage, Made, Spells
<1>6. message \in Seq(Tokens) /\ Bounded(r.headers) \in Seq(Tokens)
  BY <1>2, <1>5, FixedTold, Bounds
<1>7. In("part", message) => whole /\ In("part", ApiMessage(r.body))
  BY FixedTold
<1>8. whole /\ In("key", Raw(r.body)) => In("key", received)
  BY <1>2, InJoined
<1> HIDE DEF message, received
<1>9. CASE Holds(received) \/ Holds(message \o Bounded(r.headers))
  BY <1>3, <1>9, FixedShown DEF NotShown
<1>10. CASE ~(Holds(received) \/ Holds(message \o Bounded(r.headers)))
  <2>1. ~In("key", received) /\ ~In("key", message \o Bounded(r.headers))
    BY <1>10 DEF Holds, In
  <2>2. ~In("key", message)
    BY <1>6, <2>1, InJoined
  <2>3. ApiError(r, whole) = Told("Api", r.status, message, received)
    BY <1>3, <1>10
  <2>4. QED
    BY <1>5, <1>7, <1>8, <2>1, <2>2, <2>3, ToldKinds DEF Shows
<1>11. QED
  BY <1>9, <1>10

LEMMA TooLargeShown ==
  ASSUME NEW r \in Responses PROVE Shows(TooLarge(r), Raw(r.body))
<1>1. Shows(ApiError(r, FALSE), Raw(r.body))
  BY ApiErrorShown
<1>2. QED
  BY <1>1, FixedShown DEF TooLarge

\* A reply that is no answer is told without what spells the key, and so is the
\* stop reason that is recorded of it; one is recorded of every other reply that
\* has one.
LEMMA ReadingShown ==
  ASSUME NEW b \in Body, provider.api \in Apis, NEW status
  PROVE  LET reading == Reading(b, status) IN
         /\ reading.told.kind = "NonAnswer" =>
              Shows(reading.told, Raw(b)) /\ ~In("key", Optional(reading.finish))
         /\ reading.finish = None /\ IsReply(provider.api, b) =>
              \/ b.stop = None
              \/ reading.told.kind = "NonAnswer" /\ reading.told.message = Fixed
<1> DEFINE result == Read(provider.api, b)
           finish == StopRecorded(provider.api, b)
           reading == Reading(b, status)
           told == NonAnswer(result.reason, status)
<1>1. CASE result.answers
  <2>1. reading = [finish |-> finish,
                   told |-> [Told("Answer", status, <<>>, <<>>) EXCEPT !.text = result.text]]
    BY <1>1 DEF Reading
  <2>2. reading.told.kind = "Answer" /\ reading.finish = finish
    BY <2>1 DEF Told
  <2>3. b.stop # None => Decode(b.stop) # None
    <3>1. ASSUME b.stop # None PROVE Decode(b.stop) # None
      BY <3>1, RawWritten, DecodedText
    <3>2. QED
      BY <3>1
  <2>4. QED
    BY <2>2, <2>3 DEF StopRecorded
<1>2. CASE ~result.answers
  <2>1. reading = Screened(b, finish, told)
    BY <1>2 DEF Reading
  <2>2. CASE Holds(Raw(b)) \/ Holds(Optional(finish)) \/ Holds(told.message)
    <3>1. reading = [finish |-> None, told |-> Told("NonAnswer", status, Fixed, <<>>)]
      BY <2>1, <2>2, FixedShown, ToldKinds DEF Screened, NonAnswer
    <3>2. ~In("key", Optional(None))
      BY DEF Optional, In
    <3>3. QED
      BY <3>1, <3>2, FixedShown, ToldKinds
  <2>3. CASE ~(Holds(Raw(b)) \/ Holds(Optional(finish)) \/ Holds(told.message))
    <3>1. reading = [finish |-> finish, told |-> told]
      BY <2>1, <2>3 DEF Screened
    <3>2. ~In("key", Raw(b)) /\ ~In("key", Optional(finish)) /\ ~In("key", told.message)
      BY <2>3 DEF Holds, In
    <3>3. Made(result.reason, Raw(b))
      BY <1>2, ReasonsMade
    <3>4. told.message = Bounded(result.reason) /\ told.kept = <<>> /\ ~In("key", <<>>)
      BY ToldKinds DEF NonAnswer, In
    <3>5. In("part", told.message) => Respelled(Raw(b))
      BY <3>2, <3>3, <3>4, Bounds DEF Made, Spells
    <3>6. Shows(told, Raw(b))
      BY <3>2, <3>4, <3>5 DEF Shows
    <3>7. finish = None /\ IsReply(provider.api, b) => b.stop = None
      BY RawWritten, DecodedText DEF StopRecorded
    <3>8. QED
      BY <3>1, <3>2, <3>6, <3>7
  <2>4. QED
    BY <2>2, <2>3
<1>3. QED
  BY <1>1, <1>2

-----------------------------------------------------------------------------
LEMMA InitIInv == Init => IInv
BY DEF Init, IInv, Underway, WithinLimit, StatusDecides

LEMMA StepIInv == ASSUME IInv, [Next]_vars PROVE IInv'
<1> USE DEF IInv, Underway, WithinLimit, StatusDecides
<1>0. CASE Build
  <2>1. pc' # "ended" => provider'.limit \in Nat
    BY <1>0, SettledLimit DEF Build
  <2>2. QED
    BY <1>0, <2>1 DEF Build
<1>1. CASE Request
  BY <1>1 DEF Request
<1>2. CASE Call
  BY <1>2 DEF Call
<1>3. ASSUME NEW f \in Failures, Fail(f) PROVE IInv'
  <2>1. outcome'.kind \in {"Connection", "Passed"}
    BY <1>3, ToldKinds DEF Fail, End
  <2>2. QED
    BY <1>3, <2>1 DEF Fail, End
<1>4. ASSUME NEW r \in Responses, ReceiveHead(r) PROVE IInv'
  <2>1. CASE r.declared > provider.limit
    BY <1>4, <2>1, TooLargeTold DEF ReceiveHead, End
  <2>2. CASE ~(r.declared > provider.limit)
    BY <1>4, <2>2 DEF ReceiveHead
  <2>3. QED
    BY <2>1, <2>2
<1>5. ASSUME pc = "reading", NEW n \in 1..response.size, Frame(n) PROVE IInv'
  <2>1. CASE read + n > provider.limit
    BY <1>5, <2>1, TooLargeTold DEF Frame, End
  <2>2. CASE ~(read + n > provider.limit)
    <3>1. n \in Nat
      BY <1>5
    <3>2. read + n \in Nat /\ read + n <= provider.limit
      BY <1>5, <2>2, <3>1
    <3>3. QED
      BY <1>5, <2>2, <3>2 DEF Frame
  <2>3. QED
    BY <2>1, <2>2
<1>6. CASE Whole
  <2>1. pc = "reading" /\ pc' = "ended" /\ response' = response /\ read' = read
        /\ provider' = provider /\ ask' = ask
    BY <1>6 DEF Whole, End, Reply
  <2>2. response \in Responses /\ ~(response.size > provider.limit)
    BY <1>6, <2>1 DEF Whole
  <2>3. DOMAIN trace' = {"request", "response", "finish"}
    BY <1>6, <2>1 DEF Whole, Reply
  <2>4. StatusDecides'
    <3>1. CASE ~Success(response.status) /\ End(ApiError(response, TRUE))
      BY <3>1, <2>1, <2>2, ApiErrors DEF End
    <3>2. CASE Success(response.status) /\ End(NonAnswer(Fixed, response.status))
      BY <3>2, <2>1, ToldKinds DEF End, NonAnswer
    <3>3. CASE Success(response.status) /\ Reply(response.body, response.status)
      BY <3>3, <2>1, ReadingTold DEF End, Reply
    <3>4. QED
      BY <1>6, <3>1, <3>2, <3>3 DEF Whole
  <2>5. QED
    BY <2>1, <2>2, <2>3, <2>4
<1>7. CASE Deadline
  BY <1>7, ToldKinds DEF Deadline, End
<1>8. CASE UNCHANGED vars
  BY <1>8 DEF vars
<1>9. QED
  BY <1>0, <1>1, <1>2, <1>3, <1>4, <1>5, <1>6, <1>7, <1>8 DEF Next

-----------------------------------------------------------------------------
(* What an attempt records and shows: the second layer of the invariant. *)

\* The request is recorded before it is sent, a response answers in its
\* provider's API, and no stop reason is recorded before the end.
Traced ==
  /\ pc \in {"waiting", "sent", "reading"} => trace.request = Asked
  /\ pc = "reading" => response.api = provider.api
  /\ pc # "ended" => trace.finish = None

IInv2 == IInv /\ Traced /\ TraceTells /\ KeyNotShown

LEMMA InitIInv2 == Init => IInv2
BY InitIInv DEF Init, IInv2, Traced, TraceTells, KeyNotShown

\* An attempt that ends without a reply leaves its trace as it was.
LEMMA EndsUnread ==
  ASSUME IInv2, pc \in {"waiting", "sent", "reading"}, pc' = "ended",
         UNCHANGED <<ask, provider, trace>>,
         outcome'.kind # "Answer", outcome'.kind = "NonAnswer" => ~response'.body.json,
         NEW of, Shows(outcome', of),
         Respelled(of) =>
           \/ response' # None /\ Respelled(Raw(response'.body))
           \/ \E f \in Failures : Respelled(f.text) /\ outcome' = Connection(f)
  PROVE  Traced' /\ TraceTells' /\ KeyNotShown'
<1>1. trace.request = Asked /\ trace.finish = None /\ trace.response = None /\ Asked' = Asked
  BY DEF IInv2, IInv, Underway, Traced, Asked
<1>2. Traced' /\ TraceTells'
  BY <1>1 DEF Traced, TraceTells
<1>3. ~Holds(Optional(None))
  BY DEF Holds, Optional
<1>4. \A f : Connection(f)' = Connection(f)
  BY DEF Connection
<1>5. KeyNotShown'
  BY <1>1, <1>3, <1>4 DEF KeyNotShown, Shows, Holds, In, Respelled
<1>6. QED
  BY <1>2, <1>5

LEMMA StepIInv2 == ASSUME IInv2, [Next]_vars PROVE IInv2'
<1>0. IInv'
  BY StepIInv DEF IInv2
<1>1. IInv /\ Traced /\ TraceTells /\ KeyNotShown
  BY DEF IInv2
<1> SUFFICES Traced' /\ TraceTells' /\ KeyNotShown'
  BY <1>0 DEF IInv2
<1>2. CASE Build \/ Request \/ Call
  <2>1. outcome' = None
    BY <1>1, <1>2 DEF Build, Request, Call, IInv, Underway
  <2>2. Traced'
    <3>1. CASE Build
      BY <1>1, <3>1 DEF Build, IInv, Underway, Traced
    <3>2. CASE Request
      BY <1>1, <3>2 DEF Request, IInv, Underway, Traced, Asked
    <3>3. CASE Call
      BY <1>1, <3>3 DEF Call, IInv, Underway, Traced, Asked
    <3>4. QED
      BY <1>2, <3>1, <3>2, <3>3
  <2>3. QED
    BY <2>1, <2>2 DEF TraceTells, KeyNotShown
<1>3. ASSUME NEW f \in Failures, Fail(f) PROVE Traced' /\ TraceTells' /\ KeyNotShown'
  <2>1. outcome' = Connection(f) /\ outcome'.kind \in {"Connection", "Passed"}
    BY <1>3, ToldKinds DEF Fail, End
  <2>2. Shows(outcome', f.text)
    BY <2>1, ConnectionShown
  <2>3. QED
    BY <1>3, <2>1, <2>2, EndsUnread DEF Fail, End
<1>4. ASSUME NEW r \in Responses, ReceiveHead(r) PROVE Traced' /\ TraceTells' /\ KeyNotShown'
  <2>1. CASE r.declared > provider.limit
    <3>1. outcome' = TooLarge(r) /\ outcome'.kind \in {"ResponseTooLarge", "Api"}
      BY <1>4, <2>1, TooLargeTold DEF ReceiveHead, End
    <3>2. Shows(outcome', Raw(response'.body)) /\ response' # None
      BY <1>4, <3>1, TooLargeShown DEF ReceiveHead
    <3>3. QED
      BY <1>4, <2>1, <3>1, <3>2, EndsUnread DEF ReceiveHead, End
  <2>2. CASE ~(r.declared > provider.limit)
    BY <1>1, <1>4, <2>2 DEF ReceiveHead, IInv, Underway, Traced, TraceTells, KeyNotShown, Asked
  <2>3. QED
    BY <2>1, <2>2
<1>5. ASSUME pc = "reading", NEW n \in 1..response.size, Frame(n)
      PROVE  Traced' /\ TraceTells' /\ KeyNotShown'
  <2>1. response \in Responses
    BY <1>1, <1>5 DEF IInv, Underway
  <2>2. CASE read + n > provider.limit
    <3>1. outcome' = TooLarge(response) /\ outcome'.kind \in {"ResponseTooLarge", "Api"}
      BY <1>5, <2>1, <2>2, TooLargeTold DEF Frame, End
    <3>2. Shows(outcome', Raw(response'.body)) /\ response' # None
      BY <1>5, <2>1, <3>1, TooLargeShown DEF Frame
    <3>3. QED
      BY <1>5, <2>2, <3>1, <3>2, EndsUnread DEF Frame, End
  <2>3. CASE ~(read + n > provider.limit)
    BY <1>1, <1>5, <2>3 DEF Frame, IInv, Underway, Traced, TraceTells, KeyNotShown, Asked
  <2>4. QED
    BY <2>2, <2>3
<1>6. CASE Whole
  <2>1. pc = "reading" /\ pc' = "ended" /\ response' = response /\ provider' = provider /\ ask' = ask
    BY <1>6 DEF Whole, End, Reply
  <2>2. response \in Responses /\ response # None /\ response.body \in Body /\ provider.api \in Apis
    <3>1. response \in Response /\ response.api = provider.api
      BY <1>1, <2>1 DEF IInv, Underway, Traced
    <3>2. \A r \in Response : r # None /\ r.body \in Body /\ r.api \in Apis
      BY DEF Response
    <3>3. QED
      BY <1>1, <2>1, <3>1, <3>2 DEF IInv, Underway
  <2>3. CASE ~Success(response.status) /\ End(ApiError(response, TRUE)) /\ UNCHANGED trace
    <3>1. outcome'.kind = "Api" /\ Shows(outcome', Raw(response.body))
      BY <2>2, <2>3, ApiErrors, ApiErrorShown DEF End
    <3>2. QED
      BY <2>1, <2>2, <2>3, <3>1, EndsUnread
  <2>4. CASE ~response.body.json /\ End(NonAnswer(Fixed, response.status)) /\ UNCHANGED trace
    <3>1. outcome'.kind = "NonAnswer" /\ Shows(outcome', Raw(response.body))
      BY <2>4, FixedShown, ToldKinds DEF End
    <3>2. QED
      BY <2>1, <2>2, <2>4, <3>1, EndsUnread
  <2>5. CASE response.body.json /\ Reply(response.body, response.status)
    <3> DEFINE reading == Reading(response.body, response.status)
    <3>1. /\ outcome' = reading.told /\ trace'.request = trace.request
          /\ trace'.response = response.body /\ trace'.finish = reading.finish
      BY <1>1, <2>5 DEF Reply, End, IInv, Underway
    <3>2. /\ reading.told.kind \in {"Answer", "NonAnswer"}
          /\ reading.told.kind = "NonAnswer" =>
               Shows(reading.told, Raw(response.body)) /\ ~In("key", Optional(reading.finish))
          /\ reading.finish = None /\ IsReply(provider.api, response.body) =>
               \/ response.body.stop = None
               \/ reading.told.kind = "NonAnswer" /\ reading.told.message = Fixed
      BY <2>2, ReadingTold, ReadingShown
    <3> HIDE DEF reading
    <3>3. trace.request = Asked /\ Asked' = Asked /\ response.body # None
      BY <1>1, <2>1, <2>2 DEF Traced, Asked
    <3>4. TraceTells'
      BY <2>1, <2>5, <3>1, <3>2, <3>3 DEF TraceTells
    <3>5. KeyNotShown'
      BY <2>1, <2>2, <3>1, <3>2 DEF KeyNotShown, Shows, Holds, In, Respelled
    <3>6. QED
      BY <2>1, <3>4, <3>5 DEF Traced
  <2>6. QED
    BY <1>6, <2>3, <2>4, <2>5 DEF Whole
<1>7. CASE Deadline
  <2>1. outcome'.kind = "Timeout" /\ \A of : Shows(outcome', of)
    BY <1>7, FixedShown, ToldKinds DEF Deadline, End
  <2>2. Shows(outcome', <<>>) /\ ~Respelled(<<>>)
    BY <2>1 DEF Respelled, In
  <2>3. QED
    BY <1>7, <2>1, <2>2, EndsUnread DEF Deadline, End
<1>8. CASE UNCHANGED vars
  <2>1. Asked' = Asked /\ \A f : Connection(f)' = Connection(f)
    BY <1>8 DEF vars, Asked, Connection
  <2>2. QED
    BY <1>1, <1>8, <2>1 DEF vars, Traced, TraceTells, KeyNotShown
<1>9. QED
  BY <1>2, <1>3, <1>4, <1>5, <1>6, <1>7, <1>8 DEF Next

-----------------------------------------------------------------------------
(* What is asked: whom the request goes to, with which key. *)

\* The builder that a call resolves to is its instance, or one for its model.
LEMMA Resolved ==
  ASSUME NEW a \in Asks, NEW b, b = Resolve(a.client, a.call), ~IsRefused(b)
  PROVE  \/ /\ InstanceOf(a) # None /\ b = InstanceOf(a)
            /\ b \in {a.client.instance, a.call.instance} \ {None}
         \/ /\ InstanceOf(a) = None /\ VendorOf(a) \in DOMAIN Vendor
            /\ b = NewBuilder(VendorOf(a), Or(a.call.model, a.client.model))
<1>1. \A why : IsRefused(Refused(why))
  BY DEF IsRefused, Refused
<1>2. CASE InstanceOf(a) # None
  BY <1>2 DEF InstanceOf, Resolve
<1>3. CASE InstanceOf(a) = None
  <2>1. b = NewBuilder(Or(a.call.provider, a.client.provider), Or(a.call.model, a.client.model))
        /\ Or(a.call.provider, a.client.provider) # None
    BY <1>1, <1>3 DEF InstanceOf, Resolve
  <2>2. Or(a.call.provider, a.client.provider) \in DOMAIN Vendor \cup {None}
    BY AsksAssumption DEF Or
  <2>3. QED
    BY <1>3, <2>1, <2>2 DEF VendorOf
<1>4. QED
  BY <1>2, <1>3

LEMMA Vendors3 ==
  /\ DOMAIN Vendor = {"openai", "anthropic", "gemini"}
  /\ Vendor["openai"] = OpenAi /\ Vendor["anthropic"] = Anthropic /\ Vendor["gemini"] = Gemini
BY DEF Vendor

\* The settings of a vendor, as far as requests depend on them.
LEMMA VendorTyped ==
  ASSUME NEW v \in DOMAIN Vendor
  PROVE  /\ \E n \in Nat : DOMAIN Vendor[v].keys = 1..n
         /\ \E n \in Nat : DOMAIN Vendor[v].urls = 1..n
         /\ IsPath(Vendor[v].url.prefix)
         /\ Vendor[v].header \in {"authorization", "x-api-key", "x-goog-api-key"}
         /\ DOMAIN Vendor[v].fixed \subseteq {"anthropic-version"}
<1>1. /\ DOMAIN <<"OPENAI_API_KEY">> = 1..1 /\ DOMAIN <<"ANTHROPIC_API_KEY">> = 1..1
      /\ DOMAIN <<"GOOGLE_API_KEY", "GEMINI_API_KEY">> = 1..2
      /\ DOMAIN <<"OPENAI_BASE_URL">> = 1..1 /\ DOMAIN <<"ANTHROPIC_BASE_URL">> = 1..1
      /\ DOMAIN <<>> = 1..0
  OBVIOUS
<1>2. 0 \in Nat /\ 1 \in Nat /\ 2 \in Nat
  OBVIOUS
<1>3. IsPath(<<>>) /\ IsPath(<<"v1">>)
  <2>1. ToSet(<<"v1">>) = {"v1"}
    BY DEF ToSet
  <2>2. <<>> \in Seq(ToSet(<<>>)) /\ <<"v1">> \in Seq({"v1"})
    OBVIOUS
  <2>3. QED
    BY <2>1, <2>2, Zenon DEF IsPath
<1>4. CASE v = "openai"
  <2>1. /\ OpenAi.keys = <<"OPENAI_API_KEY">> /\ OpenAi.urls = <<"OPENAI_BASE_URL">>
        /\ OpenAi.header = "authorization" /\ OpenAi.fixed = <<>>
    BY DEF OpenAi
  <2>2. OpenAi.url.prefix = <<"v1">>
    BY DEF OpenAi, Url
  <2>3. Vendor[v] = OpenAi
    BY <1>4, Vendors3
  <2>4. DOMAIN OpenAi.keys = 1..1 /\ DOMAIN OpenAi.urls = 1..1 /\ DOMAIN OpenAi.fixed = {}
    BY <1>1, <2>1
  <2>5. QED
    BY <1>2, <1>3, <2>1, <2>2, <2>3, <2>4, Zenon
<1>5. CASE v = "anthropic"
  <2>1. /\ Anthropic.keys = <<"ANTHROPIC_API_KEY">> /\ Anthropic.urls = <<"ANTHROPIC_BASE_URL">>
        /\ Anthropic.header = "x-api-key" /\ DOMAIN Anthropic.fixed = {"anthropic-version"}
    BY DEF Anthropic, Only
  <2>2. Anthropic.url.prefix = <<>>
    BY DEF Anthropic, Url
  <2>3. Vendor[v] = Anthropic
    BY <1>5, Vendors3
  <2>4. DOMAIN Anthropic.keys = 1..1 /\ DOMAIN Anthropic.urls = 1..1
    BY <1>1, <2>1
  <2>5. QED
    BY <1>2, <1>3, <2>1, <2>2, <2>3, <2>4, Zenon
<1>6. CASE v = "gemini"
  <2>1. /\ Gemini.keys = <<"GOOGLE_API_KEY", "GEMINI_API_KEY">> /\ Gemini.urls = <<>>
        /\ Gemini.header = "x-goog-api-key" /\ Gemini.fixed = <<>>
    BY DEF Gemini
  <2>2. Gemini.url.prefix = <<>>
    BY DEF Gemini, Url
  <2>3. Vendor[v] = Gemini
    BY <1>6, Vendors3
  <2>4. DOMAIN Gemini.keys = 1..2 /\ DOMAIN Gemini.urls = 1..0 /\ DOMAIN Gemini.fixed = {}
    BY <1>1, <2>1
  <2>5. QED
    BY <1>2, <1>3, <2>1, <2>2, <2>3, <2>4, Zenon
<1>7. QED
  BY <1>4, <1>5, <1>6, Vendors3

\* A variable that counts is one that is set to something.
LEMMA FirstSets ==
  ASSUME NEW env, NEW variables, NEW n \in Nat, DOMAIN variables = 1..n
  PROVE  LET set == {v \in ToSet(variables) : env[v] # None /\ env[v].text # ""}
         IN  \/ set = {} /\ FirstSet(env, variables) = None
             \/ \E v \in set : FirstSet(env, variables) = env[v]
<1> DEFINE places == {i \in DOMAIN variables : env[variables[i]] # None /\ env[variables[i]].text # ""}
           first == CHOOSE i \in places : \A j \in places : i <= j
<1>1. FirstSet(env, variables) = IF places = {} THEN None ELSE env[variables[first]]
  BY DEF FirstSet
<1>2. places # {} => first \in places
  <2>1. places \in SUBSET (1..n)
    OBVIOUS
  <2> HIDE DEF places
  <2>2. places \in SUBSET Nat
    BY <2>1
  <2>4. places # {} => \E i \in places : \A j \in places : i <= j
    BY <2>2, Least
  <2>3. QED
    BY <2>4
<1> HIDE DEF first
<1> DEFINE set == {v \in ToSet(variables) : env[v] # None /\ env[v].text # ""}
<1>3. \A v : v \in set <=> \E i \in places : v = variables[i]
  BY Zenon DEF ToSet
<1> HIDE DEF set, places
<1>4. CASE places = {}
  BY <1>1, <1>3, <1>4, Zenon DEF set
<1>5. CASE places # {}
  BY <1>1, <1>2, <1>3, <1>5, Zenon DEF set
<1>6. QED
  BY <1>4, <1>5

\* A check as the builders make it: what is found, and how it is reported.
Reasons ==
  {"timeout", "max_response_bytes", "max_tokens", "no key", "utf-8", "empty key", "key", "roots",
   "certificate"}
  \cup ToSet(UrlRules)
Check == BOOLEAN \X Reasons

LEMMA CheckTyped ==
  ASSUME NEW found \in BOOLEAN, NEW why \in Reasons
  PROVE  <<found, why>> \in Check /\ <<found, why>>[1] = found
BY DEF Check

LEMMA CheckLists ==
  /\ \A c \in Check : <<c>> \in Seq(Check) /\ DOMAIN <<c>> = {1} /\ <<c>>[1] = c
  /\ \A c, d \in Check : <<c, d>> \in Seq(Check)
  /\ \A c, d, e, f \in Check :
       /\ <<c, d, e, f>> \in Seq(Check)
       /\ 1 \in DOMAIN <<c, d, e, f>> /\ <<c, d, e, f>>[1] = c
OBVIOUS

\* Who passes a list of checks passes its parts.
LEMMA Passing ==
  \A s, t \in Seq(Check) :
    s \o t \in Seq(Check) /\ (Failing(s \o t) = {} => Failing(s) = {} /\ Failing(t) = {})
BY NoneFails

\* A key that passes is one.
LEMMA KeyPasses ==
  ASSUME NEW key
  PROVE  KeyChecks(key) \in Seq(Check) /\ (Failing(KeyChecks(key)) = {} => key # None)
<1> DEFINE missing == <<key = None, "no key">>
           odd == <<key # None /\ key.text = Unreadable, "utf-8">>
           empty == <<key # None /\ key.text = "", "empty key">>
           unsendable == <<key # None /\ key.text = Unsendable, "key">>
<1>1. /\ missing \in Check /\ missing[1] = (key = None)
      /\ odd \in Check /\ empty \in Check /\ unsendable \in Check
  BY CheckTyped DEF Reasons
<1>2. KeyChecks(key) = <<missing, odd, empty, unsendable>>
  BY DEF KeyChecks
<1> HIDE DEF missing, odd, empty, unsendable
<1>3. KeyChecks(key) \in Seq(Check) /\ 1 \in DOMAIN KeyChecks(key) /\ KeyChecks(key)[1] = missing
  BY <1>1, <1>2, CheckLists
<1>4. QED
  BY <1>1, <1>3 DEF Failing

\* A URL that passes breaks no rule.
LEMMA UrlPasses ==
  ASSUME NEW url
  PROVE  /\ UrlChecks(url) \in Seq(Check)
         /\ Failing(UrlChecks(url)) = {} => url.broken \cap ToSet(UrlRules) = {}
<1> DEFINE odd == <<url.text = Unreadable, "utf-8">>
           rules == [i \in DOMAIN UrlRules |-> <<UrlRules[i] \in url.broken, UrlRules[i]>>]
<1>1. odd \in Check
  BY CheckTyped DEF Reasons
<1>2. UrlChecks(url) = <<odd>> \o rules
  BY DEF UrlChecks
<1>3. DOMAIN UrlRules = 1..7
  BY DEF UrlRules
<1>4. ASSUME NEW i \in DOMAIN UrlRules
      PROVE  rules[i] \in Check /\ rules[i][1] = (UrlRules[i] \in url.broken)
  <2> DEFINE found == UrlRules[i] \in url.broken
  <2>0. UrlRules[i] \in Reasons
    BY Zenon DEF Reasons, ToSet
  <2>1. found \in BOOLEAN /\ UrlRules[i] \in Reasons
    BY <2>0
  <2>2. rules[i] = <<found, UrlRules[i]>>
    OBVIOUS
  <2> HIDE DEF found, rules
  <2>3. rules[i] \in Check /\ rules[i][1] = found
    BY <2>1, <2>2, CheckTyped
  <2>4. QED
    BY <2>3 DEF found
<1>5. DOMAIN rules = 1..7 /\ rules = [i \in 1..7 |-> rules[i]]
  BY <1>3
<1> HIDE DEF odd, rules
<1>6. rules \in [1..7 -> Check]
  BY <1>3, <1>4, <1>5
<1>7. rules \in Seq(Check) /\ <<odd>> \in Seq(Check)
  <2>1. 7 \in Nat
    OBVIOUS
  <2>2. rules \in Seq(Check)
    BY <1>6, <2>1, Sequences, Zenon
  <2>3. QED
    BY <1>1, <2>2, CheckLists, Zenon
<1>8. UrlChecks(url) \in Seq(Check) /\ (Failing(UrlChecks(url)) = {} => Failing(rules) = {})
  BY <1>2, <1>7, Passing, Zenon
<1>9. Failing(rules) = {} => \A i \in DOMAIN UrlRules : ~(UrlRules[i] \in url.broken)
  BY <1>3, <1>4, <1>5 DEF Failing
<1>10. QED
  BY <1>8, <1>9 DEF ToSet

\* A builder that passes its checks has a key, and a URL that breaks no rule.
LEMMA Passes ==
  ASSUME NEW b, b.vendor \in DOMAIN Vendor, NEW key, NEW url, Failing(Checks(b, key, url)) = {}
  PROVE  key # None /\ url.broken \cap ToSet(UrlRules) = {}
<1> DEFINE limits == LimitChecks(b)
           keys == KeyChecks(key)
           urls == UrlChecks(url)
           service == ServiceChecks(b)
           transport == TransportChecks(b)
           tokens == <<<<b.max_tokens = 0, "max_tokens">>>>
<1>1. limits \in Seq(Check) /\ service \in Seq(Check) /\ transport \in Seq(Check) /\ tokens \in Seq(Check)
  <2> DEFINE timeout == <<b.timeout = 0, "timeout">>
             bytes == <<b.max_response_bytes = 0, "max_response_bytes">>
             roots == <<b.service /\ b.extra_roots # {}, "roots">>
             certificate == <<~b.service /\ "not a certificate" \in b.extra_roots, "certificate">>
             none == <<b.max_tokens = 0, "max_tokens">>
  <2>1. /\ timeout \in Check /\ bytes \in Check /\ roots \in Check /\ certificate \in Check
        /\ none \in Check
    BY CheckTyped DEF Reasons
  <2>2. limits = <<timeout, bytes>> /\ service = <<roots>> /\ transport = <<certificate>> /\ tokens = <<none>>
    BY DEF LimitChecks, ServiceChecks, TransportChecks
  <2> HIDE DEF timeout, bytes, roots, certificate, none, limits, service, transport, tokens
  <2>3. QED
    BY <2>1, <2>2, CheckLists
<1>2. keys \in Seq(Check) /\ urls \in Seq(Check)
  BY KeyPasses, UrlPasses
<1>3. Checks(b, key, url) \in
        {limits \o keys \o urls \o service \o transport,
         service \o tokens \o limits \o keys \o urls \o transport,
         service \o keys \o urls \o limits \o transport}
  BY Vendors3 DEF Checks, OpenAiChecks, AnthropicChecks, GeminiChecks
<1> HIDE DEF limits, keys, urls, service, transport, tokens
<1>4. ASSUME NEW u \in Seq(Check), NEW v \in Seq(Check), NEW w \in Seq(Check), NEW x \in Seq(Check)
      PROVE  /\ u \o v \in Seq(Check) /\ u \o v \o w \in Seq(Check) /\ u \o v \o w \o x \in Seq(Check)
             /\ Failing(u \o v \o w \o x) = {} =>
                  Failing(u \o v) = {} /\ Failing(v) = {} /\ Failing(w) = {} /\ Failing(u \o v \o w) = {}
  <2>1. u \o v \in Seq(Check) /\ (Failing(u \o v) = {} => Failing(v) = {})
    BY Passing, Zenon
  <2> DEFINE p == u \o v
  <2> HIDE DEF p
  <2>2. p \in Seq(Check) /\ p \o w \in Seq(Check)
        /\ (Failing(p \o w) = {} => Failing(p) = {} /\ Failing(w) = {})
    BY <2>1, Passing, Zenon DEF p
  <2> DEFINE q == p \o w
  <2> HIDE DEF q
  <2>3. q \in Seq(Check) /\ q \o x \in Seq(Check) /\ (Failing(q \o x) = {} => Failing(q) = {})
    BY <2>2, Passing, Zenon DEF q
  <2>4. QED
    BY <2>1, <2>2, <2>3, Zenon DEF p, q
<1>5. Failing(keys) = {} /\ Failing(urls) = {}
  <2>1. CASE Checks(b, key, url) = limits \o keys \o urls \o service \o transport
    <3>1. limits \o keys \o urls \o service \in Seq(Check)
      BY <1>1, <1>2, <1>4, Zenon
    <3>2. Failing(limits \o keys \o urls \o service) = {}
      BY <1>1, <2>1, <3>1, Passing, Zenon
    <3>3. QED
      BY <1>1, <1>2, <1>4, <3>2
  <2>2. CASE Checks(b, key, url) = service \o tokens \o limits \o keys \o urls \o transport
    <3> DEFINE front == service \o tokens
    <3>1. front \in Seq(Check)
      BY <1>1, Passing, Zenon
    <3> HIDE DEF front
    <3>2. Checks(b, key, url) = front \o limits \o keys \o urls \o transport
      BY <2>2 DEF front
    <3>3. front \o limits \o keys \o urls \in Seq(Check)
      BY <1>1, <1>2, <1>4, <3>1, Zenon
    <3>4. Failing(front \o limits \o keys \o urls) = {}
      BY <1>1, <3>2, <3>3, Passing, Zenon
    <3>5. Failing(urls) = {} /\ Failing(front \o limits \o keys) = {}
      <4>1. front \o limits \o keys \in Seq(Check)
        BY <1>1, <1>2, <1>4, <3>1, Zenon
      <4>2. QED
        BY <1>2, <3>4, <4>1, Passing, Zenon
    <3>6. Failing(keys) = {}
      BY <1>1, <1>2, <1>4, <3>1, <3>4
    <3>7. QED
      BY <3>5, <3>6
  <2>3. CASE Checks(b, key, url) = service \o keys \o urls \o limits \o transport
    <3>1. service \o keys \o urls \o limits \in Seq(Check)
      BY <1>1, <1>2, <1>4, Zenon
    <3>2. Failing(service \o keys \o urls \o limits) = {}
      BY <1>1, <2>3, <3>1, Passing, Zenon
    <3>3. QED
      BY <1>1, <1>2, <1>4, <3>2
  <2>4. QED
    BY <1>3, <2>1, <2>2, <2>3
<1>6. QED
  BY <1>5, KeyPasses, UrlPasses DEF keys, urls

\* A provider that is built has a key and a URL, and asks with them.
LEMMA SettledAs ==
  ASSUME NEW a \in Asks, NEW b, b = Resolve(a.client, a.call), ~IsRefused(b),
         NEW p, p = Settle(b, a.env), ~IsRefused(p)
  PROVE  /\ b.vendor \in DOMAIN Vendor
         /\ KeyOf(b, a.env) # None /\ UrlOf(b, a.env).broken \cap ToSet(UrlRules) = {}
         /\ p.model = b.model /\ p.api = ApiOf(b, UrlOf(b, a.env))
         /\ p.endpoint = Endpoint(UrlOf(b, a.env), p.api)
         /\ p.headers = Headers(Vendor[b.vendor], KeyOf(b, a.env))
<1> DEFINE key == KeyOf(b, a.env)
           url == UrlOf(b, a.env)
<1>1. b.vendor \in DOMAIN Vendor
  <2>1. \A v, m : NewBuilder(v, m).vendor = v
    BY DEF NewBuilder
  <2>2. \A i \in {a.client.instance, a.call.instance} \ {None} : i.vendor \in DOMAIN Vendor
    BY AsksAssumption
  <2>3. QED
    BY <2>1, <2>2, Resolved
<1>2. \A why : IsRefused(Refused(why))
  BY DEF IsRefused, Refused
<1> HIDE DEF key, url
<1>3. /\ Failing(Checks(b, key, url)) = {}
      /\ p = [api |-> ApiOf(b, url), model |-> b.model, max_tokens |-> b.max_tokens,
              endpoint |-> Endpoint(url, ApiOf(b, url)), headers |-> Headers(Vendor[b.vendor], key),
              limit |-> Or(b.max_response_bytes, DefaultLimit)]
  BY <1>2, Zenon DEF Settle, key, url
<1>4. key # None /\ url.broken \cap ToSet(UrlRules) = {}
  BY <1>1, <1>3, Passes
<1>5. QED
  BY <1>1, <1>3, <1>4 DEF key, url

\* What the headers in which vendors look for a key hold.
KeysIn(headers) ==
  {headers[h].key : h \in DOMAIN headers \cap {Vendor[v].header : v \in DOMAIN Vendor}}

\* The one header in which a vendor looks for a key holds the key.
LEMMA HeadersKeyed ==
  ASSUME NEW v \in DOMAIN Vendor, NEW key, NEW headers, headers = Headers(Vendor[v], key)
  PROVE  KeysIn(headers) = {key.text}
<1> DEFINE named == {"authorization", "x-api-key", "x-goog-api-key"}
           own == [bearer |-> Vendor[v].bearer, key |-> key.text]
           common == [h \in {"content-type", "accept", "user-agent"} |->
                        IF h = "user-agent" THEN "adapter" ELSE "json"]
           front == Only(Vendor[v].header, own)
           back == Over(Vendor[v].fixed, common)
<1>1. headers = Over(front, back)
  BY DEF Headers
<1>2. DOMAIN front = {Vendor[v].header} /\ front[Vendor[v].header] = own
  BY DEF Only
<1>3. DOMAIN back \subseteq {"anthropic-version", "content-type", "accept", "user-agent"}
  <2>1. DOMAIN common = {"content-type", "accept", "user-agent"}
    OBVIOUS
  <2> HIDE DEF common
  <2>2. DOMAIN back = DOMAIN Vendor[v].fixed \cup DOMAIN common
    BY Overs
  <2>3. DOMAIN Vendor[v].fixed \subseteq {"anthropic-version"}
    BY VendorTyped
  <2> HIDE DEF back
  <2>4. QED
    BY <2>1, <2>2, <2>3
<1>4. own.key = key.text
  OBVIOUS
<1> HIDE DEF own, common, front, back
<1>5. /\ DOMAIN headers = {Vendor[v].header} \cup DOMAIN back
      /\ headers[Vendor[v].header] = own
  <2>1. DOMAIN headers = DOMAIN front \cup DOMAIN back /\ \A n \in DOMAIN front : headers[n] = front[n]
    BY <1>1 DEF Over
  <2>2. QED
    BY <1>2, <2>1
<1>6. \A w \in DOMAIN Vendor : Vendor[w].header \in named
  BY VendorTyped
<1>7. DOMAIN headers \cap {Vendor[w].header : w \in DOMAIN Vendor} = {Vendor[v].header}
  BY <1>3, <1>5, <1>6
<1>8. QED
  BY <1>4, <1>5, <1>7 DEF KeysIn

\* The key is the instance's own, or else one of its vendor's variables'.
LEMMA KeyAsTold ==
  ASSUME NEW a \in Asks, NEW b, b = Resolve(a.client, a.call), ~IsRefused(b),
         NEW p, p = Settle(b, a.env), ~IsRefused(p)
  PROVE  LET instance == InstanceOf(a)
             own == IF instance = None THEN {} ELSE {instance.api_key} \ {None}
             set == {a.env[v] : v \in ToSet(Vendor[VendorOf(a)].keys)} \ {None}
         IN  \E k \in own \cup set : KeysIn(p.headers) = {k.text}
<1> DEFINE key == KeyOf(b, a.env)
           instance == InstanceOf(a)
           own == IF instance = None THEN {} ELSE {instance.api_key} \ {None}
           set == {a.env[v] : v \in ToSet(Vendor[VendorOf(a)].keys)} \ {None}
           variables == Vendor[VendorOf(a)].keys
<1>1. b.vendor = VendorOf(a) /\ VendorOf(a) \in DOMAIN Vendor
      /\ (b.api_key # None => b.api_key \in own)
  <2>1. \A v, m : NewBuilder(v, m).vendor = v /\ NewBuilder(v, m).api_key = None
    BY DEF NewBuilder
  <2>2. b.vendor \in DOMAIN Vendor
    BY SettledAs
  <2>3. CASE instance = None
    BY <2>1, <2>2, <2>3, Resolved
  <2>4. CASE instance # None
    <3>1. b = instance
      BY <2>4, Resolved
    <3>2. VendorOf(a) = instance.vendor
      BY <2>4 DEF VendorOf
    <3>3. QED
      BY <2>2, <2>4, <3>1, <3>2
  <2>5. QED
    BY <2>3, <2>4
<1>2. key # None /\ p.headers = Headers(Vendor[VendorOf(a)], key)
  BY <1>1, SettledAs
<1>3. key = Or(b.api_key, FirstSet(a.env, variables))
  BY <1>1 DEF KeyOf
<1>4. FirstSet(a.env, variables) = None \/ \E v \in ToSet(variables) :
        a.env[v] # None /\ FirstSet(a.env, variables) = a.env[v]
  <2>1. PICK n \in Nat : DOMAIN variables = 1..n
    BY <1>1, VendorTyped
  <2> HIDE DEF variables
  <2>2. QED
    BY <2>1, FirstSets
<1> HIDE DEF key, own
<1>5. key \in own \cup set
  BY <1>1, <1>2, <1>3, <1>4 DEF Or
<1> HIDE DEF set
<1>6. KeysIn(p.headers) = {key.text}
  BY <1>1, <1>2, HeadersKeyed
<1>7. QED
  BY <1>5, <1>6 DEF own, set

\* A sequence stays one with elements of a larger set.
LEMMA Joined ==
  ASSUME NEW s, NEW t, IsPath(s), IsPath(t) PROVE IsPrefix(s, s \o t)
<1> DEFINE all == ToSet(s) \cup ToSet(t)
<1>1. Len(s) \in Nat /\ Len(t) \in Nat /\ DOMAIN s = 1..Len(s) /\ DOMAIN t = 1..Len(t)
      /\ s \in [1..Len(s) -> ToSet(s)] /\ t \in [1..Len(t) -> ToSet(t)]
  BY LenProperties DEF IsPath
<1>2. s \in [1..Len(s) -> all] /\ t \in [1..Len(t) -> all]
  BY <1>1
<1> HIDE DEF all
<1>3. s \in Seq(all) /\ t \in Seq(all)
  BY <1>1, <1>2, Sequences, Zenon
<1>4. /\ s \o t \in Seq(all) /\ Len(s \o t) = Len(s) + Len(t)
      /\ \A i \in 1..(Len(s) + Len(t)) : (s \o t)[i] = IF i <= Len(s) THEN s[i] ELSE t[i - Len(s)]
  BY <1>3, ConcatProperties
<1> DEFINE u == s \o t
<1>5. u \in Seq(all) /\ Len(s) <= Len(u) /\ \A i \in 1..Len(s) : u[i] = s[i]
  BY <1>1, <1>4
<1> HIDE DEF u
<1> DEFINE front == SubSeq(u, 1, Len(s))
<1>6. front \in Seq(all) /\ Len(front) = Len(s) /\ \A i \in 1..Len(s) : front[i] = u[i]
  BY <1>1, <1>5
<1>7. front = s
  <2> HIDE DEF front
  <2>1. QED
    BY <1>3, <1>5, <1>6, SeqEqual
<1>8. QED
  BY <1>1, <1>5, <1>7 DEF IsPrefix, u

LEMMA PathsTyped ==
  ASSUME NEW api \in Apis PROVE IsPath(Paths(api).wire)
<1>1. \A s, t : IsPath(<<s>>) /\ IsPath(<<s, t>>)
  <2>1. ASSUME NEW s, NEW t PROVE IsPath(<<s>>) /\ IsPath(<<s, t>>)
    <3>1. ToSet(<<s>>) = {s} /\ ToSet(<<s, t>>) = {s, t}
      BY DEF ToSet
    <3>2. <<s>> \in Seq({s}) /\ <<s, t>> \in Seq({s, t})
      OBVIOUS
    <3>3. QED
      BY <3>1, <3>2, Zenon DEF IsPath
  <2>2. QED
    BY <2>1
<1>2. \/ Paths(api).wire = <<"responses">>
      \/ Paths(api).wire = <<"chat", "completions">>
      \/ Paths(api).wire = <<"v1", "messages">>
      \/ Paths(api).wire = <<"v1beta", "interactions">>
  BY DEF Paths, Apis
<1>3. /\ IsPath(<<"responses">>) /\ IsPath(<<"chat", "completions">>)
      /\ IsPath(<<"v1", "messages">>) /\ IsPath(<<"v1beta", "interactions">>)
  BY <1>1, Zenon
<1>4. QED
  BY <1>2, <1>3, Zenon

\* A provider speaks one of the four APIs.
LEMMA ApiTyped ==
  ASSUME NEW a \in Asks, NEW b, b = Resolve(a.client, a.call), ~IsRefused(b),
         NEW p, p = Settle(b, a.env), ~IsRefused(p)
  PROVE  p.api \in Apis
<1>1. b.api \in {None, "responses", "chat_completions"}
  <2>1. \A v, m : NewBuilder(v, m).api = None
    BY DEF NewBuilder
  <2>2. \A i \in {a.client.instance, a.call.instance} \ {None} :
          i.api \in {None, "responses", "chat_completions"}
    BY AsksAssumption
  <2>3. QED
    BY <2>1, <2>2, Resolved
<1>2. b.vendor \in {"openai", "anthropic", "gemini"} /\ p.api = ApiOf(b, UrlOf(b, a.env))
  BY SettledAs, Vendors3
<1>3. QED
  BY <1>1, <1>2 DEF ApiOf, Or, Apis

\* The request goes to a place that the instance or a variable names, or to the
\* vendor's own.
LEMMA PlaceAsTold ==
  ASSUME NEW a \in Asks, NEW b, b = Resolve(a.client, a.call), ~IsRefused(b),
         NEW p, p = Settle(b, a.env), ~IsRefused(p)
  PROVE  LET instance == InstanceOf(a)
             vendor == Vendor[VendorOf(a)]
             own == IF instance = None THEN {} ELSE {instance.base_url} \ {None}
             set == {a.env[v] : v \in ToSet(vendor.urls)} \ {None}
             places == {u \in own \cup set : u.text # ""}
         IN  \E u \in IF places = {} THEN {vendor.url} ELSE places :
               p.endpoint.wire.host = u.host /\ IsPrefix(u.prefix, p.endpoint.wire.path)
<1> DEFINE url == UrlOf(b, a.env)
           instance == InstanceOf(a)
           vendor == Vendor[VendorOf(a)]
           own == IF instance = None THEN {} ELSE {instance.base_url} \ {None}
           variables == vendor.urls
           set == {a.env[v] : v \in ToSet(variables)} \ {None}
           places == {u \in own \cup set : u.text # ""}
<1>1. b.vendor = VendorOf(a) /\ VendorOf(a) \in DOMAIN Vendor
      /\ (IF b.base_url = None THEN own = {} ELSE own = {b.base_url} /\ IsUrl(b.base_url))
  <2>1. \A v, m : NewBuilder(v, m).vendor = v /\ NewBuilder(v, m).base_url = None
    BY DEF NewBuilder
  <2>2. b.vendor \in DOMAIN Vendor
    BY SettledAs
  <2>3. CASE instance = None
    BY <2>1, <2>2, <2>3, Resolved
  <2>4. CASE instance # None
    <3>1. b = instance /\ b \in {a.client.instance, a.call.instance} \ {None}
      BY <2>4, Resolved
    <3>2. VendorOf(a) = instance.vendor
      BY <2>4 DEF VendorOf
    <3>3. \A i \in {a.client.instance, a.call.instance} \ {None} : i.base_url # None => IsUrl(i.base_url)
      BY AsksAssumption
    <3>4. QED
      BY <2>2, <2>4, <3>1, <3>2, <3>3
  <2>5. QED
    BY <2>3, <2>4
<1>2. url.broken \cap ToSet(UrlRules) = {} /\ p.endpoint = Endpoint(url, p.api) /\ p.api \in Apis
  BY SettledAs, ApiTyped
<1>3. url = Or(Or(b.base_url, FirstSet(a.env, variables)), vendor.url)
  BY <1>1 DEF UrlOf
<1>4. \/ /\ {v \in ToSet(variables) : a.env[v] # None /\ a.env[v].text # ""} = {}
         /\ FirstSet(a.env, variables) = None
      \/ \E v \in ToSet(variables) :
           a.env[v] # None /\ a.env[v].text # "" /\ FirstSet(a.env, variables) = a.env[v]
  <2>1. PICK n \in Nat : DOMAIN variables = 1..n
    BY <1>1, VendorTyped
  <2> HIDE DEF variables
  <2>2. QED
    BY <2>1, FirstSets
<1>5. \A v \in ToSet(variables) : a.env[v] # None /\ a.env[v].text # "" => IsPath(a.env[v].prefix)
  BY <1>1, AsksAssumption
<1>6. IsPath(vendor.url.prefix)
  BY <1>1, VendorTyped
<1> HIDE DEF url, own, variables, vendor
<1>7. url \in (IF places = {} THEN {vendor.url} ELSE places) /\ IsPath(url.prefix)
  <2>1. CASE b.base_url # None
    <3>1. url = b.base_url /\ own = {url} /\ IsUrl(url)
      BY <1>1, <1>3, <2>1 DEF Or
    <3>2. IsPath(url.prefix) /\ url.text # ""
      BY <1>2, <3>1 DEF IsUrl
    <3>3. QED
      BY <3>1, <3>2
  <2>2. CASE b.base_url = None /\ FirstSet(a.env, variables) # None
    <3>1. PICK v \in ToSet(variables) :
            a.env[v] # None /\ a.env[v].text # "" /\ FirstSet(a.env, variables) = a.env[v]
      BY <1>4, <2>2
    <3>2. url = a.env[v] /\ url \in places
      BY <1>3, <2>2, <3>1 DEF Or
    <3>3. QED
      BY <1>5, <3>1, <3>2
  <2>3. CASE b.base_url = None /\ FirstSet(a.env, variables) = None
    <3>1. url = vendor.url /\ own = {}
      BY <1>1, <1>3, <2>3 DEF Or
    <3>2. {v \in ToSet(variables) : a.env[v] # None /\ a.env[v].text # ""} = {}
      BY <1>4, <2>3
    <3>3. places = {}
      BY <3>1, <3>2
    <3>4. QED
      BY <1>6, <3>1, <3>3
  <2>4. QED
    BY <2>1, <2>2, <2>3
<1>8. p.endpoint.wire.host = url.host /\ p.endpoint.wire.path = url.prefix \o Paths(p.api).wire
  <2> HIDE DEF places, instance
  <2>1. Endpoint(url, p.api).wire = [scheme |-> url.scheme, host |-> url.host, port |-> url.port,
                                     path |-> url.prefix \o Paths(p.api).wire]
    BY Zenon DEF Endpoint
  <2>2. p.endpoint.wire = [scheme |-> url.scheme, host |-> url.host, port |-> url.port,
                           path |-> url.prefix \o Paths(p.api).wire]
    BY <1>2, <2>1, Zenon
  <2> DEFINE path == url.prefix \o Paths(p.api).wire
  <2>3. p.endpoint.wire = [scheme |-> url.scheme, host |-> url.host, port |-> url.port, path |-> path]
    BY <2>2
  <2> HIDE DEF path
  <2>4. p.endpoint.wire.host = url.host /\ p.endpoint.wire.path = path
    BY <2>3
  <2>5. QED
    BY <2>4 DEF path
<1>9. IsPrefix(url.prefix, p.endpoint.wire.path)
  <2> HIDE DEF places, instance
  <2>1. IsPath(Paths(p.api).wire) /\ IsPath(url.prefix)
    BY <1>2, <1>7, PathsTyped, Zenon
  <2>2. IsPrefix(url.prefix, url.prefix \o Paths(p.api).wire)
    BY <2>1, Joined, Zenon
  <2>3. QED
    BY <1>8, <2>2, Zenon
<1> HIDE DEF places
<1>10. QED
  BY <1>7, <1>8, <1>9 DEF places, own, vendor, variables

-----------------------------------------------------------------------------
(* What is asked: the messages and the mode. *)

Message == [role: {"system"} \cup DOMAIN StepKind, content: STRING]
Turn == [role: DOMAIN StepKind, content: STRING]

\* The turns are the messages without the system's, and the system prompt is
\* the rest: neither has anything of the other.
LEMMA Split ==
  ASSUME NEW messages \in Seq(Message)
  PROVE  /\ Turns(messages) \in Seq(Turn) /\ System(messages) \in Seq(STRING)
         /\ Turns(Turns(messages)) = Turns(messages) /\ System(Turns(messages)) = <<>>
<1> DEFINE turned == {i \in DOMAIN messages : ~IsSystem(messages[i])}
           systems == {i \in DOMAIN messages : IsSystem(messages[i])}
           turns == Turns(messages)
           system == Sift(messages, systems)
<1>1. \A s \in Seq(Message) : Len(s) \in Nat /\ DOMAIN s = 1..Len(s) /\ \A i \in DOMAIN s : s[i] \in Message
  BY LenProperties, ElementOfSeq
<1>2. \A t \in Message : t.content \in STRING /\ (~IsSystem(t) => t \in Turn)
  BY DEF Message, Turn, IsSystem, StepKind
<1>3. \A t \in Turn : ~IsSystem(t)
  BY DEF Turn, IsSystem, StepKind
<1>4. turns \in Seq(Message) /\ Sifted(messages, turned, turns)
  <2>1. turned \subseteq DOMAIN messages
    OBVIOUS
  <2>2. turns = Sift(messages, turned)
    BY DEF Turns
  <2>3. QED
    BY <2>1, <2>2, Sifts, Zenon
<1>5. system \in Seq(Message)
  <2>1. systems \subseteq DOMAIN messages
    OBVIOUS
  <2> HIDE DEF systems
  <2>2. QED
    BY <2>1, Sifts, Zenon
<1>6. System(messages) \in Seq(STRING)
  <2>1. System(messages) = [i \in DOMAIN system |-> system[i].content]
    BY Zenon DEF System
  <2> HIDE DEF system
  <2>2. System(messages) \in [1..Len(system) -> STRING] /\ Len(system) \in Nat
    BY <1>1, <1>2, <1>5, <2>1
  <2>3. QED
    BY <2>2, Sequences, Zenon
<1> HIDE DEF turns, system
<1>7. ASSUME NEW k \in DOMAIN turns PROVE turns[k] \in Turn
  <2>1. PICK at \in [DOMAIN turns -> turned] : \A j \in DOMAIN turns : turns[j] = messages[at[j]]
    BY <1>4 DEF Sifted
  <2>2. at[k] \in turned /\ turns[k] = messages[at[k]]
    BY <2>1
  <2>3. at[k] \in DOMAIN messages /\ ~IsSystem(messages[at[k]])
    BY <2>2
  <2>4. QED
    BY <1>1, <1>2, <2>2, <2>3
<1>8. turns \in Seq(Turn)
  <2>1. turns \in [1..Len(turns) -> Turn] /\ Len(turns) \in Nat
    <3>1. Len(turns) \in Nat /\ DOMAIN turns = 1..Len(turns) /\ turns \in [1..Len(turns) -> Message]
      BY <1>4, LenProperties
    <3>2. QED
      BY <1>7, <3>1
  <2>2. QED
    BY <2>1, Sequences, Zenon
<1>9. Turns(turns) = turns
  <2>1. DOMAIN turns \subseteq {i \in DOMAIN turns : ~IsSystem(turns[i])}
    BY <1>3, <1>7
  <2>2. QED
    BY <1>8, <2>1, SiftsAll, Zenon DEF Turns
<1>10. System(turns) = <<>>
  <2> DEFINE found == {i \in DOMAIN turns : IsSystem(turns[i])}
  <2>1. found \cap DOMAIN turns = {}
    BY <1>3, <1>7
  <2>2. Sift(turns, found) = <<>>
    <3> HIDE DEF found
    <3>1. QED
      BY <1>8, <2>1, SiftsNone, Zenon
  <2>3. System(turns) = [i \in DOMAIN <<>> |-> <<>>[i].content]
    BY <2>2, Zenon DEF System
  <2>4. QED
    BY <2>3
<1>11. QED
  BY <1>6, <1>8, <1>9, <1>10 DEF turns

\* The texts of a prompt that say something.
SpokenOf(texts) == Sift(texts, {i \in DOMAIN texts : texts[i] # ""})

\* A prompt that joins to nothing says nothing.
LEMMA Unspoken == ASSUME NEW prompt, IsEmpty(prompt) PROVE SpokenOf(prompt) = <<>>
<1> DEFINE kept == {i \in DOMAIN prompt : prompt[i] # ""}
<1>1. prompt \in Seq({""}) /\ kept \cap DOMAIN prompt = {}
  <2>1. prompt = <<>> \/ prompt = <<"">>
    BY DEF IsEmpty
  <2>2. \A w : /\ <<>> \in Seq({w}) /\ <<w>> \in Seq({w})
             /\ \A i \in DOMAIN <<w>> : <<w>>[i] = w
    OBVIOUS
  <2>3. DOMAIN <<>> = {}
    OBVIOUS
  <2>4. prompt \in Seq({""}) /\ \A i \in DOMAIN prompt : prompt[i] = ""
    BY <2>1, <2>2, <2>3, Zenon
  <2>5. QED
    BY <2>4
<1> HIDE DEF kept
<1>2. Sift(prompt, kept) = <<>>
  BY <1>1, SiftsNone, Zenon
<1>3. QED
  BY <1>2 DEF SpokenOf, kept

\* A body says what its vendor is to hear: the turns, the schema, the prompt.
Says(api, body, messages, structured) ==
  LET heard == Heard(api, body)
  IN  /\ heard.turns = Turns(messages) /\ heard.schema = structured
      /\ SpokenOf(heard.prompt) = SpokenOf(System(messages))

\* The model is laid over a body without one and hides nothing of it.
LEMMA OverModel ==
  ASSUME NEW model, NEW fields, "model" \notin DOMAIN fields,
         NEW body, body = Over([model |-> model], fields)
  PROVE  body.model = model /\ \A n \in DOMAIN fields : body[n] = fields[n]
<1> DEFINE front == [model |-> model]
<1>1. DOMAIN front = {"model"} /\ front["model"] = model
  OBVIOUS
<1>2. body = Over(front, fields)
  OBVIOUS
<1> HIDE DEF front
<1>3. /\ \A n \in DOMAIN front : body[n] = front[n]
      /\ \A n \in DOMAIN fields \ DOMAIN front : body[n] = fields[n]
  BY <1>2 DEF Over
<1>4. QED
  BY <1>1, <1>3

LEMMA SaysResponses ==
  ASSUME NEW model, NEW messages \in Seq(Message), NEW structured \in BOOLEAN,
         NEW body, body = Over([model |-> model], ResponsesBody(messages, IF structured THEN "schema" ELSE None))
  PROVE  body.model = model /\ Says("responses", body, messages, structured)
<1> DEFINE whole == [input |-> messages, instructions |-> None, format |-> "json_object", store |-> FALSE]
           apart == [input |-> Turns(messages), instructions |-> System(messages),
                     format |-> "schema", store |-> FALSE]
           fields == ResponsesBody(messages, IF structured THEN "schema" ELSE None)
<1>1. fields = IF structured THEN apart ELSE whole
  BY AsksAssumption DEF ResponsesBody
<1>2. /\ DOMAIN whole = {"input", "instructions", "format", "store"}
      /\ whole["input"] = messages /\ whole["instructions"] = None /\ whole["format"] = "json_object"
      /\ DOMAIN apart = {"input", "instructions", "format", "store"}
      /\ apart["input"] = Turns(messages) /\ apart["instructions"] = System(messages)
      /\ apart["format"] = "schema"
  OBVIOUS
<1> HIDE DEF whole, apart, fields
<1>3. /\ body.model = model
      /\ body.input = fields["input"] /\ body.instructions = fields["instructions"]
      /\ body.format = fields["format"]
  <2>1. "model" \notin DOMAIN fields /\ {"input", "instructions", "format"} \subseteq DOMAIN fields
    BY <1>1, <1>2
  <2>2. body = Over([model |-> model], fields)
    BY DEF fields
  <2>3. body["model"] = model /\ \A n \in DOMAIN fields : body[n] = fields[n]
    BY <2>1, <2>2, OverModel
  <2>4. QED
    BY <2>1, <2>3
<1>4. Heard("responses", body) =
        [prompt |-> Or(body.instructions, <<>>) \o System(body.input),
         turns |-> Turns(body.input), schema |-> body.format = "schema"]
  BY Zenon DEF Heard
<1> DEFINE prompt == Or(body.instructions, <<>>) \o System(body.input)
           schema == body.format = "schema"
<1>5. /\ Heard("responses", body).prompt = prompt
      /\ Heard("responses", body).turns = Turns(body.input)
      /\ Heard("responses", body).schema = schema
  <2> HIDE DEF prompt, schema
  <2>1. Heard("responses", body) = [prompt |-> prompt, turns |-> Turns(body.input), schema |-> schema]
    BY <1>4, Zenon DEF prompt, schema
  <2>2. QED
    BY <2>1
<1>6. System(messages) \in Seq(STRING) /\ System(messages) # None
  BY Split, AsksAssumption
<1>7. prompt = System(messages)
  <2>1. CASE structured
    <3>1. Or(body.instructions, <<>>) = System(messages) /\ System(body.input) = <<>>
      BY <1>1, <1>2, <1>3, <1>6, <2>1, Split, ZenonT(60) DEF Or
    <3>2. QED
      BY <1>6, <3>1
  <2>2. CASE ~structured
    <3>1. Or(body.instructions, <<>>) = <<>> /\ System(body.input) = System(messages)
      BY <1>1, <1>2, <1>3, <2>2, Zenon DEF Or
    <3>2. QED
      BY <1>6, <3>1
  <2>3. QED
    BY <2>1, <2>2
<1>8. schema = structured
  BY <1>1, <1>2, <1>3
<1>9. Turns(body.input) = Turns(messages)
  BY <1>1, <1>2, <1>3, Split, ZenonT(60)
<1> HIDE DEF prompt, schema
<1>10. QED
  BY <1>3, <1>5, <1>7, <1>8, <1>9, Zenon DEF Says

LEMMA SaysChat ==
  ASSUME NEW model, NEW messages \in Seq(Message), NEW structured \in BOOLEAN,
         NEW body, body = Over([model |-> model], ChatBody(messages, IF structured THEN "schema" ELSE None))
  PROVE  body.model = model /\ Says("chat_completions", body, messages, structured)
<1> DEFINE format == IF structured THEN "schema" ELSE None
           fields == [messages |-> messages, response_format |-> format]
           schema == body.response_format # None
<1>1. body = Over([model |-> model], fields)
  BY DEF ChatBody
<1>2. /\ DOMAIN fields = {"messages", "response_format"}
      /\ fields["messages"] = messages /\ fields["response_format"] = format
  OBVIOUS
<1> HIDE DEF fields
<1>3. body.model = model /\ body.messages = messages /\ body.response_format = format
  <2>1. "model" \notin DOMAIN fields /\ "messages" \in DOMAIN fields /\ "response_format" \in DOMAIN fields
    BY <1>2
  <2>2. body["model"] = model /\ \A n \in DOMAIN fields : body[n] = fields[n]
    BY <1>1, <2>1, OverModel
  <2>3. QED
    BY <1>2, <2>1, <2>2
<1>4. schema = structured
  BY <1>3, AsksAssumption
<1> HIDE DEF schema
<1>5. Heard("chat_completions", body) =
        [prompt |-> System(body.messages), turns |-> Turns(body.messages), schema |-> schema]
  BY Zenon DEF Heard, schema
<1>6. /\ Heard("chat_completions", body).prompt = System(body.messages)
      /\ Heard("chat_completions", body).turns = Turns(body.messages)
      /\ Heard("chat_completions", body).schema = schema
  BY <1>5
<1>7. QED
  BY <1>3, <1>4, <1>6, Zenon DEF Says

LEMMA SaysMessages ==
  ASSUME NEW model, NEW max, NEW messages \in Seq(Message), NEW structured \in BOOLEAN,
         NEW body, body = Over([model |-> model], Over([max_tokens |-> max],
                            MessagesBody(messages, IF structured THEN "schema" ELSE None)))
  PROVE  body.model = model /\ Says("messages", body, messages, structured)
<1> DEFINE format == IF structured THEN "schema" ELSE None
           fields == [system |-> System(messages), messages |-> Turns(messages), output_config |-> format]
           front == [max_tokens |-> max]
           more == Over(front, fields)
           schema == body.output_config # None
<1>1. body = Over([model |-> model], more)
  BY DEF MessagesBody
<1>2. /\ DOMAIN fields = {"system", "messages", "output_config"}
      /\ fields["system"] = System(messages) /\ fields["messages"] = Turns(messages)
      /\ fields["output_config"] = format /\ DOMAIN front = {"max_tokens"}
  OBVIOUS
<1> HIDE DEF fields, front
<1>3. /\ "model" \notin DOMAIN more /\ DOMAIN fields \subseteq DOMAIN more
      /\ \A n \in DOMAIN fields : more[n] = fields[n]
  <2>1. DOMAIN more = DOMAIN front \cup DOMAIN fields
    BY Overs, Zenon
  <2>2. \A n \in DOMAIN fields \ DOMAIN front : more[n] = fields[n]
    BY Overs, ZenonT(60)
  <2> HIDE DEF more
  <2>3. QED
    BY <1>2, <2>1, <2>2
<1> HIDE DEF more
<1>4. /\ body.model = model /\ body.system = System(messages)
      /\ body.messages = Turns(messages) /\ body.output_config = format
  <2>1. "system" \in DOMAIN fields /\ "messages" \in DOMAIN fields /\ "output_config" \in DOMAIN fields
    BY <1>2
  <2>2. /\ body["system"] = more["system"] /\ body["messages"] = more["messages"]
        /\ body["output_config"] = more["output_config"] /\ body["model"] = model
    BY <1>1, <1>3, <2>1, OverModel
  <2>3. QED
    BY <1>2, <1>3, <2>1, <2>2, Zenon
<1>5. schema = structured
  BY <1>4, AsksAssumption
<1> HIDE DEF schema
<1> DEFINE prompt == body.system \o System(body.messages)
<1>6. prompt = System(messages)
  <2>1. System(body.messages) = <<>> /\ System(messages) \in Seq(STRING)
    BY <1>4, Split, Zenon
  <2>2. \A t \in Seq(STRING) : t \o <<>> = t
    OBVIOUS
  <2>3. prompt = System(messages) \o <<>>
    BY <1>4, <2>1, Zenon
  <2>4. QED
    BY <2>1, <2>2, <2>3, Zenon
<1> HIDE DEF prompt
<1>7. Heard("messages", body) = [prompt |-> prompt, turns |-> Turns(body.messages), schema |-> schema]
  BY Zenon DEF Heard, schema, prompt
<1>8. /\ Heard("messages", body).prompt = prompt
      /\ Heard("messages", body).turns = Turns(body.messages)
      /\ Heard("messages", body).schema = schema
  BY <1>7
<1>9. Turns(body.messages) = Turns(messages)
  BY <1>4, Split, Zenon
<1>10. QED
  BY <1>4, <1>5, <1>6, <1>8, <1>9, Zenon DEF Says

LEMMA SaysInteractions ==
  ASSUME NEW model, NEW messages \in Seq(Message), NEW structured \in BOOLEAN,
         NEW body, body = Over([model |-> model], InteractionBody(messages, IF structured THEN "schema" ELSE None))
  PROVE  body.model = model /\ Says("interactions", body, messages, structured)
<1> DEFINE format == IF structured THEN "schema" ELSE None
           turns == Turns(messages)
           steps == [i \in DOMAIN turns |-> [kind |-> StepKind[turns[i].role], text |-> turns[i].content]]
           instruction == IF IsEmpty(System(messages)) THEN None ELSE System(messages)
           fields == [input |-> steps, store |-> FALSE, system_instruction |-> instruction,
                      response_format |-> format]
           understood == [i \in DOMAIN body.input |->
             [role |-> CHOOSE r \in DOMAIN StepKind : StepKind[r] = body.input[i].kind,
              content |-> body.input[i].text]]
           schema == body.response_format # None
           prompt == Or(body.system_instruction, <<>>)
<1>1. body = Over([model |-> model], fields)
  BY DEF InteractionBody
<1>2. turns \in Seq(Turn) /\ DOMAIN turns = 1..Len(turns) /\ \A i \in DOMAIN turns : turns[i] \in Turn
  <2>1. turns \in Seq(Turn)
    BY Split
  <2> HIDE DEF turns
  <2>2. QED
    BY <2>1, LenProperties, ElementOfSeq
<1> HIDE DEF turns
<1>3. DOMAIN steps = DOMAIN turns
      /\ \A i \in DOMAIN turns : steps[i].kind = StepKind[turns[i].role] /\ steps[i].text = turns[i].content
  OBVIOUS
<1> HIDE DEF steps, instruction, format
<1>4. /\ DOMAIN fields = {"input", "store", "system_instruction", "response_format"}
      /\ fields["input"] = steps /\ fields["system_instruction"] = instruction
      /\ fields["response_format"] = format
  OBVIOUS
<1> HIDE DEF fields
<1>5. /\ body.model = model /\ body.input = steps /\ body.system_instruction = instruction
      /\ body.response_format = format
  <2>1. /\ "model" \notin DOMAIN fields /\ "input" \in DOMAIN fields
        /\ "system_instruction" \in DOMAIN fields /\ "response_format" \in DOMAIN fields
    BY <1>4
  <2>2. body["model"] = model /\ \A n \in DOMAIN fields : body[n] = fields[n]
    BY <1>1, <2>1, OverModel
  <2>3. QED
    BY <1>4, <2>1, <2>2
<1>6. schema = structured
  BY <1>5, AsksAssumption DEF format
<1>7. understood = turns
  <2>1. \A r \in DOMAIN StepKind : (CHOOSE q \in DOMAIN StepKind : StepKind[q] = StepKind[r]) = r
    <3>1. \A q, r \in DOMAIN StepKind : StepKind[q] = StepKind[r] => q = r
      BY DEF StepKind
    <3>2. QED
      BY <3>1
  <2>2. \A t \in Turn : t = [role |-> t.role, content |-> t.content] /\ t.role \in DOMAIN StepKind
    BY DEF Turn
  <2>3. ASSUME NEW i \in DOMAIN turns
        PROVE  [role |-> CHOOSE r \in DOMAIN StepKind : StepKind[r] = steps[i].kind,
                content |-> steps[i].text] = turns[i]
    <3>1. turns[i] = [role |-> turns[i].role, content |-> turns[i].content] /\ turns[i].role \in DOMAIN StepKind
      BY <1>2, <2>2, Zenon
    <3>2. steps[i].kind = StepKind[turns[i].role] /\ steps[i].text = turns[i].content
      BY <1>3
    <3>3. (CHOOSE r \in DOMAIN StepKind : StepKind[r] = steps[i].kind) = turns[i].role
      BY <2>1, <3>1, <3>2
    <3>4. QED
      BY <3>1, <3>2, <3>3
  <2>4. understood = [i \in DOMAIN turns |->
          [role |-> CHOOSE r \in DOMAIN StepKind : StepKind[r] = steps[i].kind,
           content |-> steps[i].text]]
    BY <1>3, <1>5, Zenon
  <2> HIDE DEF understood
  <2>5. understood = [i \in DOMAIN turns |-> turns[i]]
    BY <2>3, <2>4, Zenon
  <2>6. \A s \in Seq(Turn) : s = [i \in DOMAIN s |-> s[i]]
    OBVIOUS
  <2>7. QED
    BY <1>2, <2>5, <2>6
<1>8. SpokenOf(prompt) = SpokenOf(System(messages))
  <2>1. System(messages) # None
    BY Split, AsksAssumption
  <2>2. CASE IsEmpty(System(messages))
    <3>1. prompt = <<>>
      BY <1>5, <2>2, Zenon DEF instruction, Or
    <3>2. IsEmpty(prompt)
      BY <3>1 DEF IsEmpty
    <3>3. QED
      BY <2>2, <3>2, Unspoken, Zenon
  <2>3. CASE ~IsEmpty(System(messages))
    BY <1>5, <2>1, <2>3, Zenon DEF instruction, Or
  <2>4. QED
    BY <2>2, <2>3
<1> HIDE DEF schema, understood, prompt
<1>9. Heard("interactions", body) = [prompt |-> prompt, turns |-> understood, schema |-> schema]
  BY Zenon DEF Heard, schema, understood, prompt
<1>10. /\ Heard("interactions", body).prompt = prompt
       /\ Heard("interactions", body).turns = understood
       /\ Heard("interactions", body).schema = schema
  BY <1>9
<1>11. QED
  BY <1>5, <1>6, <1>7, <1>8, <1>10, Zenon DEF Says, turns

\* Whatever the API, a request says what was asked and of which model.
LEMMA AsksAllOf ==
  ASSUME NEW p, p.api \in Apis, NEW messages \in Seq(Message), NEW structured \in BOOLEAN,
         NEW body, body = BodyOf(p, messages, structured)
  PROVE  body.model = p.model /\ Says(p.api, body, messages, structured)
<1> DEFINE schema == IF structured THEN "schema" ELSE None
<1>1. CASE p.api = "responses"
  <2>1. body = Over([model |-> p.model], ResponsesBody(messages, schema))
    BY <1>1, Zenon DEF BodyOf
  <2>2. body.model = p.model /\ Says("responses", body, messages, structured)
    BY <2>1, SaysResponses
  <2>3. QED
    BY <1>1, <2>2, Zenon
<1>2. CASE p.api = "chat_completions"
  <2>1. body = Over([model |-> p.model], ChatBody(messages, schema))
    BY <1>2, Zenon DEF BodyOf
  <2>2. body.model = p.model /\ Says("chat_completions", body, messages, structured)
    BY <2>1, SaysChat
  <2>3. QED
    BY <1>2, <2>2, Zenon
<1>3. CASE p.api = "messages"
  <2>1. body = Over([model |-> p.model], Over([max_tokens |-> p.max_tokens], MessagesBody(messages, schema)))
    BY <1>3, Zenon DEF BodyOf
  <2>2. body.model = p.model /\ Says("messages", body, messages, structured)
    BY <2>1, SaysMessages
  <2>3. QED
    BY <1>3, <2>2, Zenon
<1>4. CASE p.api = "interactions"
  <2>1. body = Over([model |-> p.model], InteractionBody(messages, schema))
    BY <1>4, Zenon DEF BodyOf
  <2>2. body.model = p.model /\ Says("interactions", body, messages, structured)
    BY <2>1, SaysInteractions
  <2>3. QED
    BY <1>4, <2>2, Zenon
<1>5. QED
  BY <1>1, <1>2, <1>3, <1>4 DEF Apis

-----------------------------------------------------------------------------
(* What is asked: the whole request, as the attempt goes on. *)

\* The provider is what the call resolves to, and what was sent is its request.
Builder == Resolve(ask.client, ask.call)
Built ==
  /\ ask \in Asks
  /\ pc \in {"resolving", "idle", "waiting", "sent", "reading", "ended"}
  /\ DOMAIN trace = {"request", "response", "finish"}
  /\ pc # "resolving" => provider = IF IsRefused(Builder) THEN Builder ELSE Settle(Builder, ask.env)
  /\ pc \in {"idle", "waiting", "sent", "reading"} => ~IsRefused(provider)
  /\ pc \in {"waiting", "sent", "reading"} => trace.request = Asked
  /\ pc \in {"resolving", "idle", "waiting"} => wire = None
  /\ wire # None =>
       /\ ~IsRefused(provider) /\ trace.request = Asked
       /\ wire = [uri |-> provider.endpoint.wire, headers |-> provider.headers, body |-> Asked]

LEMMA InitBuilt == Init => Built
BY DEF Init, Built

LEMMA StepBuilt == ASSUME Built, [Next]_vars PROVE Built'
<1>1. CASE Build
  BY <1>1 DEF Build, Built, Builder
<1>2. CASE Request
  <2>1. trace'.request = Asked /\ DOMAIN trace' = DOMAIN trace
    BY <1>2 DEF Request, Built
  <2>2. QED
    BY <1>2, <2>1 DEF Request, Built, Builder, Asked
<1>3. CASE Call
  BY <1>3 DEF Call, Built, Builder, Asked
<1>4. ASSUME NEW f \in Failures, Fail(f) PROVE Built'
  BY <1>4 DEF Fail, End, Built, Builder, Asked
<1>5. ASSUME NEW r \in Responses, ReceiveHead(r) PROVE Built'
  BY <1>5 DEF ReceiveHead, End, Built, Builder, Asked
<1>6. ASSUME pc = "reading", NEW n \in 1..response.size, Frame(n) PROVE Built'
  BY <1>6 DEF Frame, End, Built, Builder, Asked
<1>7. CASE Whole
  <2>1. /\ pc = "reading" /\ pc' = "ended" /\ UNCHANGED <<ask, provider, wire>>
        /\ DOMAIN trace' = DOMAIN trace /\ trace'.request = trace.request
    BY <1>7 DEF Whole, End, Reply, Built
  <2>2. QED
    BY <2>1 DEF Built, Builder, Asked
<1>8. CASE Deadline
  BY <1>8 DEF Deadline, End, Built, Builder, Asked
<1>9. CASE UNCHANGED vars
  BY <1>9 DEF vars, Built, Builder, Asked
<1>10. QED
  BY <1>1, <1>2, <1>3, <1>4, <1>5, <1>6, <1>7, <1>8, <1>9 DEF Next

\* The model is the one named nearest to the call.
LEMMA ModelAsTold ==
  ASSUME NEW a \in Asks, NEW b, b = Resolve(a.client, a.call), ~IsRefused(b),
         NEW p, p = Settle(b, a.env), ~IsRefused(p)
  PROVE  p.model = IF InstanceOf(a) # None THEN InstanceOf(a).model ELSE Or(a.call.model, a.client.model)
<1>1. p.model = b.model
  BY SettledAs
<1>2. \A v, m : NewBuilder(v, m).model = m
  BY DEF NewBuilder
<1>3. QED
  BY <1>1, <1>2, Resolved

LEMMA BuiltAsks == Built => AsksAsTold
<1> SUFFICES ASSUME Built, wire # None PROVE AsksAsTold
  BY DEF AsksAsTold
<1> DEFINE b == Resolve(ask.client, ask.call)
           instance == InstanceOf(ask)
           vendor == Vendor[VendorOf(ask)]
           given(member) == IF instance = None THEN {} ELSE {instance[member]} \ {None}
           Set(variables) == {ask.env[v] : v \in ToSet(variables)} \ {None}
           places == {u \in given("base_url") \cup Set(vendor.urls) : u.text # ""}
<1>1. /\ ask \in Asks /\ pc # "resolving" /\ ~IsRefused(provider) /\ trace.request = Asked
      /\ provider = IF IsRefused(b) THEN b ELSE Settle(b, ask.env)
      /\ wire = [uri |-> provider.endpoint.wire, headers |-> provider.headers, body |-> Asked]
  BY DEF Built, Builder
<1>2. /\ wire.uri = provider.endpoint.wire /\ wire.headers = provider.headers /\ wire.body = Asked
  BY <1>1
<1>3. ~IsRefused(b) /\ provider = Settle(b, ask.env)
  BY <1>1, Zenon
<1> HIDE DEF b
<1>4. b = Resolve(ask.client, ask.call)
  BY DEF b
<1>5. ask.messages \in Seq(Message) /\ ask.structured \in BOOLEAN
  BY <1>1, AsksAssumption DEF Message
<1>6. provider.api \in Apis
  BY <1>1, <1>3, <1>4, ApiTyped
<1>7. wire.body.model = provider.model /\ Says(provider.api, wire.body, ask.messages, ask.structured)
  BY <1>2, <1>5, <1>6, AsksAllOf DEF Asked
<1>8. provider.model = IF instance # None THEN instance.model ELSE Or(ask.call.model, ask.client.model)
  BY <1>1, <1>3, <1>4, ModelAsTold
<1>9. \E k \in given("api_key") \cup Set(vendor.keys) : KeysIn(wire.headers) = {k.text}
  <2> DEFINE own == IF instance = None THEN {} ELSE {instance.api_key} \ {None}
             set == {ask.env[v] : v \in ToSet(Vendor[VendorOf(ask)].keys)} \ {None}
  <2>1. \E k \in own \cup set : KeysIn(provider.headers) = {k.text}
    BY <1>1, <1>3, <1>4, KeyAsTold
  <2>2. own = given("api_key") /\ set = Set(vendor.keys)
    OBVIOUS
  <2> HIDE DEF own, set, given, Set
  <2>3. QED
    BY <1>2, <2>1, <2>2
<1>10. \E u \in IF places = {} THEN {vendor.url} ELSE places :
         wire.uri.host = u.host /\ IsPrefix(u.prefix, wire.uri.path)
  <2> DEFINE own == IF instance = None THEN {} ELSE {instance.base_url} \ {None}
             set == {ask.env[v] : v \in ToSet(Vendor[VendorOf(ask)].urls)} \ {None}
             all == {u \in own \cup set : u.text # ""}
  <2>1. \E u \in IF all = {} THEN {Vendor[VendorOf(ask)].url} ELSE all :
          provider.endpoint.wire.host = u.host /\ IsPrefix(u.prefix, provider.endpoint.wire.path)
    BY <1>1, <1>3, <1>4, PlaceAsTold
  <2>2. all = places
    OBVIOUS
  <2> HIDE DEF all, places
  <2>3. QED
    BY <1>2, <2>1, <2>2, Zenon
<1>11. QED
  BY <1>1, <1>2, <1>7, <1>8, <1>9, <1>10, Zenon DEF AsksAsTold, Says, SpokenOf, KeysIn

\* What is sent is what was asked: every message once and in its order, for the
\* model named nearest to the call, with a key of its vendor's own and to a place
\* its instance or its environment names (client.rs:225-250, http.rs:280-418).
THEOREM RequestIsAsTold == Spec => []AsksAsTold
BY InitBuilt, StepBuilt, BuiltAsks, PTL DEF Spec

-----------------------------------------------------------------------------
(* What is answered: nothing that is not finished. *)

LEMMA NoRefusals ==
  ASSUME NEW output \in Seq(OutputStep), Refusals(Parts(output)) = {}
  PROVE  \A i \in DOMAIN output : output[i].kind = "answer" => Refusals(Content(output[i])) = {}
<1> DEFINE kept == {i \in DOMAIN output : output[i].kind = "answer"}
           messages == Messages(output)
           contents == [k \in DOMAIN messages |-> Content(messages[k])]
<1>1. messages \in Seq(OutputStep) /\ Sifted(output, kept, messages)
  <2>1. kept \subseteq DOMAIN output
    OBVIOUS
  <2>2. messages = Sift(output, kept)
    BY DEF Messages
  <2> HIDE DEF kept
  <2>3. QED
    BY <2>1, <2>2, Sifts
<1>2. Parts(output) = Flat(contents)
  BY DEF Parts
<1> HIDE DEF messages
<1>3. Len(messages) \in Nat /\ DOMAIN messages = 1..Len(messages)
      /\ \A k \in 1..Len(messages) : messages[k] \in OutputStep
  BY <1>1, LenProperties, ElementOfSeq
<1>4. \A step \in OutputStep : Content(step) \in Seq(OutputItem)
  <2>1. <<>> \in Seq(OutputItem)
    OBVIOUS
  <2>2. QED
    BY <2>1 DEF Content, OutputStep, Maybe
<1>5. contents \in Seq(Seq(OutputItem)) /\ DOMAIN contents = DOMAIN messages
      /\ \A k \in DOMAIN messages : contents[k] = Content(messages[k])
  <2>1. contents \in [1..Len(messages) -> Seq(OutputItem)]
    BY <1>3, <1>4
  <2>2. contents \in Seq(Seq(OutputItem))
    BY <1>3, <2>1, Sequences, Zenon
  <2>3. QED
    BY <2>2
<1> HIDE DEF contents
<1>6. ASSUME NEW i \in DOMAIN output, output[i].kind = "answer", NEW j \in Refusals(Content(output[i]))
      PROVE  FALSE
  <2>1. PICK k \in DOMAIN messages : messages[k] = output[i]
    <3>1. i \in kept
      BY <1>6
    <3> HIDE DEF kept
    <3>2. QED
      BY <1>1, <3>1 DEF Sifted
  <2>2. j \in DOMAIN contents[k] /\ contents[k][j].kind = "refusal"
    BY <1>5, <1>6, <2>1 DEF Refusals
  <2>3. PICK m \in DOMAIN Flat(contents) : Flat(contents)[m] = contents[k][j]
    BY <1>5, <2>1, <2>2, InFlat
  <2>4. m \in Refusals(Parts(output))
    BY <1>2, <2>2, <2>3 DEF Refusals
  <2>5. QED
    BY <2>4
<1>7. QED
  BY <1>6

\* What is answered was finished, and of an interaction it is the last run of text.
LEMMA ReadFinished ==
  ASSUME NEW api \in Apis, NEW b \in Body, Read(api, b).answers
  PROVE  /\ b.stop \in {None, Finished}
         /\ api = "responses" => \A i \in DOMAIN b.output : b.output[i].kind = "answer" =>
              Refusals(Content(b.output[i])) = {}
         /\ api = "interactions" => Read(api, b).text = LastRun(AfterInput(b.output))
<1>1. \A reason : ~Refuse(reason).answers
  BY DEF Refuse
<1>2. \A items : Answer(items).text = items
  BY DEF Answer
<1>3. b.output \in Seq(OutputStep)
  BY DEF Body, OutputStep, OutputItem
<1>4. CASE api = "responses"
  <2>1. Read(api, b) = ReadResponses(b)
    BY <1>4 DEF Read
  <2>2. b.stop = Finished /\ Refusals(Parts(b.output)) = {}
    BY <1>1, <2>1, Zenon DEF ReadResponses
  <2>3. QED
    BY <1>3, <1>4, <2>2, NoRefusals
<1>5. CASE api = "chat_completions"
  <2>1. Read(api, b) = ReadChat(b)
    BY <1>5 DEF Read
  <2>2. QED
    BY <1>1, <1>5, <2>1 DEF ReadChat
<1>6. CASE api = "messages"
  <2>1. Read(api, b) = ReadMessages(b)
    BY <1>6 DEF Read
  <2>2. QED
    BY <1>1, <1>6, <2>1 DEF ReadMessages
<1>7. CASE api = "interactions"
  <2>1. Read(api, b) = ReadInteraction(b)
    BY <1>7 DEF Read
  <2>2. b.stop = Finished /\ Read(api, b) = Answer(OutputText(b.output))
    BY <1>1, <2>1, Zenon DEF ReadInteraction
  <2>3. QED
    BY <1>2, <1>3, <1>7, <2>2, OutputRead
<1>8. QED
  BY <1>4, <1>5, <1>6, <1>7 DEF Apis

\* An answer is told only of a reply that is read as one.
LEMMA AnswerRead ==
  ASSUME NEW b, NEW status, Reading(b, status).told.kind = "Answer"
  PROVE  /\ Read(provider.api, b).answers
         /\ Reading(b, status).told.text = Read(provider.api, b).text
<1> DEFINE result == Read(provider.api, b)
           told == [Told("Answer", status, <<>>, <<>>) EXCEPT !.text = result.text]
           screened == Screened(b, StopRecorded(provider.api, b), NonAnswer(result.reason, status))
<1>1. \A reason : NonAnswer(reason, status).kind = "NonAnswer"
  BY ToldKinds DEF NonAnswer
<1>2. screened.told.kind = "NonAnswer"
  BY <1>1, ToldKinds DEF Screened, NonAnswer
<1>3. told.text = result.text
  BY DEF Told
<1> HIDE DEF result, told
<1>4. Reading(b, status) = IF result.answers
        THEN [finish |-> StopRecorded(provider.api, b), told |-> told] ELSE screened
  BY Zenon DEF Reading, result, told
<1> HIDE DEF screened
<1>5. result.answers
  BY <1>2, <1>4
<1>6. Reading(b, status).told = told
  BY <1>4, <1>5
<1>7. QED
  BY <1>3, <1>5, <1>6 DEF result

LEMMA StepAnswers == ASSUME IInv2, AnswersAreFinished, [Next]_vars PROVE AnswersAreFinished'
<1>0. IInv /\ Traced
  BY DEF IInv2
<1>1. CASE UNCHANGED vars
  BY <1>1 DEF vars, AnswersAreFinished
<1>2. CASE Build \/ Request \/ Call
  <2>1. outcome' = None
    BY <1>0, <1>2 DEF Build, Request, Call, IInv, Underway
  <2>2. QED
    BY <2>1 DEF AnswersAreFinished
<1>3. ASSUME NEW f \in Failures, Fail(f) PROVE AnswersAreFinished'
  BY <1>3, ToldKinds DEF Fail, End, AnswersAreFinished
<1>4. ASSUME NEW r \in Responses, ReceiveHead(r) PROVE AnswersAreFinished'
  <2>1. CASE r.declared > provider.limit
    BY <1>4, <2>1, TooLargeTold DEF ReceiveHead, End, AnswersAreFinished
  <2>2. CASE ~(r.declared > provider.limit)
    BY <1>0, <1>4, <2>2 DEF ReceiveHead, IInv, Underway, AnswersAreFinished
  <2>3. QED
    BY <2>1, <2>2
<1>5. ASSUME pc = "reading", NEW n \in 1..response.size, Frame(n) PROVE AnswersAreFinished'
  <2>1. response \in Responses /\ outcome = None
    BY <1>0, <1>5 DEF IInv, Underway
  <2>2. CASE read + n > provider.limit
    BY <1>5, <2>1, <2>2, TooLargeTold DEF Frame, End, AnswersAreFinished
  <2>3. CASE ~(read + n > provider.limit)
    BY <1>5, <2>1, <2>3 DEF Frame, AnswersAreFinished
  <2>4. QED
    BY <2>2, <2>3
<1>6. CASE Whole
  <2>1. pc = "reading" /\ response' = response /\ provider' = provider
    BY <1>6 DEF Whole
  <2>2. response \in Responses /\ response.body \in Body /\ provider.api \in Apis
    <3>1. response \in Response /\ response.api = provider.api
      BY <1>0, <2>1 DEF IInv, Underway, Traced
    <3>2. \A r \in Response : r.body \in Body /\ r.api \in Apis
      BY DEF Response
    <3>3. QED
      BY <1>0, <2>1, <3>1, <3>2 DEF IInv, Underway
  <2>3. CASE outcome' = ApiError(response, TRUE)
    BY <2>2, <2>3, ApiErrors DEF AnswersAreFinished
  <2>4. CASE outcome' = NonAnswer(Fixed, response.status)
    <3>1. outcome'.kind = "NonAnswer"
      BY <2>4, ToldKinds DEF NonAnswer
    <3>2. QED
      BY <3>1 DEF AnswersAreFinished
  <2>5. CASE response.body.json /\ outcome' = Reading(response.body, response.status).told
    <3> DEFINE b == response.body
    <3>1. SUFFICES ASSUME outcome'.kind = "Answer" PROVE AnswersAreFinished'
      BY DEF AnswersAreFinished
    <3> HIDE DEF b
    <3>2. Read(provider.api, b).answers /\ outcome'.text = Read(provider.api, b).text
      BY <2>5, <3>1, AnswerRead DEF b
    <3>3. /\ b.stop \in {None, Finished}
          /\ provider.api = "responses" => \A i \in DOMAIN b.output : b.output[i].kind = "answer" =>
               Refusals(Content(b.output[i])) = {}
          /\ provider.api = "interactions" => outcome'.text = LastRun(AfterInput(b.output))
      BY <2>2, <3>2, ReadFinished DEF b
    <3>4. b = response'.body /\ b.json /\ provider' = provider
      BY <2>1, <2>5 DEF b
    <3>5. QED
      BY <3>3, <3>4, Zenon DEF AnswersAreFinished
  <2>6. QED
    BY <1>6, <2>3, <2>4, <2>5 DEF Whole, End, Reply
<1>7. CASE Deadline
  <2>1. outcome'.kind = "Timeout"
    BY <1>7, ToldKinds DEF Deadline, End
  <2>2. QED
    BY <2>1 DEF AnswersAreFinished
<1>8. QED
  BY <1>1, <1>2, <1>3, <1>4, <1>5, <1>6, <1>7 DEF Next

\* An answer is the text of a reply that its vendor finished, of a Responses reply
\* one that refuses nothing, and of an interaction the last run of text after the last
\* input (openai.rs:594-603, gemini.rs:421-432).
THEOREM AnswersAreWhole == Spec => []AnswersAreFinished
<1>1. Init => AnswersAreFinished
  BY DEF Init, AnswersAreFinished
<1>2. QED
  BY InitIInv2, StepIInv2, StepAnswers, <1>1, PTL DEF Spec

\* The size limit holds: no more of a body is held than the limit, and a body
\* over it reaches no reply, no error text and no record
\* (exchange_once, http.rs:747-757).
THEOREM LimitKept == Spec => []WithinLimit
<1>1. IInv => WithinLimit
  BY DEF IInv
<1>2. QED
  BY InitIInv, StepIInv, <1>1, PTL DEF Spec

\* A response is reported by its status alone (post, http.rs:600-614).
THEOREM ReportedByStatus == Spec => []StatusDecides
<1>1. IInv => StatusDecides
  BY DEF IInv
<1>2. QED
  BY InitIInv, StepIInv, <1>1, PTL DEF Spec

\* The trace tells what was asked, and of a reply what it was and how it ended,
\* whatever the attempt came to (mod.rs:395-422).
THEOREM TraceIsTrue == Spec => []TraceTells
<1>1. IInv2 => TraceTells
  BY DEF IInv2
<1>2. QED
  BY InitIInv2, StepIInv2, <1>1, PTL DEF Spec

\* Whatever the servers answer and however the service fails, the key is in
\* nothing a failed attempt returns or records (api_error, connection, screened).
THEOREM KeyIsKept == Spec => []KeyNotShown
<1>1. IInv2 => KeyNotShown
  BY DEF IInv2
<1>2. QED
  BY InitIInv2, StepIInv2, <1>1, PTL DEF Spec
=============================================================================
