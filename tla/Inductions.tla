----------------------------- MODULE Inductions -----------------------------
(***************************************************************************)
(* Induction and recursion over the natural numbers, stated of sets and    *)
(* functions, so that a fact about a history or a recursive function can   *)
(* be proved by naming the set of numbers it holds of; and what follows    *)
(* from it of lists.                                                       *)
(***************************************************************************)
EXTENDS Lists, Integers, SequenceTheorems, WellFoundedInduction, TLAPS

\* A set that holds 0 and with each number its successor holds every number.
LEMMA NatSetInduction ==
  ASSUME NEW S, 0 \in S, \A n \in Nat : n \in S => n + 1 \in S
  PROVE  Nat \subseteq S
<1> DEFINE rest == Nat \ S
           less == OpToRel(<, Nat)
<1>1. SUFFICES ASSUME rest # {} PROVE FALSE
  OBVIOUS
<1>2. IsWellFoundedOn(less, Nat)
  BY NatLessThanWellFounded
<1>3. \A n \in Nat : <<n, n + 1>> \in less
  <2>1. \A n \in Nat : n + 1 \in Nat /\ n < n + 1
    BY SMT
  <2>2. less = {p \in Nat \X Nat : p[1] < p[2]}
    BY Zenon DEF OpToRel
  <2> HIDE DEF less
  <2>3. QED
    BY <2>1, <2>2
<1> HIDE DEF less
<1>4. PICK m \in rest : \A y \in rest : <<y, m>> \notin less
  BY <1>1, <1>2, WFMin
<1>5. m - 1 \in Nat /\ (m - 1) + 1 = m
  BY <1>4
<1>6. m - 1 \notin S
  BY <1>5
<1>7. <<m - 1, m>> \in less
  BY <1>3, <1>5
<1>8. QED
  BY <1>4, <1>5, <1>6, <1>7

\* f holds the values of a recursion for the numbers given: each step gives
\* the next value from the number of the step and the value before it.
Recursive(f, numbers, start, step) ==
  f[0] = start /\ \A i \in numbers \ {0} : f[i] = step[<<i, f[i - 1]>>]

\* The values of a recursion up to any number exist.
LEMMA RecursionUpTo ==
  ASSUME NEW S, NEW start \in S, NEW step \in [(Nat \X S) -> S], NEW n \in Nat
  PROVE  \E f \in [0..n -> S] : Recursive(f, 0..n, start, step)
<1> DEFINE reached == {k \in Nat : \E f \in [0..k -> S] : Recursive(f, 0..k, start, step)}
<1>1. 0 \in reached
  <2>1. [i \in 0..0 |-> start] \in [0..0 -> S]
    OBVIOUS
  <2>2. Recursive([i \in 0..0 |-> start], 0..0, start, step)
    BY DEF Recursive
  <2>3. QED
    BY <2>1, <2>2
<1>2. ASSUME NEW k \in Nat, k \in reached PROVE k + 1 \in reached
  <2>1. PICK f \in [0..k -> S] : Recursive(f, 0..k, start, step)
    BY <1>2
  <2>2. f[k] \in S /\ <<k + 1, f[k]>> \in Nat \X S
    BY <2>1
  <2>3. PICK next \in S : next = step[<<k + 1, f[k]>>]
    BY <2>2
  <2> DEFINE g == [i \in 0..(k + 1) |-> IF i = k + 1 THEN next ELSE f[i]]
  <2>4. g \in [0..(k + 1) -> S] /\ g[0] = start /\ g[k + 1] = next
    <3>1. \A i \in 0..(k + 1) : i # k + 1 => i \in 0..k
      OBVIOUS
    <3>2. f[0] = start
      BY <2>1 DEF Recursive
    <3>3. QED
      BY <2>1, <2>3, <3>1, <3>2
  <2>5. \A i \in 0..k : g[i] = f[i]
    OBVIOUS
  <2> HIDE DEF g
  <2>6. ASSUME NEW i \in 1..(k + 1) PROVE g[i] = step[<<i, g[i - 1]>>]
    <3>1. i - 1 \in 0..k /\ g[i - 1] = f[i - 1]
      BY <2>5
    <3>2. CASE i = k + 1
      <4>1. i - 1 = k
        BY <3>2
      <4>2. QED
        BY <2>3, <2>4, <3>1, <3>2, <4>1
    <3>3. CASE i # k + 1
      <4>1. i \in 1..k /\ i \in 0..k
        BY <3>3
      <4>2. QED
        BY <2>1, <2>5, <3>1, <4>1 DEF Recursive
    <3>4. QED
      BY <3>2, <3>3
  <2>7. Recursive(g, 0..(k + 1), start, step)
    BY <2>4, <2>6 DEF Recursive
  <2>8. k + 1 \in Nat
    OBVIOUS
  <2>9. QED
    BY <2>4, <2>7, <2>8
<1>3. reached \subseteq Nat
  OBVIOUS
<1> HIDE DEF reached
<1>4. n \in reached
  BY <1>1, <1>2, NatSetInduction
<1>5. QED
  BY <1>4 DEF reached

\* Two functions that hold the same recursion agree as far as both do.
LEMMA RecursionUnique ==
  ASSUME NEW f, NEW g, NEW m \in Nat, NEW n \in Nat, m <= n, NEW start, NEW step,
         Recursive(f, 0..m, start, step), Recursive(g, 0..n, start, step)
  PROVE  \A i \in 0..m : f[i] = g[i]
<1> DEFINE alike == {i \in Nat : i <= m => f[i] = g[i]}
<1>1. 0 \in alike
  BY DEF Recursive
<1>2. ASSUME NEW i \in Nat, i \in alike PROVE i + 1 \in alike
  <2>1. SUFFICES ASSUME i + 1 <= m PROVE f[i + 1] = g[i + 1]
    OBVIOUS
  <2>2. f[i] = g[i] /\ i + 1 \in (0..m) \ {0} /\ i + 1 \in (0..n) \ {0} /\ (i + 1) - 1 = i
    BY <1>2, <2>1
  <2>3. QED
    BY <2>2 DEF Recursive
<1> HIDE DEF alike
<1>3. Nat \subseteq alike
  BY <1>1, <1>2, NatSetInduction
<1>4. QED
  BY <1>3 DEF alike

\* A recursion over all numbers has its values.
LEMMA Recursion ==
  ASSUME NEW S, NEW start \in S, NEW step \in [(Nat \X S) -> S]
  PROVE  \E f \in [Nat -> S] : Recursive(f, Nat, start, step)
<1> DEFINE part == [k \in Nat |-> CHOOSE f \in [0..k -> S] : Recursive(f, 0..k, start, step)]
           whole == [k \in Nat |-> part[k][k]]
<1>1. ASSUME NEW k \in Nat PROVE part[k] \in [0..k -> S] /\ Recursive(part[k], 0..k, start, step)
  <2>1. \E f \in [0..k -> S] : Recursive(f, 0..k, start, step)
    BY RecursionUpTo
  <2>2. part[k] = CHOOSE f \in [0..k -> S] : Recursive(f, 0..k, start, step)
    OBVIOUS
  <2> HIDE DEF part
  <2>3. QED
    BY <2>1, <2>2
<1> HIDE DEF part
<1>2. ASSUME NEW k \in Nat, NEW i \in 0..k PROVE part[k][i] = whole[i]
  <2>1. i \in Nat /\ i <= k /\ i \in 0..i
    OBVIOUS
  <2>2. Recursive(part[i], 0..i, start, step) /\ Recursive(part[k], 0..k, start, step)
    BY <1>1, <2>1
  <2>3. \A j \in 0..i : part[i][j] = part[k][j]
    BY <2>1, <2>2, RecursionUnique
  <2>4. QED
    BY <2>1, <2>3
<1>3. whole \in [Nat -> S]
  <2>1. ASSUME NEW k \in Nat PROVE part[k][k] \in S
    <3>1. part[k] \in [0..k -> S] /\ k \in 0..k
      BY <1>1
    <3>2. QED
      BY <3>1
  <2>2. QED
    BY <2>1
<1>4. whole[0] = start
  <2>1. part[0][0] = start
    BY <1>1, 0 \in Nat DEF Recursive
  <2>2. QED
    BY <2>1
<1>5. ASSUME NEW i \in Nat \ {0} PROVE whole[i] = step[<<i, whole[i - 1]>>]
  <2>1. i \in Nat /\ i \in 1..i /\ i \in 0..i /\ i - 1 \in 0..i
    OBVIOUS
  <2>2. part[i][i] = step[<<i, part[i][i - 1]>>]
    BY <1>1, <2>1 DEF Recursive
  <2>3. part[i][i] = whole[i] /\ part[i][i - 1] = whole[i - 1]
    BY <1>2, <2>1
  <2> HIDE DEF whole
  <2>4. QED
    BY <2>2, <2>3
<1> HIDE DEF whole
<1>6. Recursive(whole, Nat, start, step)
  BY <1>4, <1>5 DEF Recursive
<1>7. QED
  BY <1>3, <1>6

\* Of some numbers up to a bound there is a greatest.
LEMMA Greatest ==
  ASSUME NEW n \in Nat, NEW S \in SUBSET (0..n), S # {}
  PROVE  \E m \in S : \A k \in S : k <= m
<1> DEFINE bounded == {i \in Nat : \A T \in SUBSET (0..i) : T # {} => \E m \in T : \A k \in T : k <= m}
<1>1. 0 \in bounded
  <2>1. ASSUME NEW T \in SUBSET (0..0), T # {} PROVE \E m \in T : \A k \in T : k <= m
    <3>1. PICK m \in T : TRUE
      BY <2>1
    <3>2. \A k \in T : k = 0
      OBVIOUS
    <3>3. QED
      BY <3>1, <3>2
  <2>2. QED
    BY <2>1
<1>2. ASSUME NEW i \in Nat, i \in bounded PROVE i + 1 \in bounded
  <2>1. ASSUME NEW T \in SUBSET (0..(i + 1)), T # {} PROVE \E m \in T : \A k \in T : k <= m
    <3>1. CASE i + 1 \in T
      <4>1. \A k \in T : k <= i + 1
        OBVIOUS
      <4>2. QED
        BY <3>1, <4>1
    <3>2. CASE i + 1 \notin T
      <4>1. T \in SUBSET (0..i)
        BY <3>2
      <4>2. QED
        BY <1>2, <2>1, <4>1
    <3>3. QED
      BY <3>1, <3>2
  <2>2. QED
    BY <2>1
<1> HIDE DEF bounded
<1>3. Nat \subseteq bounded
  BY <1>1, <1>2, NatSetInduction
<1>4. QED
  BY <1>3 DEF bounded

\* Of some numbers there is a least.
LEMMA Least ==
  ASSUME NEW S \in SUBSET Nat, S # {}
  PROVE  \E m \in S : \A k \in S : m <= k
<1> DEFINE less == OpToRel(<, Nat)
<1>1. IsWellFoundedOn(less, Nat)
  BY NatLessThanWellFounded
<1>2. \A m, n \in Nat : m < n => <<m, n>> \in less
  <2>1. less = {p \in Nat \X Nat : p[1] < p[2]}
    BY Zenon DEF OpToRel
  <2> HIDE DEF less
  <2>2. QED
    BY <2>1
<1> HIDE DEF less
<1>3. PICK m \in S : \A k \in S : <<k, m>> \notin less
  BY <1>1, WFMin
<1>4. \A k \in S : ~(k < m)
  BY <1>2, <1>3
<1>5. QED
  BY <1>3, <1>4

-----------------------------------------------------------------------------
(* Maps and lists. *)

LEMMA Sequences ==
  ASSUME NEW T, NEW n \in Nat, NEW seq \in [1..n -> T] PROVE seq \in Seq(T)
OBVIOUS

LEMMA Overs ==
  ASSUME NEW front, NEW back
  PROVE  /\ DOMAIN Over(front, back) = DOMAIN front \cup DOMAIN back
         /\ \A n \in DOMAIN front : Over(front, back)[n] = front[n]
         /\ \A n \in DOMAIN back \ DOMAIN front : Over(front, back)[n] = back[n]
BY DEF Over

LEMMA SiftUnfolds ==
  ASSUME NEW S, NEW seq \in Seq(S), NEW kept
  PROVE  \E f \in [0..Len(seq) -> Seq(S)] :
           /\ Sift(seq, kept) = f[Len(seq)] /\ f[0] = <<>>
           /\ \A i \in 1..Len(seq) : f[i] = IF i \in kept THEN Append(f[i - 1], seq[i]) ELSE f[i - 1]
<1> DEFINE length == Len(seq)
           step == [p \in Nat \X Seq(S) |->
                      IF p[1] \in kept \cap (1..length)
                        THEN Append(p[2], seq[p[1]]) ELSE p[2]]
           Is(f) == f = [i \in 0..length |->
                           IF i = 0 THEN <<>>
                           ELSE IF i \in kept THEN Append(f[i - 1], seq[i]) ELSE f[i - 1]]
           upto == CHOOSE f : Is(f)
<1>1. length \in Nat /\ DOMAIN seq = 1..length /\ \A i \in 1..length : seq[i] \in S
  BY LenProperties, ElementOfSeq
<1>2. Sift(seq, kept) = upto[length]
  BY DEF Sift
<1>3. <<>> \in Seq(S)
  OBVIOUS
<1> HIDE DEF length
<1>4. step \in [(Nat \X Seq(S)) -> Seq(S)]
  <2>1. ASSUME NEW i \in Nat, NEW t \in Seq(S) 
        PROVE (IF i \in kept \cap (1..length) THEN Append(t, seq[i]) ELSE t) \in Seq(S)
    BY <1>1, AppendProperties
  <2>2. QED
    BY <2>1
<1>5. PICK g \in [0..length -> Seq(S)] : Recursive(g, 0..length, <<>>, step)
  <2> HIDE DEF step
  <2>1. QED
    BY <1>1, <1>3, <1>4, RecursionUpTo
<1>6. /\ g[0] = <<>>
      /\ \A i \in 1..length : g[i] = IF i \in kept THEN Append(g[i - 1], seq[i]) ELSE g[i - 1]
  <2>1. \A i \in 1..length : i \in (0..length) \ {0} /\ i \in Nat /\ i - 1 \in 0..length
    BY <1>1
  <2>2. \A i \in 1..length : g[i - 1] \in Seq(S)
    BY <1>5, <2>1
  <2>3. \A i \in 1..length : g[i] = step[<<i, g[i - 1]>>]
    BY <1>5, <2>1, Zenon DEF Recursive
  <2>4. g[0] = <<>>
    BY <1>5 DEF Recursive
  <2>5. \A i \in 1..length : <<i, g[i - 1]>> \in Nat \X Seq(S)
    BY <2>1, <2>2
  <2>6. QED
    BY <2>3, <2>4, <2>5
<1>7. Is(g)
  <2>1. \A i \in 0..length : i # 0 => i \in 1..length
    BY <1>1
  <2>2. g = [i \in 0..length |-> g[i]]
    BY <1>5
  <2>3. QED
    BY <1>6, <2>1, <2>2
<1> HIDE DEF step
<1>8. Is(upto)
  <2> HIDE DEF Is
  <2>1. QED
    BY <1>7
<1>9. /\ upto[0] = <<>>
      /\ \A i \in 1..length : upto[i] = IF i \in kept THEN Append(upto[i - 1], seq[i]) ELSE upto[i - 1]
  <2> HIDE DEF upto
  <2>1. \A i \in 0..length : upto[i] =
            IF i = 0 THEN <<>> ELSE IF i \in kept THEN Append(upto[i - 1], seq[i]) ELSE upto[i - 1]
    BY <1>8
  <2>2. 0 \in 0..length /\ \A i \in 1..length : i \in 0..length /\ i # 0
    BY <1>1
  <2>3. QED
    BY <2>1, <2>2
<1> HIDE DEF upto, Is
<1> DEFINE alike == {i \in Nat : i <= length => upto[i] = g[i]}
<1>10. 0 \in alike
  BY <1>6, <1>9
<1>11. ASSUME NEW i \in Nat, i \in alike PROVE i + 1 \in alike
  <2>1. SUFFICES ASSUME i + 1 <= length PROVE upto[i + 1] = g[i + 1]
    OBVIOUS
  <2>2. i + 1 \in 1..length /\ (i + 1) - 1 = i /\ upto[i] = g[i]
    BY <1>1, <1>11, <2>1
  <2>3. QED
    BY <1>6, <1>9, <2>2
<1> HIDE DEF alike
<1>12. length \in alike
  BY <1>1, <1>10, <1>11, NatSetInduction
<1>13. Sift(seq, kept) = g[length]
  BY <1>1, <1>2, <1>12 DEF alike
<1>14. QED
  BY <1>5, <1>6, <1>13 DEF length

\* What is sifted are the elements that are kept, each once and in their order.
Sifted(seq, kept, out) ==
  \E at \in [DOMAIN out -> kept] :
    /\ \A k \in DOMAIN out : out[k] = seq[at[k]]
    /\ \A j, k \in DOMAIN out : j < k => at[j] < at[k]
    /\ \A i \in kept : \E k \in DOMAIN out : at[k] = i

LEMMA Sifts ==
  ASSUME NEW S, NEW seq \in Seq(S), NEW kept, kept \subseteq DOMAIN seq
  PROVE  Sift(seq, kept) \in Seq(S) /\ Sifted(seq, kept, Sift(seq, kept))
<1> DEFINE length == Len(seq)
<1>1. length \in Nat /\ DOMAIN seq = 1..length /\ \A i \in 1..length : seq[i] \in S
  BY LenProperties, ElementOfSeq
<1>3. <<>> \in Seq(S)
  OBVIOUS
<1>5. PICK upto \in [0..Len(seq) -> Seq(S)] :
        /\ Sift(seq, kept) = upto[Len(seq)] /\ upto[0] = <<>>
        /\ \A i \in 1..Len(seq) :
             upto[i] = IF i \in kept THEN Append(upto[i - 1], seq[i]) ELSE upto[i - 1]
  BY SiftUnfolds
<1>2. Sift(seq, kept) = upto[length]
  BY <1>5
<1>9. /\ upto[0] = <<>>
      /\ \A i \in 1..length : upto[i] = IF i \in kept THEN Append(upto[i - 1], seq[i]) ELSE upto[i - 1]
  BY <1>5
<1> HIDE DEF length
<1> DEFINE Kept(i, t) ==
      /\ t \in Seq(S)
      /\ \E at \in [DOMAIN t -> {k \in kept : k <= i}] :
           /\ \A k \in DOMAIN t : t[k] = seq[at[k]]
           /\ \A j, k \in DOMAIN t : j < k => at[j] < at[k]
           /\ \A l \in kept : l <= i => \E k \in DOMAIN t : at[k] = l
      good == {i \in Nat : i <= length => Kept(i, upto[i])}
<1>10. 0 \in good
  <2>1. \A l \in kept : ~(l <= 0)
    BY <1>1
  <2>2. DOMAIN <<>> = {}
    OBVIOUS
  <2>3. [k \in {} |-> 0] \in [DOMAIN <<>> -> {k \in kept : k <= 0}]
    BY <2>2
  <2>4. Kept(0, <<>>)
    BY <1>3, <2>1, <2>2, <2>3
  <2> HIDE DEF Kept
  <2>5. QED
    BY <1>9, <2>4
<1>11. ASSUME NEW i \in Nat, i \in good PROVE i + 1 \in good
  <2>1. SUFFICES ASSUME i + 1 <= length PROVE Kept(i + 1, upto[i + 1])
    BY SMTT(60)
  <2> DEFINE t == upto[i]
  <2>2. i + 1 \in 1..length /\ (i + 1) - 1 = i /\ Kept(i, t)
    <3> HIDE DEF Kept
    <3>1. i <= length /\ i + 1 \in 1..length /\ (i + 1) - 1 = i
      BY <1>1, <2>1
    <3>2. Kept(i, upto[i])
      BY <1>11, <3>1
    <3>3. QED
      BY <3>1, <3>2
  <2>3. upto[i + 1] = IF i + 1 \in kept THEN Append(t, seq[i + 1]) ELSE t
    BY <1>9, <2>2
  <2> HIDE DEF t
  <2>4. t \in Seq(S)
    BY <2>2
  <2>5. PICK at \in [DOMAIN t -> {k \in kept : k <= i}] :
           /\ \A k \in DOMAIN t : t[k] = seq[at[k]]
           /\ \A j, k \in DOMAIN t : j < k => at[j] < at[k]
           /\ \A l \in kept : l <= i => \E k \in DOMAIN t : at[k] = l
    BY <2>2
  <2>6. kept \subseteq Nat
    BY <1>1
  <2>7. CASE i + 1 \notin kept
    <3>1. {k \in kept : k <= i + 1} = {k \in kept : k <= i}
      BY <2>6, <2>7
    <3>2. \A l \in kept : l <= i + 1 => l <= i
      BY <2>6, <2>7
    <3>3. upto[i + 1] = t
      BY <2>3, <2>7
    <3>4. Kept(i + 1, t)
      BY <2>4, <2>5, <3>1, <3>2
    <3>5. QED
      BY <3>3, <3>4, ZenonT(60)
  <2>8. CASE i + 1 \in kept
    <3> DEFINE u == Append(t, seq[i + 1])
    <3>1. /\ u \in Seq(S) /\ Len(t) \in Nat /\ DOMAIN t = 1..Len(t)
          /\ DOMAIN u = 1..(Len(t) + 1)
          /\ \A k \in 1..Len(t) : u[k] = t[k]
          /\ u[Len(t) + 1] = seq[i + 1]
      <4>1. seq[i + 1] \in S
        BY <1>1, <2>2
      <4>2. u \in Seq(S) /\ Len(u) = Len(t) + 1
            /\ (\A k \in 1..Len(t) : u[k] = t[k]) /\ u[Len(t) + 1] = seq[i + 1]
        BY <2>4, <4>1, AppendProperties
      <4> HIDE DEF u
      <4>3. QED
        BY <2>4, <4>2, LenProperties
    <3>2. upto[i + 1] = u
      BY <2>3, <2>8
    <3> HIDE DEF u
    <3> DEFINE new == [k \in 1..(Len(t) + 1) |-> IF k = Len(t) + 1 THEN i + 1 ELSE at[k]]
    <3>3. \A k \in 1..Len(t) : at[k] \in kept /\ at[k] <= i /\ k # Len(t) + 1 /\ k \in 1..(Len(t) + 1)
      BY <2>5, <3>1, SMTT(60)
    <3>4. \A k \in 1..(Len(t) + 1) : k # Len(t) + 1 => k \in 1..Len(t)
      BY <3>1
    <3>5. new[Len(t) + 1] = i + 1 /\ \A k \in 1..Len(t) : new[k] = at[k]
      BY <3>1, <3>3
    <3>6. new \in [DOMAIN u -> {k \in kept : k <= i + 1}]
      <4>1. \A k \in 1..(Len(t) + 1) : (IF k = Len(t) + 1 THEN i + 1 ELSE at[k]) \in {l \in kept : l <= i + 1}
        BY <2>6, <2>8, <3>3, <3>4
      <4>2. QED
        BY <3>1, <4>1
    <3> HIDE DEF new
    <3>7. \A k \in DOMAIN u : u[k] = seq[new[k]]
      BY <2>5, <3>1, <3>4, <3>5
    <3>8. ASSUME NEW j \in DOMAIN u, NEW k \in DOMAIN u, j < k PROVE new[j] < new[k]
      <4>1. j \in 1..Len(t)
        BY <3>1, <3>8
      <4>2. CASE k = Len(t) + 1
        BY <2>6, <3>3, <3>5, <4>1, <4>2
      <4>3. CASE k # Len(t) + 1
        <5>1. k \in 1..Len(t)
          BY <3>1, <3>4, <4>3
        <5>2. QED
          BY <2>5, <3>1, <3>5, <3>8, <4>1, <5>1
      <4>4. QED
        BY <4>2, <4>3
    <3>9. ASSUME NEW l \in kept, l <= i + 1 PROVE \E k \in DOMAIN u : new[k] = l
      <4>1. CASE l = i + 1
        BY <3>1, <3>5, <4>1, SMTT(60)
      <4>2. CASE l # i + 1
        <5>1. l <= i
          BY <2>6, <3>9, <4>2
        <5>2. PICK k \in DOMAIN t : at[k] = l
          BY <2>5, <5>1
        <5>3. QED
          BY <3>1, <3>3, <3>5, <5>2
      <4>3. QED
        BY <4>1, <4>2
    <3>10. Kept(i + 1, u)
      BY <3>1, <3>6, <3>7, <3>8, <3>9
    <3>11. QED
      BY <3>2, <3>10, ZenonT(60)
  <2>9. QED
    BY <2>7, <2>8
<1> HIDE DEF good
<1>12. length \in good
  BY <1>1, <1>10, <1>11, NatSetInduction
<1>13. Kept(length, upto[length])
  <2> HIDE DEF Kept
  <2>1. QED
    BY <1>1, <1>12 DEF good
<1>14. {k \in kept : k <= length} = kept /\ \A l \in kept : l <= length
  BY <1>1
<1> HIDE DEF length
<1>15. Sifted(seq, kept, upto[length]) /\ upto[length] \in Seq(S)
  BY <1>13, <1>14 DEF Sifted
<1>16. QED
  BY <1>2, <1>15

LEMMA SiftsIn ==
  ASSUME NEW S, NEW seq \in Seq(S), NEW kept
  PROVE  Sift(seq, kept) \in Seq(S)
<1>1. Len(seq) \in Nat
  BY LenProperties
<1>2. QED
  BY <1>1, SiftUnfolds

\* A filter that keeps all leaves the sequence, one that keeps none nothing.
LEMMA SiftsAll ==
  ASSUME NEW S, NEW seq \in Seq(S), NEW kept, DOMAIN seq \subseteq kept
  PROVE  Sift(seq, kept) = seq
<1>1. Len(seq) \in Nat /\ DOMAIN seq = 1..Len(seq) /\ \A i \in 1..Len(seq) : seq[i] \in S
  BY LenProperties, ElementOfSeq
<1>2. PICK upto \in [0..Len(seq) -> Seq(S)] :
        /\ Sift(seq, kept) = upto[Len(seq)] /\ upto[0] = <<>>
        /\ \A i \in 1..Len(seq) :
             upto[i] = IF i \in kept THEN Append(upto[i - 1], seq[i]) ELSE upto[i - 1]
  BY SiftUnfolds
<1> DEFINE whole(i) == Len(upto[i]) = i /\ \A k \in 1..i : upto[i][k] = seq[k]
           good == {i \in Nat : i <= Len(seq) => whole(i)}
<1>3. 0 \in good
  BY <1>2
<1>4. ASSUME NEW i \in Nat, i \in good PROVE i + 1 \in good
  <2>1. SUFFICES ASSUME i + 1 <= Len(seq) PROVE whole(i + 1)
    OBVIOUS
  <2>2. i + 1 \in 1..Len(seq) /\ (i + 1) - 1 = i /\ i \in 0..Len(seq) /\ whole(i)
    BY <1>1, <1>4, <2>1
  <2> DEFINE t == upto[i]
  <2>3. upto[i + 1] = Append(t, seq[i + 1])
    BY <1>1, <1>2, <2>2
  <2>4. t \in Seq(S) /\ Len(t) = i /\ \A k \in 1..i : t[k] = seq[k]
    BY <1>2, <2>2
  <2> HIDE DEF t
  <2>5. seq[i + 1] \in S
    BY <1>1, <2>2
  <2>6. /\ Len(Append(t, seq[i + 1])) = i + 1
        /\ \A k \in 1..i : Append(t, seq[i + 1])[k] = t[k]
        /\ Append(t, seq[i + 1])[i + 1] = seq[i + 1]
    BY <2>4, <2>5, AppendProperties
  <2>7. \A k \in 1..(i + 1) : k = i + 1 \/ k \in 1..i
    OBVIOUS
  <2>8. QED
    BY <2>3, <2>4, <2>6, <2>7
<1> HIDE DEF good
<1>5. Len(seq) \in good
  BY <1>1, <1>3, <1>4, NatSetInduction
<1>6. whole(Len(seq))
  BY <1>1, <1>5 DEF good
<1>7. upto[Len(seq)] \in Seq(S)
  BY <1>1, <1>2
<1>8. upto[Len(seq)] = seq
  BY <1>6, <1>7, SeqEqual
<1>9. QED
  BY <1>2, <1>8

LEMMA SiftsNone ==
  ASSUME NEW S, NEW seq \in Seq(S), NEW kept, kept \cap DOMAIN seq = {}
  PROVE  Sift(seq, kept) = <<>>
<1>1. Len(seq) \in Nat /\ DOMAIN seq = 1..Len(seq)
  BY LenProperties
<1>2. PICK upto \in [0..Len(seq) -> Seq(S)] :
        /\ Sift(seq, kept) = upto[Len(seq)] /\ upto[0] = <<>>
        /\ \A i \in 1..Len(seq) :
             upto[i] = IF i \in kept THEN Append(upto[i - 1], seq[i]) ELSE upto[i - 1]
  BY SiftUnfolds
<1> DEFINE good == {i \in Nat : i <= Len(seq) => upto[i] = <<>>}
<1>3. 0 \in good
  BY <1>2
<1>4. ASSUME NEW i \in Nat, i \in good PROVE i + 1 \in good
  <2>1. SUFFICES ASSUME i + 1 <= Len(seq) PROVE upto[i + 1] = <<>>
    OBVIOUS
  <2>2. i + 1 \in 1..Len(seq) /\ (i + 1) - 1 = i /\ upto[i] = <<>>
    BY <1>1, <1>4, <2>1
  <2>3. QED
    BY <1>1, <1>2, <2>2
<1> HIDE DEF good
<1>5. Len(seq) \in good
  BY <1>1, <1>3, <1>4, NatSetInduction
<1>6. QED
  BY <1>1, <1>2, <1>5 DEF good

\* Only the places of the list matter.
LEMMA SiftAlike ==
  ASSUME NEW S, NEW seq \in Seq(S), NEW kept, NEW same,
         \A i \in 1..Len(seq) : i \in kept <=> i \in same
  PROVE  Sift(seq, same) = Sift(seq, kept)
<1> DEFINE length == Len(seq)
<1>1. length \in Nat
  BY LenProperties
<1>2. PICK f \in [0..Len(seq) -> Seq(S)] :
        /\ Sift(seq, kept) = f[Len(seq)] /\ f[0] = <<>>
        /\ \A i \in 1..Len(seq) : f[i] = IF i \in kept THEN Append(f[i - 1], seq[i]) ELSE f[i - 1]
  BY SiftUnfolds
<1>3. PICK g \in [0..Len(seq) -> Seq(S)] :
        /\ Sift(seq, same) = g[Len(seq)] /\ g[0] = <<>>
        /\ \A i \in 1..Len(seq) : g[i] = IF i \in same THEN Append(g[i - 1], seq[i]) ELSE g[i - 1]
  BY SiftUnfolds
<1> DEFINE alike == {i \in Nat : i <= length => f[i] = g[i]}
<1>4. 0 \in alike
  BY <1>2, <1>3
<1>5. ASSUME NEW i \in Nat, i \in alike PROVE i + 1 \in alike
  <2>1. SUFFICES ASSUME i + 1 <= length PROVE f[i + 1] = g[i + 1]
    OBVIOUS
  <2>2. i + 1 \in 1..length /\ (i + 1) - 1 = i /\ f[i] = g[i]
    BY <1>1, <1>5, <2>1
  <2>3. QED
    BY <1>2, <1>3, <2>2
<1> HIDE DEF alike
<1>6. length \in alike
  BY <1>1, <1>4, <1>5, NatSetInduction
<1>7. QED
  BY <1>1, <1>2, <1>3, <1>6 DEF alike

\* A set of lists that holds the empty one, and with each list the longer by
\* one element, holds every list.
LEMMA ListInduction ==
  ASSUME NEW S, NEW G, <<>> \in G, \A s \in Seq(S), x \in S : s \in G => Append(s, x) \in G
  PROVE  Seq(S) \subseteq G
<1> DEFINE good == {n \in Nat : \A s \in Seq(S) : Len(s) = n => s \in G}
<1>1. 0 \in good
  <2>1. \A s \in Seq(S) : Len(s) = 0 => s = <<>>
    BY EmptySeq
  <2>2. QED
    BY <2>1
<1>2. ASSUME NEW n \in Nat, n \in good PROVE n + 1 \in good
  <2>1. ASSUME NEW s \in Seq(S), Len(s) = n + 1 PROVE s \in G
    <3>1. s # <<>>
      BY <2>1, EmptySeq
    <3>2. PICK t \in Seq(S), x \in S : s = Append(t, x)
      BY <3>1, SequenceEmptyOrAppend
    <3>3. Len(s) = Len(t) + 1 /\ Len(t) \in Nat
      BY <3>2, AppendProperties, LenProperties
    <3>4. QED
      BY <1>2, <2>1, <3>2, <3>3
  <2>2. QED
    BY <2>1
<1> HIDE DEF good
<1>3. Nat \subseteq good
  BY <1>1, <1>2, NatSetInduction
<1>4. QED
  BY <1>3, LenProperties DEF good

SiftedBy(f, seq, kept) ==
  /\ Sift(seq, kept) = f[Len(seq)] /\ f[0] = <<>>
  /\ \A i \in 1..Len(seq) : f[i] = IF i \in kept THEN Append(f[i - 1], seq[i]) ELSE f[i - 1]

LEMMA SiftsBy == \A S, kept : \A seq \in Seq(S) : \E f : SiftedBy(f, seq, kept)
BY SiftUnfolds DEF SiftedBy

\* Another element is sifted by its place.
LEMMA SiftLonger ==
  ASSUME NEW S, NEW seq \in Seq(S), NEW longer \in Seq(S), NEW kept,
         Len(longer) = Len(seq) + 1, \A i \in 1..Len(seq) : longer[i] = seq[i]
  PROVE  Sift(longer, kept) = IF Len(seq) + 1 \in kept
                                THEN Append(Sift(seq, kept), longer[Len(seq) + 1])
                                ELSE Sift(seq, kept)
<1> DEFINE length == Len(seq)
<1>1. length \in Nat
  BY LenProperties
<1>2. PICK f : SiftedBy(f, seq, kept)
  BY SiftsBy, Zenon
<1>3. PICK g : SiftedBy(g, longer, kept)
  BY SiftsBy, Zenon
<1> DEFINE alike == {i \in Nat : i <= length => f[i] = g[i]}
<1>4. 0 \in alike
  BY <1>2, <1>3 DEF SiftedBy
<1>5. ASSUME NEW i \in Nat, i \in alike PROVE i + 1 \in alike
  <2>1. SUFFICES ASSUME i + 1 <= length PROVE f[i + 1] = g[i + 1]
    OBVIOUS
  <2>2. /\ i + 1 \in 1..length /\ i + 1 \in 1..Len(longer) /\ (i + 1) - 1 = i
        /\ f[i] = g[i] /\ longer[i + 1] = seq[i + 1]
    BY <1>1, <1>5, <2>1
  <2>3. QED
    BY <1>2, <1>3, <2>2 DEF SiftedBy
<1> HIDE DEF alike
<1>6. length \in alike
  BY <1>1, <1>4, <1>5, NatSetInduction
<1>7. f[length] = g[length]
  BY <1>1, <1>6 DEF alike
<1>8. length + 1 \in 1..Len(longer) /\ (length + 1) - 1 = length
  BY <1>1
<1>9. g[length + 1] =
        IF length + 1 \in kept THEN Append(g[length], longer[length + 1]) ELSE g[length]
  BY <1>1, <1>3, <1>8 DEF SiftedBy
<1>10. QED
  BY <1>1, <1>2, <1>3, <1>7, <1>9 DEF SiftedBy

LEMMA SiftAppend ==
  ASSUME NEW S, NEW seq \in Seq(S), NEW x \in S, NEW kept
  PROVE  Sift(Append(seq, x), kept) =
           IF Len(seq) + 1 \in kept THEN Append(Sift(seq, kept), x) ELSE Sift(seq, kept)
<1> DEFINE longer == Append(seq, x)
<1>1. /\ longer \in Seq(S) /\ Len(longer) = Len(seq) + 1
      /\ longer[Len(seq) + 1] = x /\ \A i \in 1..Len(seq) : longer[i] = seq[i]
  BY AppendProperties
<1> HIDE DEF longer
<1>2. QED
  BY <1>1, SiftLonger DEF longer

\* The elements of a list that are in a set.
Having(s, P) == Sift(s, {i \in DOMAIN s : s[i] \in P})

LEMMA HavingUnfolds ==
  ASSUME NEW S, NEW P
  PROVE  /\ Having(<<>>, P) = <<>>
         /\ \A s \in Seq(S), x \in S :
              Having(Append(s, x), P) = IF x \in P THEN Append(Having(s, P), x) ELSE Having(s, P)
         /\ \A s \in Seq(S) : Having(s, P) \in Seq(S)
<1>1. Having(<<>>, P) = <<>>
  <2>1. <<>> \in Seq(S) /\ {i \in DOMAIN <<>> : <<>>[i] \in P} \cap DOMAIN <<>> = {}
    OBVIOUS
  <2>2. QED
    BY <2>1, SiftsNone DEF Having
<1>2. ASSUME NEW s \in Seq(S), NEW x \in S
      PROVE  Having(Append(s, x), P) = IF x \in P THEN Append(Having(s, P), x) ELSE Having(s, P)
  <2> DEFINE longer == Append(s, x)
             kept == {i \in DOMAIN s : s[i] \in P}
             new == {i \in DOMAIN longer : longer[i] \in P}
  <2>1. /\ Len(s) \in Nat /\ DOMAIN s = 1..Len(s) /\ DOMAIN longer = 1..(Len(s) + 1)
        /\ longer[Len(s) + 1] = x /\ \A i \in 1..Len(s) : longer[i] = s[i]
    BY AppendProperties, LenProperties
  <2>2. \A i \in 1..Len(s) : i \in kept <=> i \in new
    BY <2>1
  <2>3. Len(s) + 1 \in new <=> x \in P
    BY <2>1
  <2>4. Having(s, P) = Sift(s, kept) /\ Having(longer, P) = Sift(longer, new)
    BY DEF Having
  <2> HIDE DEF kept, new
  <2>5. Sift(s, new) = Sift(s, kept)
    BY <2>1, <2>2, SiftAlike
  <2>6. Sift(longer, new) = IF Len(s) + 1 \in new THEN Append(Sift(s, new), x) ELSE Sift(s, new)
    BY SiftAppend
  <2> HIDE DEF longer
  <2>7. QED
    BY <2>3, <2>4, <2>5, <2>6 DEF longer
<1>3. ASSUME NEW s \in Seq(S) PROVE Having(s, P) \in Seq(S)
  <2>1. {i \in DOMAIN s : s[i] \in P} \subseteq DOMAIN s
    OBVIOUS
  <2>2. QED
    BY <2>1, Sifts DEF Having
<1>4. QED
  BY <1>1, <1>2, <1>3

\* An element put at the end of the second of two lists.
LEMMA AppendOfConcat ==
  ASSUME NEW S, NEW x \in S
  PROVE  \A s, t \in Seq(S) : s \o Append(t, x) = Append(s \o t, x)
<1>1. SUFFICES ASSUME NEW s \in Seq(S), NEW t \in Seq(S) PROVE s \o Append(t, x) = Append(s \o t, x)
  OBVIOUS
<1>2. <<x>> \in Seq(S) /\ s \o t \in Seq(S)
  BY ConcatProperties
<1>3. Append(t, x) = t \o <<x>> /\ Append(s \o t, x) = (s \o t) \o <<x>>
  BY <1>2, AppendIsConcat
<1>4. QED
  BY <1>2, <1>3, ConcatAssociative

\* The first elements of a list, and one more.
LEMMA SubSeqAppend ==
  ASSUME NEW S, NEW seq \in Seq(S), NEW n \in Nat, n + 1 \in 1..Len(seq)
  PROVE  /\ SubSeq(seq, 1, n) \in Seq(S)
         /\ SubSeq(seq, 1, n + 1) = Append(SubSeq(seq, 1, n), seq[n + 1])
         /\ Len(SubSeq(seq, 1, n)) = n /\ \A i \in 1..n : SubSeq(seq, 1, n)[i] = seq[i]
<1> DEFINE s == SubSeq(seq, 1, n)
           m == n + 1
<1>1. \A i \in 1..n : seq[i] \in S
  <2>1. Len(seq) \in Nat
    BY LenProperties
  <2>2. \A i \in 1..n : i \in 1..Len(seq)
    BY <2>1
  <2>3. QED
    BY <2>2, ElementOfSeq
<1>2. s \in Seq(S) /\ Len(s) = (IF 1 <= n THEN n - 1 + 1 ELSE 0)
      /\ \A i \in 1..(n - 1 + 1) : s[i] = seq[1 + i - 1]
  BY <1>1, SubSeqProperties
<1>3. Len(s) = n /\ \A i \in 1..n : s[i] = seq[i]
  BY <1>2
<1>4. m \in 1..Len(seq) /\ 1 \in 1..Len(seq) /\ m \in 1..m /\ m - 1 = n /\ Len(seq) \in Nat
  BY LenProperties
<1>5. SubSeq(seq, 1, m) = SubSeq(seq, 1, m - 1) \o <<seq[m]>>
  BY <1>4, SubSeqRecursiveSecond
<1>6. Append(s, seq[m]) = s \o <<seq[m]>>
  <2>1. seq[m] \in S
    BY <1>4, ElementOfSeq
  <2> HIDE DEF s
  <2>2. QED
    BY <1>2, <2>1, AppendIsConcat
<1>7. QED
  BY <1>2, <1>3, <1>4, <1>5, <1>6

\* Of a list's elements in one set, those in another; and of two lists in one.
LEMMA HavingAgain ==
  ASSUME NEW S, NEW P, NEW Q, NEW s \in Seq(S)
  PROVE  Having(Having(s, P), Q) = Having(s, P \cap Q)
<1> DEFINE good == {t \in Seq(S) : Having(Having(t, P), Q) = Having(t, P \cap Q)}
<1>1. \A R : /\ Having(<<>>, R) = <<>>
             /\ \A t \in Seq(S), x \in S :
                  Having(Append(t, x), R) = IF x \in R THEN Append(Having(t, R), x) ELSE Having(t, R)
             /\ \A t \in Seq(S) : Having(t, R) \in Seq(S)
  BY HavingUnfolds
<1>2. <<>> \in good
  BY <1>1, <<>> \in Seq(S)
<1>3. ASSUME NEW t \in Seq(S), NEW x \in S, t \in good PROVE Append(t, x) \in good
  <2> DEFINE h == Having(t, P)
  <2>1. h \in Seq(S) /\ Having(h, Q) = Having(t, P \cap Q)
    BY <1>1, <1>3
  <2>2. Having(Append(t, x), P) = IF x \in P THEN Append(h, x) ELSE h
    BY <1>1
  <2>3. Having(Append(t, x), P \cap Q) =
          IF x \in P /\ x \in Q THEN Append(Having(t, P \cap Q), x) ELSE Having(t, P \cap Q)
    BY <1>1
  <2> HIDE DEF h
  <2>4. Having(Append(h, x), Q) = IF x \in Q THEN Append(Having(h, Q), x) ELSE Having(h, Q)
    BY <1>1, <2>1
  <2>5. Append(t, x) \in Seq(S)
    BY AppendProperties
  <2>6. Having(Having(Append(t, x), P), Q) = Having(Append(t, x), P \cap Q)
    <3>1. CASE x \in P
      <4>1. Having(Append(t, x), P) = Append(h, x)
        BY <2>2, <3>1
      <4>2. QED
        BY <2>1, <2>3, <2>4, <3>1, <4>1, Zenon
    <3>2. CASE x \notin P
      BY <2>1, <2>2, <2>3, <3>2
    <3>3. QED
      BY <3>1, <3>2
  <2>7. QED
    BY <2>5, <2>6
<1> HIDE DEF good
<1>4. Seq(S) \subseteq good
  BY <1>2, <1>3, ListInduction
<1>5. QED
  BY <1>4 DEF good

LEMMA HavingBoth ==
  ASSUME NEW S, NEW P, NEW s \in Seq(S), NEW t \in Seq(S)
  PROVE  Having(s \o t, P) = Having(s, P) \o Having(t, P)
<1> DEFINE good == {u \in Seq(S) : Having(s \o u, P) = Having(s, P) \o Having(u, P)}
<1>1. /\ Having(<<>>, P) = <<>>
      /\ \A u \in Seq(S), x \in S :
           Having(Append(u, x), P) = IF x \in P THEN Append(Having(u, P), x) ELSE Having(u, P)
      /\ \A u \in Seq(S) : Having(u, P) \in Seq(S)
  BY HavingUnfolds
<1>2. <<>> \in good
  <2>1. s \o <<>> = s /\ Having(s, P) \o <<>> = Having(s, P) /\ <<>> \in Seq(S)
    BY <1>1, ConcatEmptySeq
  <2>2. QED
    BY <1>1, <2>1
<1>3. ASSUME NEW u \in Seq(S), NEW x \in S, u \in good PROVE Append(u, x) \in good
  <2> DEFINE h == Having(s, P)
             k == Having(u, P)
  <2>0. \A v, w \in Seq(S) : v \o Append(w, x) = Append(v \o w, x)
    BY AppendOfConcat
  <2>1. h \in Seq(S) /\ k \in Seq(S) /\ s \o u \in Seq(S) /\ Having(s \o u, P) = h \o k
    BY <1>1, <1>3, ConcatProperties
  <2>2. Having(Append(u, x), P) = IF x \in P THEN Append(k, x) ELSE k
    BY <1>1
  <2>3. Having(Append(s \o u, x), P) = IF x \in P THEN Append(h \o k, x) ELSE h \o k
    BY <1>1, <2>1
  <2>5. Append(u, x) \in Seq(S)
    BY AppendProperties
  <2> HIDE DEF h, k
  <2>6. s \o Append(u, x) = Append(s \o u, x) /\ h \o Append(k, x) = Append(h \o k, x)
    BY <2>0, <2>1
  <2>7. Having(s \o Append(u, x), P) = h \o Having(Append(u, x), P)
    BY <2>2, <2>3, <2>6
  <2>8. QED
    BY <2>5, <2>7 DEF h
<1> HIDE DEF good
<1>4. Seq(S) \subseteq good
  BY <1>2, <1>3, ListInduction
<1>5. QED
  BY <1>4 DEF good

\* No check of a list fails if none of the longer list does.
LEMMA NoneFails ==
  ASSUME NEW Check, NEW s \in Seq(Check), NEW t \in Seq(Check)
  PROVE  s \o t \in Seq(Check) /\ (Failing(s \o t) = {} => Failing(s) = {} /\ Failing(t) = {})
<1> DEFINE u == s \o t
<1>1. /\ u \in Seq(Check) /\ Len(s) \in Nat /\ Len(t) \in Nat
      /\ DOMAIN s = 1..Len(s) /\ DOMAIN t = 1..Len(t) /\ DOMAIN u = 1..(Len(s) + Len(t))
      /\ \A i \in 1..(Len(s) + Len(t)) : u[i] = IF i <= Len(s) THEN s[i] ELSE t[i - Len(s)]
  <2>1. u \in Seq(Check) /\ Len(u) = Len(s) + Len(t)
    BY ConcatProperties
  <2>2. QED
    BY <2>1, ConcatProperties, LenProperties
<1> HIDE DEF u
<1>2. \A i \in DOMAIN s : i \in DOMAIN u /\ u[i] = s[i]
  BY <1>1
<1>3. ASSUME NEW i \in DOMAIN t PROVE i + Len(s) \in DOMAIN u /\ u[i + Len(s)] = t[i]
  <2>1. i + Len(s) \in 1..(Len(s) + Len(t)) /\ ~(i + Len(s) <= Len(s)) /\ (i + Len(s)) - Len(s) = i
    BY <1>1
  <2>2. QED
    BY <1>1, <2>1
<1>4. ASSUME Failing(u) = {} PROVE Failing(s) = {} /\ Failing(t) = {}
  <2>1. \A i \in DOMAIN u : ~u[i][1]
    BY <1>4 DEF Failing
  <2>2. (\A i \in DOMAIN s : ~s[i][1]) /\ (\A i \in DOMAIN t : ~t[i][1])
    BY <1>2, <1>3, <2>1
  <2>3. QED
    BY <2>2 DEF Failing
<1>5. QED
  BY <1>1, <1>4 DEF u

\* What the recursion of a flattened sequence computes.
LEMMA FlatUnfolds ==
  ASSUME NEW S, NEW seqs \in Seq(Seq(S))
  PROVE  \E f \in [0..Len(seqs) -> Seq(S)] :
           /\ Flat(seqs) = f[Len(seqs)] /\ f[0] = <<>>
           /\ \A n \in 1..Len(seqs) : f[n] = seqs[Len(seqs) + 1 - n] \o f[n - 1]
<1> DEFINE length == Len(seqs)
           At(n) == IF n \in 1..length THEN seqs[length + 1 - n] ELSE <<>>
           step == [p \in Nat \X Seq(S) |-> At(p[1]) \o p[2]]
           Is(f) == f = [n \in 0..length |-> IF n = 0 THEN <<>> ELSE seqs[length + 1 - n] \o f[n - 1]]
           from == CHOOSE f : Is(f)
<1>1. length \in Nat /\ DOMAIN seqs = 1..length /\ \A n \in 1..length : seqs[length + 1 - n] \in Seq(S)
  BY LenProperties, ElementOfSeq
<1>2. Flat(seqs) = from[length]
  BY DEF Flat, Backwards
<1>3. <<>> \in Seq(S)
  OBVIOUS
<1> HIDE DEF length
<1>4. step \in [(Nat \X Seq(S)) -> Seq(S)]
  <2>1. ASSUME NEW n \in Nat, NEW t \in Seq(S) PROVE At(n) \o t \in Seq(S)
    <3>1. At(n) \in Seq(S)
      BY <1>1, <1>3
    <3> HIDE DEF At
    <3>2. QED
      BY <3>1, ConcatProperties
  <2> HIDE DEF At
  <2>2. QED
    BY <2>1
<1>5. PICK g \in [0..length -> Seq(S)] : Recursive(g, 0..length, <<>>, step)
  <2> HIDE DEF step
  <2>1. QED
    BY <1>1, <1>3, <1>4, RecursionUpTo
<1>6. g[0] = <<>> /\ \A n \in 1..length : g[n] = seqs[length + 1 - n] \o g[n - 1]
  <2>1. \A n \in 1..length : n \in (0..length) \ {0} /\ n \in Nat /\ n - 1 \in 0..length
    BY <1>1
  <2>2. \A n \in 1..length : g[n] = step[<<n, g[n - 1]>>]
    BY <1>5, <2>1, Zenon DEF Recursive
  <2>3. g[0] = <<>>
    BY <1>5 DEF Recursive
  <2>4. \A n \in 1..length : <<n, g[n - 1]>> \in Nat \X Seq(S) /\ At(n) = seqs[length + 1 - n]
    BY <1>5, <2>1
  <2>5. \A p \in Nat \X Seq(S) : step[p] = At(p[1]) \o p[2]
    OBVIOUS
  <2> HIDE DEF step, At
  <2>6. QED
    BY <2>2, <2>3, <2>4, <2>5
<1>7. Is(g)
  <2>1. \A n \in 0..length : n # 0 => n \in 1..length
    BY <1>1
  <2>2. g = [n \in 0..length |-> g[n]]
    BY <1>5
  <2>3. QED
    BY <1>6, <2>1, <2>2
<1> HIDE DEF step
<1>8. Is(from)
  <2> HIDE DEF Is
  <2>1. QED
    BY <1>7
<1>9. from[0] = <<>> /\ \A n \in 1..length : from[n] = seqs[length + 1 - n] \o from[n - 1]
  <2> HIDE DEF from
  <2>1. \A n \in 0..length : from[n] = IF n = 0 THEN <<>> ELSE seqs[length + 1 - n] \o from[n - 1]
    BY <1>8
  <2>2. 0 \in 0..length /\ \A n \in 1..length : n \in 0..length /\ n # 0
    BY <1>1
  <2>3. QED
    BY <2>1, <2>2
<1> HIDE DEF from, Is
<1> DEFINE alike == {n \in Nat : n <= length => from[n] = g[n]}
<1>10. 0 \in alike
  BY <1>6, <1>9
<1>11. ASSUME NEW n \in Nat, n \in alike PROVE n + 1 \in alike
  <2>1. SUFFICES ASSUME n + 1 <= length PROVE from[n + 1] = g[n + 1]
    OBVIOUS
  <2>2. n + 1 \in 1..length /\ (n + 1) - 1 = n /\ from[n] = g[n]
    BY <1>1, <1>11, <2>1
  <2>3. QED
    BY <1>6, <1>9, <2>2
<1> HIDE DEF alike
<1>12. length \in alike
  BY <1>1, <1>10, <1>11, NatSetInduction
<1>13. Flat(seqs) = g[length]
  BY <1>1, <1>2, <1>12 DEF alike
<1>14. QED
  BY <1>5, <1>6, <1>13 DEF length

\* Short of the position, one more reaches it.
LEMMA Later ==
  ASSUME NEW length \in Nat, NEW k \in Nat, NEW n \in Nat,
         length - n # k, length + 1 - k <= n + 1, n + 1 <= length
  PROVE  length + 1 - k <= n /\ n <= length
OBVIOUS

\* What one of the sequences holds is in the whole.
LEMMA InFlat ==
  ASSUME NEW S, NEW seqs \in Seq(Seq(S)), NEW k \in DOMAIN seqs, NEW j \in DOMAIN seqs[k]
  PROVE  /\ Flat(seqs) \in Seq(S)
         /\ \E m \in DOMAIN Flat(seqs) : Flat(seqs)[m] = seqs[k][j]
<1> DEFINE length == Len(seqs)
           item == seqs[k][j]
           Has(s) == \E m \in DOMAIN s : s[m] = item
<1>1. /\ length \in Nat /\ k \in 1..length
      /\ \A n \in 1..length : seqs[n] \in Seq(S)
  BY LenProperties, ElementOfSeq
<1>2. PICK f \in [0..Len(seqs) -> Seq(S)] :
        /\ Flat(seqs) = f[Len(seqs)] /\ f[0] = <<>>
        /\ \A n \in 1..Len(seqs) : f[n] = seqs[Len(seqs) + 1 - n] \o f[n - 1]
  BY FlatUnfolds
<1>3. \A s, t \in Seq(S) :
        /\ DOMAIN s = 1..Len(s) /\ Len(s) \in Nat /\ DOMAIN (s \o t) = 1..(Len(s) + Len(t))
        /\ \A m \in 1..Len(s) : (s \o t)[m] = s[m]
        /\ \A m \in 1..Len(t) : (s \o t)[m + Len(s)] = t[m]
  <2>1. ASSUME NEW s \in Seq(S), NEW t \in Seq(S)
        PROVE  /\ DOMAIN s = 1..Len(s) /\ Len(s) \in Nat /\ DOMAIN (s \o t) = 1..(Len(s) + Len(t))
               /\ \A m \in 1..Len(s) : (s \o t)[m] = s[m]
               /\ \A m \in 1..Len(t) : (s \o t)[m + Len(s)] = t[m]
    <3> DEFINE u == s \o t
    <3>1. /\ Len(s) \in Nat /\ Len(t) \in Nat /\ DOMAIN s = 1..Len(s)
          /\ u \in Seq(S) /\ Len(u) = Len(s) + Len(t)
          /\ \A m \in 1..(Len(s) + Len(t)) : u[m] = IF m <= Len(s) THEN s[m] ELSE t[m - Len(s)]
      BY ConcatProperties, LenProperties
    <3>2. DOMAIN u = 1..Len(u)
      BY <3>1, LenProperties
    <3> HIDE DEF u
    <3>3. \A m \in 1..Len(t) : u[m + Len(s)] = t[m]
      <4>1. ASSUME NEW m \in 1..Len(t) PROVE u[m + Len(s)] = t[m]
        <5>1. m + Len(s) \in 1..(Len(s) + Len(t)) /\ ~(m + Len(s) <= Len(s)) /\ (m + Len(s)) - Len(s) = m
          BY <3>1
        <5>2. QED
          BY <3>1, <5>1
      <4>2. QED
        BY <4>1
    <3>4. QED
      BY <3>1, <3>2, <3>3 DEF u
  <2>2. QED
    BY <2>1
<1>4. \A s, t \in Seq(S) : Has(s) \/ Has(t) => Has(s \o t)
  <2>1. ASSUME NEW s \in Seq(S), NEW t \in Seq(S), Has(s) PROVE Has(s \o t)
    <3>1. PICK m \in 1..Len(s) : s[m] = item
      BY <1>3, <2>1
    <3> HIDE DEF item
    <3>2. Len(t) \in Nat /\ Len(s) \in Nat
      BY LenProperties
    <3>3. m \in DOMAIN (s \o t) /\ (s \o t)[m] = item
      BY <1>3, <3>1, <3>2
    <3>4. QED
      BY <3>3
  <2>2. ASSUME NEW s \in Seq(S), NEW t \in Seq(S), Has(t) PROVE Has(s \o t)
    <3>1. PICK m \in 1..Len(t) : t[m] = item
      BY <1>3, <2>2
    <3> HIDE DEF item
    <3>2. Len(t) \in Nat /\ Len(s) \in Nat
      BY LenProperties
    <3>3. m + Len(s) \in DOMAIN (s \o t) /\ (s \o t)[m + Len(s)] = item
      BY <1>3, <3>1, <3>2
    <3>4. QED
      BY <3>3
  <2>3. QED
    BY <2>1, <2>2
<1> DEFINE good == {n \in Nat : length + 1 - k <= n /\ n <= length => Has(f[n])}
<1>5. 0 \in good
  BY <1>1
<1>6. ASSUME NEW n \in Nat, n \in good PROVE n + 1 \in good
  <2>1. SUFFICES ASSUME length + 1 - k <= n + 1, n + 1 <= length PROVE Has(f[n + 1])
    OBVIOUS
  <2>2. n + 1 \in 1..length /\ n \in 0..length /\ (n + 1) - 1 = n /\ length + 1 - (n + 1) = length - n
        /\ length - n \in 1..length
    BY <1>1, <2>1
  <2>3. f[n + 1] = seqs[length - n] \o f[n] /\ seqs[length - n] \in Seq(S) /\ f[n] \in Seq(S)
    BY <1>1, <1>2, <2>2
  <2>4. Has(seqs[length - n]) \/ Has(f[n])
    <3>1. CASE length - n = k
      BY <3>1
    <3>2. CASE length - n # k
      <4>0. /\ length \in Nat /\ k \in Nat /\ n \in Nat
            /\ length - n # k /\ length + 1 - k <= n + 1 /\ n + 1 <= length
        BY <1>1, <1>6, <2>1, <3>2
      <4>1. length + 1 - k <= n /\ n <= length
        BY <4>0, Later
      <4>2. QED
        BY <1>6, <4>1
    <3>3. QED
      BY <3>1, <3>2
  <2> HIDE DEF Has
  <2>5. QED
    BY <1>4, <2>3, <2>4
<1> HIDE DEF good, Has
<1>7. Nat \subseteq good
  BY <1>5, <1>6, NatSetInduction
<1>8. length \in good /\ length + 1 - k <= length
  BY <1>1, <1>7
<1>9. Has(f[length])
  BY <1>8, length <= length DEF good
<1>11. f[length] \in Seq(S)
  BY <1>1, <1>2, Len(seqs) \in 0..Len(seqs)
<1>10. QED
  BY <1>2, <1>9, <1>11 DEF Has
=============================================================================
