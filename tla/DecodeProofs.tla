---------------------------- MODULE DecodeProofs ----------------------------
(***************************************************************************)
(* What the decoders of Decode promise, proved for every set of bodies:    *)
(* that probabilities are never read under one kind and built as another   *)
(* (the comment at mixed_types, de.rs:912-917), that a failure is reported *)
(* at the path of what is wrong, and that what a set holds of a body it    *)
(* accepts does not depend on where an answer's type stands.               *)
(*                                                                         *)
(* The argument for the last two is one invariant, TInv.  Of an answer in  *)
(* progress it says what the type and each slot tell of the members read   *)
(* so far (Collected); of a set in progress, that it holds what the        *)
(* contract asks of the answers read so far (Gathered); of a decoder that  *)
(* stopped, that it accepted or refused what the contract says it must.    *)
(***************************************************************************)
EXTENDS Decode, Inductions, FiniteSetTheorems

\* What a decoder is made of.
Shaped(d) ==
  /\ DOMAIN d = {"status", "failure", "has", "answers", "answer"}
  /\ DOMAIN d.answer = {"wanted", "seen", "slots"}
  /\ DOMAIN d.answer.slots = DataMembers

Unmixed(d) == d.status = "failed" => d.failure.why # "mixed"

\* Probabilities that were read were read under the type seen, and before one
\* was seen under the field's kind.
OneKind(d, expected) ==
  LET slot == d.answer.slots["probabilities"]
  IN  slot.how = "read" =>
        slot.kind # None /\ slot.kind = IF d.answer.seen = None THEN expected ELSE d.answer.seen

\* Nothing is collected between two answers.
Between(d) == d.answer.slots = NoAnswer.slots

Quiet(d) == Shaped(d) /\ Unmixed(d) /\ (d.status = "reading" => Between(d))

\* Where the next member is read.
Position == [top : Nat, answer : Nat, member : Nat]

IInv ==
  /\ at \in Position /\ (at.answer = 0 => at.member = 0)
  /\ \A s \in Sets :
       /\ Shaped(dec[s]) /\ Unmixed(dec[s])
       /\ dec[s].status = "reading" =>
            OneKind(dec[s], Expected(s, Entry.name)) /\ (at.member = 0 => Between(dec[s]))

-----------------------------------------------------------------------------
USE DecodeAssumption

LEMMA NothingCollected ==
  ASSUME NEW d, NEW expected, Between(d)
  PROVE  OneKind(d, expected)
BY DEF Between, OneKind, NoAnswer, Missing, DataMembers

LEMMA NoAnswerShaped ==
  /\ DOMAIN NoAnswer = {"wanted", "seen", "slots"}
  /\ DOMAIN NoAnswer.slots = DataMembers
BY DEF NoAnswer

\* A failure keeps the rest of the decoder.
LEMMA FailedShaped ==
  ASSUME NEW d, Shaped(d), NEW why, NEW path
  PROVE  /\ Shaped(Failed(d, why, path)) /\ Failed(d, why, path).status = "failed"
         /\ why # "mixed" => Unmixed(Failed(d, why, path))
BY DEF Failed, Shaped, Unmixed

\* A type that is accepted leaves the kind that members were read under.
LEMMA OnTypeKeeps ==
  ASSUME NEW s, NEW d, NEW n, NEW t, Shaped(d), Unmixed(d), OneKind(d, Expected(s, n))
  PROVE  /\ Shaped(OnType(s, d, n, t)) /\ Unmixed(OnType(s, d, n, t))
         /\ OnType(s, d, n, t).status = "reading" => OneKind(OnType(s, d, n, t), Expected(s, n))
<1>1. CASE t = "not_text" \/ Expected(s, n) \notin {None, t} \/ d.answer.seen \notin {None, t}
  <2>1. OnType(s, d, n, t) = Failed(d, "type", <<"answers", n, "type">>)
    BY <1>1 DEF OnType
  <2>2. QED
    BY <2>1, FailedShaped
<1>2. CASE ~(t = "not_text" \/ Expected(s, n) \notin {None, t} \/ d.answer.seen \notin {None, t})
  <2> DEFINE e == [d EXCEPT !.answer.seen = t]
  <2>1. OnType(s, d, n, t) = e
    BY <1>2 DEF OnType
  <2>2. Shaped(e) /\ Unmixed(e) /\ e.answer.slots = d.answer.slots /\ e.answer.seen = t
    BY DEF Shaped, Unmixed
  <2>3. OneKind(e, Expected(s, n))
    BY <1>2, <2>2 DEF OneKind
  <2>4. QED
    BY <2>1, <2>2, <2>3
<1>3. QED
  BY <1>1, <1>2

\* A member is read under the kind as it is known.
LEMMA OnDataKeeps ==
  ASSUME NEW s, NEW d, NEW n, NEW m, NEW v, Shaped(d), Unmixed(d), OneKind(d, Expected(s, n))
  PROVE  /\ Shaped(OnData(s, d, n, m, v)) /\ Unmixed(OnData(s, d, n, m, v))
         /\ OnData(s, d, n, m, v).status = "reading" => OneKind(OnData(s, d, n, m, v), Expected(s, n))
<1> DEFINE kind == KindSoFar(s, d, n)
           Put(slot) == [d EXCEPT !.answer.slots[m] = slot]
<1>1. ASSUME NEW slot,
             slot.how = "read" => slot.kind # None
               /\ slot.kind = IF d.answer.seen = None THEN Expected(s, n) ELSE d.answer.seen
      PROVE  Shaped(Put(slot)) /\ Unmixed(Put(slot)) /\ OneKind(Put(slot), Expected(s, n))
  <2>1. Shaped(Put(slot)) /\ Unmixed(Put(slot)) /\ Put(slot).answer.seen = d.answer.seen
    BY DEF Shaped, Unmixed
  <2>2. Put(slot).answer.slots["probabilities"] \in {slot, d.answer.slots["probabilities"]}
    BY DEF Shaped, DataMembers
  <2>3. QED
    BY <1>1, <2>1, <2>2 DEF OneKind
<1>2. CASE kind # None /\ BelongsTo(m, kind)
  <2>1. CASE Fits(m, kind, v)
    <3>1. OnData(s, d, n, m, v) = Put([how |-> "read", kind |-> kind, value |-> v])
      BY <1>2, <2>1 DEF OnData
    <3>2. kind = IF d.answer.seen = None THEN Expected(s, n) ELSE d.answer.seen
      BY <1>2 DEF KindSoFar
    <3>3. QED
      BY <1>1, <1>2, <3>1, <3>2
  <2>2. CASE ~Fits(m, kind, v)
    <3>1. OnData(s, d, n, m, v) = Failed(d, "shape", <<"answers", n, m>>)
      BY <1>2, <2>2 DEF OnData
    <3>2. QED
      BY <3>1, FailedShaped
  <2>3. QED
    BY <2>1, <2>2
<1>3. CASE ~(kind # None /\ BelongsTo(m, kind))
  <2>1. \/ OnData(s, d, n, m, v) = Put([how |-> "held", value |-> v])
        \/ OnData(s, d, n, m, v) = d
    BY <1>3 DEF OnData
  <2>2. QED
    BY <1>1, <2>1
<1>4. QED
  BY <1>2, <1>3

LEMMA MixedFault ==
  ASSUME NEW slot, NEW m, NEW kind, Fault(slot, m, kind) = "mixed"
  PROVE  m = "probabilities" /\ slot.how = "read" /\ slot.kind # kind
<1>1. None # "mixed"
  BY DecodeAssumption
<1>2. QED
  BY <1>1 DEF Fault

\* An answer is built without mixing kinds, and is kept apart from the rest.
LEMMA BuildKeeps ==
  ASSUME NEW s, NEW d, NEW n, Shaped(d), Unmixed(d), OneKind(d, Expected(s, n))
  PROVE  Shaped(Build(s, d, n)) /\ Unmixed(Build(s, d, n))
<1> DEFINE kind == d.answer.seen
           m == Needs(kind)[FirstFault(d, kind)]
           why == Fault(d.answer.slots[m], m, kind)
<1>1. CASE kind = None
  <2>1. Build(s, d, n) = Failed(d, "type", <<"answers", n, "type">>)
    BY <1>1 DEF Build
  <2>2. QED
    BY <2>1, FailedShaped
<1>2. CASE kind # None
  <2>1. why # "mixed"
    <3>1. ASSUME why = "mixed"
          PROVE  /\ m = "probabilities" /\ d.answer.slots[m].how = "read"
                 /\ d.answer.slots[m].kind # kind
      <4> HIDE DEF m, kind
      <4>1. QED
        BY <3>1, MixedFault
    <3>2. QED
      BY <1>2, <3>1 DEF OneKind
  <2>2. \/ Build(s, d, n) = d
        \/ Build(s, d, n) = Keep(s, d, n)
        \/ \E path : Build(s, d, n) = Failed(d, why, path)
    BY <1>2 DEF Build
  <2>3. Shaped(Keep(s, d, n)) /\ Unmixed(Keep(s, d, n))
    BY DEF Keep, Shaped, Unmixed
  <2>4. QED
    BY <2>1, <2>2, <2>3, FailedShaped
<1>3. QED
  BY <1>1, <1>2

-----------------------------------------------------------------------------
(* The steps. *)

\* A member between the answers leaves nothing collected, and so does all that
\* is not a member of an answer.
LEMMA TopReadKeeps ==
  ASSUME NEW d, NEW top, Quiet(d)
  PROVE  Quiet(TopRead(d, top))
<1> DEFINE has == [d EXCEPT !.has = @ \cup {top.key}]
<1>1. Quiet(has)
  BY DEF Quiet, Shaped, Unmixed, Between
<1>2. Quiet(Failed(d, "shape", <<top.key>>))
  BY FailedShaped DEF Quiet
<1>3. TopRead(d, top) \in {d, has, Failed(d, "shape", <<top.key>>)}
  BY DEF TopRead
<1>4. QED
  BY <1>1, <1>2, <1>3

LEMMA EnteredKeeps ==
  ASSUME NEW s, NEW d, NEW entry, Quiet(d)
  PROVE  Quiet(Entered(s, d, entry))
<1> DEFINE wanted == [d EXCEPT !.answer.wanted = TRUE]
           path == <<"answers", entry.name, "type">>
<1>1. Quiet(wanted)
  BY DEF Quiet, Shaped, Unmixed, Between
<1>2. Quiet(Failed(d, "type", path))
  BY FailedShaped DEF Quiet
<1>3. Entered(s, d, entry) \in {d, wanted, Failed(d, "type", path)}
  BY DEF Entered
<1>4. QED
  BY <1>1, <1>2, <1>3

LEMMA LeftKeeps ==
  ASSUME NEW s, NEW d, NEW n, Shaped(d), Unmixed(d), OneKind(d, Expected(s, n))
  PROVE  Quiet(Left(s, d, n))
<1> DEFINE built == IF d.answer.wanted THEN Build(s, d, n) ELSE d
<1>1. Shaped(built) /\ Unmixed(built)
  BY BuildKeeps
<1>2. Left(s, d, n) = [built EXCEPT !.answer = NoAnswer]
  BY DEF Left
<1> HIDE DEF built
<1>3. QED
  BY <1>1, <1>2, NoAnswerShaped DEF Quiet, Shaped, Unmixed, Between

LEMMA CompleteKeeps ==
  ASSUME NEW s, NEW d, Quiet(d)
  PROVE  Quiet(Complete(s, d))
<1> DEFINE has == [d EXCEPT !.has = @ \cup {"answers"}]
           path == <<"answers", body.fields[Lacking(d)].name>>
<1>1. Quiet(has)
  BY DEF Quiet, Shaped, Unmixed, Between
<1>2. Quiet(Failed(d, "missing", path))
  BY FailedShaped DEF Quiet
<1>3. Complete(s, d) \in {has, Failed(d, "missing", path)}
  BY DEF Complete
<1>4. QED
  BY <1>1, <1>2, <1>3

LEMMA FinishKeeps ==
  ASSUME NEW s, NEW d, Quiet(d)
  PROVE  Quiet(Finish(s, d))
<1> DEFINE ok == [d EXCEPT !.status = "ok"]
<1>1. Quiet(ok)
  BY DEF Quiet, Shaped, Unmixed, Between
<1>2. \A path : Quiet(Failed(d, "missing", path))
  BY FailedShaped DEF Quiet
<1>3. Finish(s, d) = ok \/ \E path : Finish(s, d) = Failed(d, "missing", path)
  BY DEF Finish
<1>4. QED
  BY <1>1, <1>2, <1>3

LEMMA MemberReadKeeps ==
  ASSUME NEW s, NEW d, NEW n, NEW m, Shaped(d), Unmixed(d), OneKind(d, Expected(s, n))
  PROVE  /\ Shaped(MemberRead(s, d, n, m)) /\ Unmixed(MemberRead(s, d, n, m))
         /\ MemberRead(s, d, n, m).status = "reading" => OneKind(MemberRead(s, d, n, m), Expected(s, n))
<1>1. MemberRead(s, d, n, m) \in {d, OnType(s, d, n, m.type), OnData(s, d, n, m.key, m.value)}
  BY DEF MemberRead
<1>2. QED
  BY <1>1, OnTypeKeeps, OnDataKeeps

\* Where every decoder that goes on is put in order, the invariant is kept.
LEMMA EachKeeps ==
  ASSUME IInv, NEW STATE next, Each(next), at' \in Position, at'.answer = 0 => at'.member = 0,
         \A s \in Sets : dec[s].status = "reading" =>
           /\ Shaped(next[s]) /\ Unmixed(next[s])
           /\ next[s].status = "reading" =>
                \/ Between(next[s])
                \/ at'.member # 0 /\ OneKind(next[s], Expected(s, Entry.name)')
  PROVE  IInv'
<1>1. ASSUME NEW s \in Sets
      PROVE  /\ Shaped(dec'[s]) /\ Unmixed(dec'[s])
             /\ dec'[s].status = "reading" =>
                  OneKind(dec'[s], Expected(s, Entry.name)') /\ (at'.member = 0 => Between(dec'[s]))
  <2>1. CASE dec[s].status = "reading"
    <3>1. dec'[s] = next[s]
      BY <2>1 DEF Each
    <3>2. Between(next[s]) => OneKind(dec'[s], Expected(s, Entry.name)')
      BY <3>1, NothingCollected
    <3>3. QED
      BY <2>1, <3>1, <3>2
  <2>2. CASE dec[s].status # "reading"
    <3>1. dec'[s] = dec[s]
      BY <2>2 DEF Each
    <3>2. QED
      BY <2>2, <3>1 DEF IInv
  <2>3. QED
    BY <2>1, <2>2
<1>2. QED
  BY <1>1 DEF IInv

LEMMA InitKeeps == Init => IInv
BY NoAnswerShaped, NothingCollected DEF Init, IInv, Position, Shaped, Unmixed, Between

LEMMA StepKeeps ==
  ASSUME IInv, [Next]_vars
  PROVE  IInv'
<1>1. ASSUME NEW s \in Sets, dec[s].status = "reading"
      PROVE  /\ Shaped(dec[s]) /\ Unmixed(dec[s]) /\ OneKind(dec[s], Expected(s, Entry.name))
             /\ at.member = 0 => Quiet(dec[s])
  BY <1>1 DEF IInv, Quiet
<1>2. CASE ReadTop
  <2> DEFINE next == [s \in Sets |-> TopRead(dec[s], Tops[at.top])]
  <2>0. Each(next)
    BY <1>2 DEF ReadTop
  <2>1. at' \in Position /\ (at'.answer = 0 => at'.member = 0) /\ at.member = 0
    BY <1>2 DEF ReadTop, AtTop, IInv, Position
  <2>2. \A s \in Sets : dec[s].status = "reading" => Quiet(next[s])
    BY <1>1, <2>1, TopReadKeeps
  <2> HIDE DEF next
  <2>3. QED
    BY <2>0, <2>1, <2>2, EachKeeps DEF Quiet
<1>3. CASE EnterAnswers
  <2> DEFINE next == [s \in Sets |-> [dec[s] EXCEPT !.answers = NoAnswers(s)]]
  <2>0. Each(next)
    BY <1>3 DEF EnterAnswers
  <2>1. at' \in Position /\ (at'.answer = 0 => at'.member = 0) /\ at.member = 0
    BY <1>3 DEF EnterAnswers, AtTop, IInv, Position
  <2>2. \A s \in Sets : dec[s].status = "reading" => Quiet(next[s])
    BY <1>1, <2>1 DEF Quiet, Shaped, Unmixed, Between
  <2> HIDE DEF next
  <2>3. QED
    BY <2>0, <2>1, <2>2, EachKeeps DEF Quiet
<1>4. CASE EnterAnswer
  <2> DEFINE next == [s \in Sets |-> Entered(s, dec[s], Entry)]
  <2>0. Each(next)
    BY <1>4 DEF EnterAnswer
  <2>1. at' \in Position /\ (at'.answer = 0 => at'.member = 0) /\ at.member = 0
    BY <1>4 DEF EnterAnswer, InAnswers, IInv, Position
  <2>2. \A s \in Sets : dec[s].status = "reading" => Quiet(next[s])
    BY <1>1, <2>1, EnteredKeeps
  <2> HIDE DEF next
  <2>3. QED
    BY <2>0, <2>1, <2>2, EachKeeps DEF Quiet
<1>5. CASE LeaveAnswer
  <2> DEFINE next == [s \in Sets |-> Left(s, dec[s], Entry.name)]
  <2>0. Each(next)
    BY <1>5 DEF LeaveAnswer
  <2>1. at' \in Position /\ (at'.answer = 0 => at'.member = 0)
    <3> DEFINE further == [at EXCEPT !.answer = at.answer + 1]
    <3>1. at \in Position /\ at' = [further EXCEPT !.member = 0]
      BY <1>5 DEF LeaveAnswer, IInv
    <3>2. further \in Position /\ further.answer # 0
      BY <3>1 DEF Position
    <3> HIDE DEF further
    <3>3. QED
      BY <3>1, <3>2 DEF Position
  <2>2. \A s \in Sets : dec[s].status = "reading" => Quiet(next[s])
    BY <1>1, <2>1, LeftKeeps
  <2> HIDE DEF next
  <2>3. QED
    BY <2>0, <2>1, <2>2, EachKeeps DEF Quiet
<1>6. CASE LeaveAnswers
  <2> DEFINE next == [s \in Sets |-> Complete(s, dec[s])]
  <2>0. Each(next)
    BY <1>6 DEF LeaveAnswers
  <2>1. at' \in Position /\ (at'.answer = 0 => at'.member = 0) /\ at.member = 0
    <3> DEFINE further == [at EXCEPT !.top = at.top + 1]
    <3>1. /\ at \in Position /\ at.member = 0
          /\ at' = [further EXCEPT !.answer = 0]
      BY <1>6 DEF LeaveAnswers, InAnswers, IInv
    <3>2. further \in Position /\ further.member = 0
      BY <3>1 DEF Position
    <3> HIDE DEF further
    <3>3. QED
      BY <3>1, <3>2 DEF Position
  <2>2. \A s \in Sets : dec[s].status = "reading" => Quiet(next[s])
    BY <1>1, <2>1, CompleteKeeps
  <2> HIDE DEF next
  <2>3. QED
    BY <2>0, <2>1, <2>2, EachKeeps DEF Quiet
<1>7. CASE EndOfBody
  <2> DEFINE next == [s \in Sets |-> Finish(s, dec[s])]
  <2>0. Each(next)
    BY <1>7 DEF EndOfBody
  <2>1. at' \in Position /\ (at'.answer = 0 => at'.member = 0) /\ at.member = 0
    BY <1>7 DEF EndOfBody, AtTop, IInv, Position
  <2>2. \A s \in Sets : dec[s].status = "reading" => Quiet(next[s])
    BY <1>1, <2>1, FinishKeeps
  <2> HIDE DEF next
  <2>3. QED
    BY <2>0, <2>1, <2>2, EachKeeps DEF Quiet
<1>8. CASE Broken
  <2> DEFINE next == [s \in Sets |-> Failed(dec[s], "syntax", <<>>)]
  <2>0. Each(next)
    BY <1>8 DEF Broken
  <2>1. at' \in Position /\ (at'.answer = 0 => at'.member = 0)
    BY <1>8 DEF Broken, IInv, Position
  <2>2. \A s \in Sets : dec[s].status = "reading" => Quiet(next[s])
    BY <1>1, <2>1, FailedShaped DEF Quiet
  <2> HIDE DEF next
  <2>3. QED
    BY <2>0, <2>1, <2>2, EachKeeps DEF Quiet
<1>9. CASE ReadMember
  <2> DEFINE next == [s \in Sets |-> MemberRead(s, dec[s], Entry.name, Entry.members[at.member])]
  <2>0. Each(next)
    BY <1>9 DEF ReadMember
  <2>1. at' \in Position /\ (at'.answer = 0 => at'.member = 0) /\ at'.member # 0
    BY <1>9 DEF ReadMember, InAnswer, IInv, Position
  <2>2. \A s \in Sets : Expected(s, Entry.name)' = Expected(s, Entry.name)
    <3>1. body' = body /\ at'.top = at.top /\ at'.answer = at.answer
      BY <1>9 DEF ReadMember, IInv, Position
    <3>2. Entry' = Entry
      BY <3>1 DEF Entry, Entries, Tops
    <3>3. QED
      BY <3>1, <3>2 DEF Expected, FieldKind
  <2>3. \A s \in Sets : dec[s].status = "reading" =>
          /\ Shaped(next[s]) /\ Unmixed(next[s])
          /\ next[s].status = "reading" => OneKind(next[s], Expected(s, Entry.name)')
    BY <1>1, <2>2, MemberReadKeeps
  <2> HIDE DEF next
  <2>4. QED
    BY <2>0, <2>1, <2>3, EachKeeps
<1>10. CASE UNCHANGED vars
  BY <1>10 DEF vars, IInv, Entry, Entries, Tops, Expected, FieldKind
<1>11. QED
  BY <1>2, <1>3, <1>4, <1>5, <1>6, <1>7, <1>8, <1>9, <1>10 DEF Next

\* Probabilities that were read under one kind are not built as another: of no
\* body, whatever its answers' types and the order of their members, do the
\* builders reach the arms that guard against it.
THEOREM KindsNotMixed == Spec => []NeverMixed
<1>1. IInv => NeverMixed
  BY DEF IInv, NeverMixed, Unmixed
<1>2. QED
  BY <1>1, InitKeeps, StepKeeps, PTL DEF Spec

-----------------------------------------------------------------------------
(* What a decoder knows of the body it has read so far. *)

\* The kind an answer is read under, from the field's kind and the type seen.
KindOf(expected, seen) ==
  IF seen = None THEN expected ELSE IF seen \in Known THEN seen ELSE None

\* A member is skipped that belongs to another kind, or to an unknown one.
Skipped(expected, seen, m) ==
  \/ seen # None /\ seen \notin Known
  \/ KindOf(expected, seen) # None /\ ~BelongsTo(m, KindOf(expected, seen))

\* The place of a member's last value among the first k members.
LastAt(i, m, members, k) ==
  i \in 1..k /\ members[i].key = m /\ \A j \in 1..k : members[j].key = m => j <= i

Untyped(members, k) == \A j \in 1..k : members[j].key # "type"

\* What a slot tells of the first k members of an answer.
MissingTells(slot, expected, seen, m, members, k) ==
  /\ slot.how = "missing"
  /\ Skipped(expected, seen, m) \/ \A i \in 1..k : members[i].key # m

HeldTells(slot, expected, seen, m, members, k) ==
  /\ slot.how = "held" /\ expected = None
  /\ \E i \in 1..k :
       /\ members[i].key = m /\ members[i].value = slot.value /\ Untyped(members, i)
       /\ Skipped(expected, seen, m) \/ LastAt(i, m, members, k)

ReadTells(slot, expected, seen, m, members, k) ==
  /\ slot.how = "read" /\ slot.kind = KindOf(expected, seen) /\ slot.kind # None
  /\ BelongsTo(m, slot.kind) /\ Fits(m, slot.kind, slot.value)
  /\ \E i \in 1..k : LastAt(i, m, members, k) /\ members[i].value = slot.value

SlotTells(slot, expected, seen, m, members, k) ==
  \/ MissingTells(slot, expected, seen, m, members, k)
  \/ HeldTells(slot, expected, seen, m, members, k)
  \/ ReadTells(slot, expected, seen, m, members, k)

\* The type seen is the only one among the first k members.
SeenTells(expected, seen, members, k) ==
  IF seen = None THEN Untyped(members, k)
  ELSE /\ seen # "not_text" /\ expected \in {None, seen}
       /\ \E i \in 1..k : members[i].key = "type"
       /\ \A i \in 1..k : members[i].key = "type" => members[i].type = seen

Collected(answer, expected, members, k) ==
  /\ SeenTells(expected, answer.seen, members, k)
  /\ \A m \in DataMembers : SlotTells(answer.slots[m], expected, answer.seen, m, members, k)

\* What the contract says of an answer and of the set a decoder gathered from
\* the first k entries.
Told(answer, e) ==
  /\ answer = AnswerOf(e.members) /\ answer.kind # None
  /\ answer.kind = "score" => \A m \in {"legend", "probabilities"} :
       SortedFrom(answer.members[m], LastOf(e.members, m).entries)

Upto(seq, k) == SubSeq(seq, 1, k)
Mapped(kept) == [i \in DOMAIN kept |-> [name |-> kept[i].name, answer |-> AnswerOf(kept[i].members)]]

\* The answers of a known type among the first entries.
Heard(entries, k) == Mapped(Sift(Upto(entries, k), Telling(entries)))

NamedBefore(entries, k, n) == \E i \in 1..k : entries[i].name = n

Gathered(s, d, entries, k) ==
  IF s = "map" THEN d.answers = Heard(entries, k)
  ELSE /\ DOMAIN d.answers = FieldNames
       /\ \A n \in FieldNames :
            IF NamedBefore(entries, k, n)
              THEN Told(d.answers[n], First(entries, n)) /\ d.answers[n].kind = FieldKind(n)
              ELSE d.answers[n] = Unfilled

\* The answers that stay of the first top members.
Passed(top) ==
  LET is == {i \in 1..(top - 1) : Tops[i].key = "answers"}
  IN  IF is = {} THEN <<>> ELSE Tops[CHOOSE i \in is : \A j \in is : j <= i].answers

AnswersAt(p) == Tops[p.top].answers
EntryAt(p) == AnswersAt(p)[p.answer]

Filled(s, d) == s = "struct" => \A n \in FieldNames : d.answers[n] # Unfilled

\* A decoder that goes on, at a position.
Underway(s, d, p) ==
  /\ \A i \in 1..(p.top - 1) : Tops[i].key # "other" => Tops[i].key \in d.has
  /\ p.answer = 0 =>
       /\ Gathered(s, d, Passed(p.top), Len(Passed(p.top)))
       /\ "answers" \in d.has => Filled(s, d)
  /\ p.answer > 0 => Gathered(s, d, AnswersAt(p), p.answer - 1)
  /\ p.member = 0 => d.answer = NoAnswer
  /\ p.member > 0 =>
       \/ d.answer.wanted = FALSE /\ ~Wanted(s, d, EntryAt(p).name)
       \/ /\ d.answer.wanted = TRUE /\ Wanted(s, d, EntryAt(p).name)
          /\ Collected(d.answer, Expected(s, EntryAt(p).name), EntryAt(p).members, p.member - 1)

\* A position in the body.
Placed(p) ==
  /\ p \in Position /\ p.top \in 1..(Len(Tops) + 1)
  /\ p.answer = 0 => p.member = 0
  /\ p.answer > 0 =>
       /\ p.top <= Len(Tops) /\ Tops[p.top].key = "answers" /\ Tops[p.top].fits
       /\ p.answer <= Len(AnswersAt(p)) + 1
  /\ p.member > 0 =>
       /\ p.answer <= Len(AnswersAt(p)) /\ EntryAt(p).object
       /\ p.member <= Len(EntryAt(p).members) + 1

\* A decoder that stopped.
Refused(s, d) == d.failure.why = "syntax" \/ PathTells(s, d.failure)
Accepted(s, d) ==
  IF s = "map" THEN d.answers = Mapped(Sift(Staying, Telling(Staying)))
  ELSE \A n \in FieldNames :
         Told(d.answers[n], First(Staying, n)) /\ d.answers[n].kind = FieldKind(n)

Status == {"reading", "failed", "ok"}

Good(s, d, p) ==
  /\ d.status \in Status
  /\ d.status = "reading" => Underway(s, d, p)
  /\ d.status = "failed" => Refused(s, d)
  /\ d.status = "ok" => Accepted(s, d)

TInv == IInv /\ body \in Bodies /\ Placed(at) /\ \A s \in Sets : Good(s, dec[s], at)

-----------------------------------------------------------------------------
(* Tables are sorted by level, and the sort is stable. *)

Ordered(s) == \A i, j \in DOMAIN s : i < j => s[i].level <= s[j].level
Of(l) == {x \in TableEntry : x.level = l}
Low(e) == {x \in TableEntry : x.level <= e.level}
High(e) == {x \in TableEntry : x.level > e.level}

LEMMA LevelsHaving ==
  ASSUME NEW s \in Seq(TableEntry)
  PROVE  /\ \A l : AtLevel(s, l) = Having(s, Of(l))
         /\ \A e \in TableEntry :
              InsertByLevel(s, e) = Append(Having(s, Low(e)), e) \o Having(s, High(e))
<1>1. Len(s) \in Nat /\ DOMAIN s = 1..Len(s) /\ \A i \in DOMAIN s : s[i] \in TableEntry
  BY LenProperties, ElementOfSeq
<1>2. ASSUME NEW l PROVE AtLevel(s, l) = Having(s, Of(l))
  <2>1. {i \in DOMAIN s : s[i].level = l} = {i \in DOMAIN s : s[i] \in Of(l)}
    BY <1>1 DEF Of
  <2>2. QED
    BY <2>1 DEF AtLevel, Having
<1>3. ASSUME NEW e \in TableEntry
      PROVE  InsertByLevel(s, e) = Append(Having(s, Low(e)), e) \o Having(s, High(e))
  <2>1. {i \in DOMAIN s : s[i].level <= e.level} = {i \in DOMAIN s : s[i] \in Low(e)}
    BY <1>1 DEF Low
  <2>2. {i \in DOMAIN s : s[i].level > e.level} = {i \in DOMAIN s : s[i] \in High(e)}
    BY <1>1 DEF High
  <2>3. Having(s, Low(e)) \in Seq(TableEntry)
    BY HavingUnfolds
  <2>4. Append(Having(s, Low(e)), e) = Having(s, Low(e)) \o <<e>>
    BY <2>3, AppendIsConcat
  <2>5. InsertByLevel(s, e) = (Having(s, Low(e)) \o <<e>>) \o Having(s, High(e))
    BY <2>1, <2>2 DEF InsertByLevel, Having
  <2>6. QED
    BY <2>4, <2>5
<1>4. QED
  BY <1>2, <1>3

LEMMA HavingOrdered ==
  ASSUME NEW s \in Seq(TableEntry), Ordered(s), NEW P
  PROVE  /\ Having(s, P) \in Seq(TableEntry) /\ Ordered(Having(s, P))
         /\ \A k \in DOMAIN Having(s, P) : Having(s, P)[k] \in P
<1> DEFINE kept == {i \in DOMAIN s : s[i] \in P}
           out == Sift(s, kept)
<1>1. kept \subseteq DOMAIN s /\ DOMAIN s \subseteq Nat
  BY LenProperties
<1> HIDE DEF kept
<1>2. out \in Seq(TableEntry) /\ Sifted(s, kept, out)
  BY <1>1, Sifts
<1> HIDE DEF out
<1>3. PICK place \in [DOMAIN out -> kept] :
        /\ \A k \in DOMAIN out : out[k] = s[place[k]]
        /\ \A j, k \in DOMAIN out : j < k => place[j] < place[k]
  BY <1>2 DEF Sifted
<1>4. \A k \in DOMAIN out : place[k] \in DOMAIN s /\ out[k] \in P
  BY <1>1, <1>3 DEF kept
<1>5. Ordered(out)
  BY <1>3, <1>4 DEF Ordered
<1>6. QED
  BY <1>2, <1>4, <1>5 DEF Having, out, kept

\* An entry is put between those not above it and those above it.
LEMMA InsertOrdered ==
  ASSUME NEW s \in Seq(TableEntry), Ordered(s), NEW e \in TableEntry
  PROVE  InsertByLevel(s, e) \in Seq(TableEntry) /\ Ordered(InsertByLevel(s, e))
<1> DEFINE a == Having(s, Low(e))
           b == Having(s, High(e))
           u == Append(a, e)
           v == u \o b
<1>1. /\ a \in Seq(TableEntry) /\ Ordered(a) /\ \A k \in DOMAIN a : a[k] \in Low(e)
      /\ b \in Seq(TableEntry) /\ Ordered(b) /\ \A k \in DOMAIN b : b[k] \in High(e)
  BY HavingOrdered
<1>2. InsertByLevel(s, e) = v
  BY LevelsHaving
<1> HIDE DEF a, b
<1>3. /\ u \in Seq(TableEntry) /\ Len(u) = Len(a) + 1 /\ Len(a) \in Nat
      /\ DOMAIN a = 1..Len(a) /\ DOMAIN b = 1..Len(b) /\ Len(b) \in Nat
      /\ u[Len(a) + 1] = e /\ \A i \in 1..Len(a) : u[i] = a[i]
  BY <1>1, AppendProperties, LenProperties
<1> HIDE DEF u
<1>4. /\ v \in Seq(TableEntry) /\ DOMAIN v = 1..(Len(u) + Len(b))
      /\ \A i \in 1..(Len(u) + Len(b)) : v[i] = IF i <= Len(u) THEN u[i] ELSE b[i - Len(u)]
  <2>1. v \in Seq(TableEntry) /\ Len(v) = Len(u) + Len(b)
    BY <1>1, <1>3, ConcatProperties
  <2>2. DOMAIN v = 1..Len(v)
    BY <2>1, LenProperties
  <2>3. \A i \in 1..(Len(u) + Len(b)) : v[i] = IF i <= Len(u) THEN u[i] ELSE b[i - Len(u)]
    BY <1>1, <1>3, ConcatProperties
  <2>4. QED
    BY <2>1, <2>2, <2>3
<1> HIDE DEF v
<1>5. e.level \in Nat
  BY DEF TableEntry
<1>6. \A i \in 1..Len(u) : u[i].level \in Nat /\ u[i].level <= e.level
  <2>1. ASSUME NEW i \in 1..Len(u) PROVE u[i].level \in Nat /\ u[i].level <= e.level
    <3>1. CASE i = Len(a) + 1
      BY <1>3, <1>5, <3>1
    <3>2. CASE i # Len(a) + 1
      <4>1. i \in DOMAIN a /\ u[i] = a[i]
        BY <1>3, <3>2
      <4>2. a[i] \in Low(e)
        BY <1>1, <4>1
      <4>3. QED
        BY <4>1, <4>2 DEF Low, TableEntry
    <3>3. QED
      BY <3>1, <3>2
  <2>2. QED
    BY <2>1
<1>7. \A k \in 1..Len(b) : b[k].level \in Nat /\ b[k].level > e.level
  BY <1>1, <1>3 DEF High, TableEntry
<1>8. ASSUME NEW i \in DOMAIN v, NEW j \in DOMAIN v, i < j PROVE v[i].level <= v[j].level
  <2>0. i \in Nat /\ j \in Nat /\ Len(u) \in Nat /\ Len(b) \in Nat
    BY <1>3, <1>4
  <2>1. CASE j <= Len(a)
    <3>1. /\ i \in 1..Len(a) /\ j \in 1..Len(a) /\ v[i] = a[i] /\ v[j] = a[j]
      BY <1>3, <1>4, <1>8, <2>0, <2>1
    <3>2. QED
      BY <1>1, <1>3, <1>8, <3>1 DEF Ordered
  <2>2. CASE j = Len(a) + 1
    <3>1. i \in 1..Len(u) /\ v[i] = u[i] /\ v[j] = e
      BY <1>3, <1>4, <1>8, <2>0, <2>2
    <3>2. QED
      BY <1>6, <3>1
  <2>3. CASE j > Len(u)
    <3>1. j - Len(u) \in 1..Len(b) /\ v[j] = b[j - Len(u)]
      BY <1>4, <2>0, <2>3
    <3>2. CASE i <= Len(u)
      <4>1. i \in 1..Len(u) /\ v[i] = u[i]
        BY <1>4, <2>0, <3>2
      <4>2. QED
        BY <1>5, <1>6, <1>7, <3>1, <4>1
    <3>3. CASE i > Len(u)
      <4>1. i - Len(u) \in 1..Len(b) /\ v[i] = b[i - Len(u)] /\ i - Len(u) < j - Len(u)
        BY <1>4, <1>8, <2>0, <3>3
      <4>2. QED
        BY <1>1, <1>3, <3>1, <4>1 DEF Ordered
    <3>4. QED
      BY <2>0, <3>2, <3>3
  <2>4. QED
    BY <1>3, <2>0, <2>1, <2>2, <2>3
<1>9. QED
  BY <1>2, <1>4, <1>8 DEF Ordered

\* And comes last among those of its level.
LEMMA InsertKeepsLevel ==
  ASSUME NEW s \in Seq(TableEntry), NEW e \in TableEntry, NEW l \in Nat
  PROVE  Having(InsertByLevel(s, e), Of(l)) = Having(Append(s, e), Of(l))
<1> DEFINE a == Having(s, Low(e))
           b == Having(s, High(e))
           h == Having(s, Of(l))
<1>1. ASSUME NEW P
      PROVE  /\ Having(s, P) \in Seq(TableEntry)
             /\ \A t \in Seq(TableEntry) :
                  Having(Append(t, e), P) = IF e \in P THEN Append(Having(t, P), e) ELSE Having(t, P)
  <2>1. \A t \in Seq(TableEntry), x \in TableEntry :
          Having(Append(t, x), P) = IF x \in P THEN Append(Having(t, P), x) ELSE Having(t, P)
    BY HavingUnfolds
  <2>2. Having(s, P) \in Seq(TableEntry)
    BY HavingUnfolds
  <2>3. QED
    BY <2>1, <2>2
<1>2. /\ Having(a, Of(l)) = Having(s, Low(e) \cap Of(l))
      /\ Having(b, Of(l)) = Having(s, High(e) \cap Of(l))
  BY HavingAgain
<1>3. a \in Seq(TableEntry) /\ b \in Seq(TableEntry) /\ h \in Seq(TableEntry)
  BY <1>1
<1>4. InsertByLevel(s, e) = Append(a, e) \o b
  BY LevelsHaving
<1>5. Having(Append(s, e), Of(l)) = IF e \in Of(l) THEN Append(h, e) ELSE h
  BY <1>1
<1>6. Having(s, {}) = <<>>
  <2>1. {i \in DOMAIN s : s[i] \in {}} \cap DOMAIN s = {}
    OBVIOUS
  <2>2. QED
    BY <2>1, SiftsNone DEF Having
<1>7. e.level \in Nat /\ \A x \in TableEntry : x.level \in Nat
  BY DEF TableEntry
<1>8. e \in Of(l) <=> e.level = l
  BY DEF Of
<1>9. IF l <= e.level THEN Low(e) \cap Of(l) = Of(l) /\ High(e) \cap Of(l) = {}
      ELSE Low(e) \cap Of(l) = {} /\ High(e) \cap Of(l) = Of(l)
  BY <1>7 DEF Low, High, Of
<1> HIDE DEF a, b, h
<1>10. Append(a, e) \in Seq(TableEntry)
  BY <1>3, AppendProperties
<1>11. Having(Append(a, e) \o b, Of(l)) = Having(Append(a, e), Of(l)) \o Having(b, Of(l))
  BY <1>3, <1>10, HavingBoth
<1>12. Having(Append(a, e), Of(l)) =
         IF e \in Of(l) THEN Append(Having(a, Of(l)), e) ELSE Having(a, Of(l))
  BY <1>1, <1>3
<1>13. CASE l <= e.level
  <2>1. Having(a, Of(l)) = h /\ Having(b, Of(l)) = <<>>
    BY <1>2, <1>6, <1>9, <1>13 DEF h
  <2>2. h \o <<>> = h /\ Append(h, e) \o <<>> = Append(h, e)
    <3>1. Append(h, e) \in Seq(TableEntry)
      BY <1>3, AppendProperties
    <3>2. QED
      BY <1>3, <3>1, ConcatEmptySeq
  <2>3. QED
    BY <1>4, <1>5, <1>11, <1>12, <2>1, <2>2
<1>14. CASE ~(l <= e.level)
  <2>0. e \notin Of(l)
    BY <1>7, <1>8, <1>14
  <2>1. Having(a, Of(l)) = <<>> /\ Having(b, Of(l)) = h
    BY <1>2, <1>6, <1>9, <1>14 DEF h
  <2>2. <<>> \o h = h
    BY <1>3, ConcatEmptySeq
  <2>3. QED
    BY <1>4, <1>5, <1>11, <1>12, <2>0, <2>1, <2>2
<1>15. QED
  BY <1>13, <1>14

SortingBy(f, entries) ==
  /\ SortByLevel(entries) = f[Len(entries)] /\ f[0] = <<>>
  /\ \A i \in 1..Len(entries) : f[i] = InsertByLevel(f[i - 1], entries[i])

\* What the recursion of the sort computes.
LEMMA SortUnfolds ==
  ASSUME NEW entries \in Seq(TableEntry)
  PROVE  \E f : SortingBy(f, entries)
<1> DEFINE length == Len(entries)
           step == [p \in Nat \X Seq(TableEntry) |->
                      IF p[1] \in 1..length THEN InsertByLevel(p[2], entries[p[1]]) ELSE p[2]]
           Is(f) == f = [i \in 0..length |->
                           IF i = 0 THEN <<>> ELSE InsertByLevel(f[i - 1], entries[i])]
           sorted == CHOOSE f : Is(f)
<1>1. length \in Nat /\ \A i \in 1..length : entries[i] \in TableEntry
  BY LenProperties, ElementOfSeq
<1>2. SortByLevel(entries) = sorted[length]
  BY DEF SortByLevel
<1>3. <<>> \in Seq(TableEntry)
  OBVIOUS
<1>4. \A s \in Seq(TableEntry), e \in TableEntry : InsertByLevel(s, e) \in Seq(TableEntry)
  <2>1. ASSUME NEW s \in Seq(TableEntry), NEW e \in TableEntry
        PROVE  InsertByLevel(s, e) \in Seq(TableEntry)
    <3> DEFINE a == Append(Having(s, Low(e)), e)
               b == Having(s, High(e))
    <3>1. Having(s, Low(e)) \in Seq(TableEntry) /\ b \in Seq(TableEntry)
      BY HavingUnfolds
    <3>2. a \in Seq(TableEntry)
      BY <3>1, AppendProperties
    <3>3. InsertByLevel(s, e) = a \o b
      BY LevelsHaving
    <3> HIDE DEF a, b
    <3>4. QED
      BY <3>1, <3>2, <3>3, ConcatProperties
  <2>2. QED
    BY <2>1
<1> HIDE DEF length
<1>5. step \in [(Nat \X Seq(TableEntry)) -> Seq(TableEntry)]
  <2>1. ASSUME NEW i \in Nat, NEW t \in Seq(TableEntry)
        PROVE  (IF i \in 1..length THEN InsertByLevel(t, entries[i]) ELSE t) \in Seq(TableEntry)
    BY <1>1, <1>4
  <2>2. QED
    BY <2>1
<1>6. PICK g \in [0..length -> Seq(TableEntry)] : Recursive(g, 0..length, <<>>, step)
  <2> HIDE DEF step
  <2>1. QED
    BY <1>1, <1>3, <1>5, RecursionUpTo
<1>7. g[0] = <<>> /\ \A i \in 1..length : g[i] = InsertByLevel(g[i - 1], entries[i])
  <2>1. \A i \in 1..length : i \in (0..length) \ {0} /\ i \in Nat /\ i - 1 \in 0..length
    BY <1>1
  <2>2. \A i \in 1..length : g[i] = step[<<i, g[i - 1]>>]
    BY <1>6, <2>1, Zenon DEF Recursive
  <2>3. g[0] = <<>>
    BY <1>6 DEF Recursive
  <2>4. \A i \in 1..length : <<i, g[i - 1]>> \in Nat \X Seq(TableEntry)
    BY <1>6, <2>1
  <2>5. QED
    BY <2>2, <2>3, <2>4
<1>8. Is(g)
  <2>1. \A i \in 0..length : i # 0 => i \in 1..length
    BY <1>1
  <2>2. g = [i \in 0..length |-> g[i]]
    BY <1>6
  <2>3. QED
    BY <1>7, <2>1, <2>2
<1> HIDE DEF step
<1>9. Is(sorted)
  <2> HIDE DEF Is
  <2>1. QED
    BY <1>8
<1>10. sorted[0] = <<>> /\ \A i \in 1..length : sorted[i] = InsertByLevel(sorted[i - 1], entries[i])
  <2> HIDE DEF sorted
  <2>1. \A i \in 0..length :
          sorted[i] = IF i = 0 THEN <<>> ELSE InsertByLevel(sorted[i - 1], entries[i])
    BY <1>9
  <2>2. 0 \in 0..length /\ \A i \in 1..length : i \in 0..length /\ i # 0
    BY <1>1
  <2>3. QED
    BY <2>1, <2>2
<1> HIDE DEF sorted
<1>11. SortingBy(sorted, entries)
  BY <1>2, <1>10 DEF SortingBy, length
<1>12. QED
  BY <1>11

\* A list that no neighbours are out of order in is in order.
LEMMA NeighboursOrdered ==
  ASSUME NEW s \in Seq(TableEntry), InOrder(s)
  PROVE  Ordered(s)
<1>1. /\ Len(s) \in Nat /\ DOMAIN s = 1..Len(s)
      /\ \A i \in 1..Len(s) : s[i].level \in Nat
  <2>1. \A i \in 1..Len(s) : s[i] \in TableEntry
    BY ElementOfSeq
  <2>2. QED
    BY <2>1, LenProperties DEF TableEntry
<1> DEFINE good == {n \in Nat : \A j \in 1..Len(s) : j <= n => \A i \in 1..j : s[i].level <= s[j].level}
<1>2. 0 \in good
  OBVIOUS
<1>3. ASSUME NEW n \in Nat, n \in good PROVE n + 1 \in good
  <2>1. ASSUME NEW j \in 1..Len(s), j <= n + 1, NEW i \in 1..j PROVE s[i].level <= s[j].level
    <3>1. CASE j <= n
      BY <1>3, <2>1, <3>1
    <3>2. CASE i = j
      BY <1>1, <2>1, <3>2
    <3>3. CASE j = n + 1 /\ i # j
      <4>1. n \in 1..(Len(s) - 1) /\ n \in 1..Len(s) /\ i \in 1..n /\ n <= n /\ j = n + 1 /\ i \in 1..Len(s)
        BY <1>1, <2>1, <3>3
      <4>2. s[i].level <= s[n].level
        BY <1>3, <4>1
      <4>3. s[n].level <= s[j].level
        BY <4>1 DEF InOrder
      <4>4. s[i].level \in Nat /\ s[n].level \in Nat /\ s[j].level \in Nat
        BY <1>1, <2>1, <4>1
      <4>5. QED
        BY <4>2, <4>3, <4>4
    <3>4. QED
      BY <1>1, <2>1, <3>1, <3>2, <3>3
  <2>2. QED
    BY <2>1
<1> HIDE DEF good
<1>4. Nat \subseteq good
  BY <1>2, <1>3, NatSetInduction
<1>5. ASSUME NEW i \in DOMAIN s, NEW j \in DOMAIN s, i < j PROVE s[i].level <= s[j].level
  <2>1. j \in good /\ j \in 1..Len(s) /\ i \in 1..j /\ j <= j
    BY <1>1, <1>4, <1>5
  <2>2. QED
    BY <2>1 DEF good
<1>6. QED
  BY <1>5 DEF Ordered

\* A table of a score is sorted, and has of each level what came, as it came.
LEMMA Sorts ==
  ASSUME NEW entries \in Seq(TableEntry)
  PROVE  SortedFrom(ByLevel(entries), entries)
<1> DEFINE of == ByLevel(entries)
<1>0. \A s \in Seq(TableEntry) : \A l \in Levels(s) : l \in Nat
  <2>1. \A s \in Seq(TableEntry) : \A i \in DOMAIN s : s[i] \in TableEntry
    BY LenProperties, ElementOfSeq
  <2>2. QED
    BY <2>1 DEF Levels, TableEntry
<1>1. CASE InOrder(entries)
  <2>1. of = entries /\ Ordered(entries)
    BY <1>1, NeighboursOrdered DEF ByLevel
  <2> HIDE DEF of
  <2>2. SortedFrom(of, entries)
    BY <2>1 DEF SortedFrom, Ordered
  <2>3. QED
    BY <2>2 DEF of
<1>2. CASE ~InOrder(entries)
  <2>1. PICK f : SortingBy(f, entries)
    BY SortUnfolds
  <2>2. of = f[Len(entries)]
    BY <1>2, <2>1 DEF ByLevel, SortingBy
  <2> DEFINE Part(n) == SubSeq(entries, 1, n)
             Is(n) == /\ f[n] \in Seq(TableEntry) /\ Ordered(f[n])
                      /\ \A l \in Nat : Having(f[n], Of(l)) = Having(Part(n), Of(l))
             good == {n \in Nat : n <= Len(entries) => Is(n)}
  <2>3. Len(entries) \in Nat /\ \A i \in 1..Len(entries) : entries[i] \in TableEntry
    BY LenProperties, ElementOfSeq
  <2>4. 0 \in good
    <3>1. f[0] = <<>> /\ Part(0) = <<>> /\ <<>> \in Seq(TableEntry)
      BY <2>1, SubSeqEmpty DEF SortingBy
    <3>2. Ordered(<<>>)
      BY DEF Ordered
    <3>3. QED
      BY <3>1, <3>2
  <2>5. ASSUME NEW n \in Nat, n \in good PROVE n + 1 \in good
    <3>1. SUFFICES ASSUME n + 1 <= Len(entries) PROVE Is(n + 1)
      OBVIOUS
    <3> DEFINE e == entries[n + 1]
               g == f[n]
               p == Part(n)
    <3>2. n + 1 \in 1..Len(entries) /\ (n + 1) - 1 = n /\ n <= Len(entries) /\ Is(n)
      BY <2>3, <2>5, <3>1
    <3>3. f[n + 1] = InsertByLevel(g, e) /\ e \in TableEntry
      BY <2>1, <2>3, <3>2 DEF SortingBy
    <3>4. Part(n + 1) = Append(p, e) /\ p \in Seq(TableEntry)
      BY <3>2, SubSeqAppend
    <3>5. /\ g \in Seq(TableEntry) /\ Ordered(g)
          /\ \A l \in Nat : Having(g, Of(l)) = Having(p, Of(l))
      BY <3>2
    <3> HIDE DEF g, p, e
    <3>6. f[n + 1] \in Seq(TableEntry) /\ Ordered(f[n + 1])
      BY <3>3, <3>5, InsertOrdered
    <3>7. ASSUME NEW l \in Nat PROVE Having(f[n + 1], Of(l)) = Having(Part(n + 1), Of(l))
      <4>1. Having(f[n + 1], Of(l)) = Having(Append(g, e), Of(l))
        BY <3>3, <3>5, InsertKeepsLevel
      <4>2. \A t \in Seq(TableEntry), x \in TableEntry :
              Having(Append(t, x), Of(l)) = IF x \in Of(l) THEN Append(Having(t, Of(l)), x) ELSE Having(t, Of(l))
        BY HavingUnfolds
      <4>3. Having(g, Of(l)) = Having(p, Of(l))
        BY <3>5
      <4>4. /\ Having(Append(g, e), Of(l)) = IF e \in Of(l) THEN Append(Having(g, Of(l)), e) ELSE Having(g, Of(l))
            /\ Having(Append(p, e), Of(l)) = IF e \in Of(l) THEN Append(Having(p, Of(l)), e) ELSE Having(p, Of(l))
        BY <3>3, <3>4, <3>5, <4>2
      <4>5. QED
        BY <3>4, <4>1, <4>3, <4>4, Zenon
    <3>8. QED
      BY <3>6, <3>7
  <2> HIDE DEF good
  <2>6. Len(entries) \in good
    BY <2>3, <2>4, <2>5, NatSetInduction
  <2>7. Is(Len(entries)) /\ Part(Len(entries)) = entries
    BY <2>3, <2>6, SubSeqFull DEF good
  <2>8. /\ of \in Seq(TableEntry) /\ Ordered(of)
        /\ \A l \in Nat : Having(of, Of(l)) = Having(entries, Of(l))
    BY <2>2, <2>7
  <2> HIDE DEF of
  <2>9. ASSUME NEW l \in Levels(of) \cup Levels(entries) PROVE AtLevel(of, l) = AtLevel(entries, l)
    <3>1. l \in Nat
      BY <1>0, <2>8
    <3>2. AtLevel(of, l) = Having(of, Of(l)) /\ AtLevel(entries, l) = Having(entries, Of(l))
      BY <2>8, LevelsHaving
    <3>3. QED
      BY <2>8, <3>1, <3>2
  <2>10. SortedFrom(of, entries)
    BY <2>8, <2>9 DEF SortedFrom, Ordered
  <2>11. QED
    BY <2>10 DEF of
<1>3. QED
  BY <1>1, <1>2

-----------------------------------------------------------------------------
(* An answer in progress. *)

Kinds == Known \cup {None}

LEMMA MemberIs ==
  ASSUME NEW members \in Seq(Member), NEW i \in 1..Len(members)
  PROVE  /\ members[i].key \in {"type", "other"} \cup DataMembers
         /\ members[i].key = "type" => members[i].type \in STRING /\ members[i].type # None
         /\ members[i].key \in DataMembers => members[i].value \in Value
<1>1. members[i] \in Member
  BY ElementOfSeq
<1> DEFINE m == members[i]
<1>2. m \in Member
  BY <1>1
<1> HIDE DEF m
<1>3. /\ m.key \in {"type", "other"} \cup DataMembers
      /\ m.key = "type" => m.type \in STRING
      /\ m.key \in DataMembers => m.value \in Value
  BY <1>2 DEF Member, DataMembers
<1>4. QED
  BY <1>3, DecodeAssumption DEF m

LEMMA LastLater ==
  ASSUME NEW k \in Nat, NEW members, NEW i, NEW m, LastAt(i, m, members, k), members[k + 1].key # m
  PROVE  LastAt(i, m, members, k + 1)
<1>1. \A j \in 1..(k + 1) : j = k + 1 \/ j \in 1..k
  OBVIOUS
<1>2. QED
  BY <1>1 DEF LastAt

LEMMA LastNow ==
  ASSUME NEW k \in Nat, NEW members, NEW m, members[k + 1].key = m
  PROVE  LastAt(k + 1, m, members, k + 1)
BY DEF LastAt

\* A member that is another, and leaves the type seen, leaves what a slot tells.
LEMMA SlotOfOther ==
  ASSUME NEW k \in Nat, NEW members, NEW slot, NEW expected, NEW seen, NEW m,
         SlotTells(slot, expected, seen, m, members, k), members[k + 1].key # m
  PROVE  SlotTells(slot, expected, seen, m, members, k + 1)
<1>1. (\A j \in 1..(k + 1) : j = k + 1 \/ j \in 1..k) /\ \A i \in 1..k : i \in 1..(k + 1)
  OBVIOUS
<1>2. CASE MissingTells(slot, expected, seen, m, members, k)
  BY <1>1, <1>2 DEF SlotTells, MissingTells
<1>3. CASE HeldTells(slot, expected, seen, m, members, k)
  BY <1>1, <1>3, LastLater DEF SlotTells, HeldTells
<1>4. CASE ReadTells(slot, expected, seen, m, members, k)
  BY <1>1, <1>4, LastLater DEF SlotTells, ReadTells
<1>5. QED
  BY <1>2, <1>3, <1>4 DEF SlotTells

\* A type that is accepted tells a slot's kind, or that it is skipped.
LEMMA SlotOfType ==
  ASSUME NEW k \in Nat, NEW members, NEW slot, NEW expected \in Kinds, NEW seen, NEW m \in DataMembers, NEW t,
         SlotTells(slot, expected, seen, m, members, k), members[k + 1].key = "type",
         expected \in {None, t}, seen \in {None, t}, t # None
  PROVE  SlotTells(slot, expected, t, m, members, k + 1)
<1>0. members[k + 1].key # m
  BY DEF DataMembers
<1>1. SlotTells(slot, expected, seen, m, members, k + 1)
  BY <1>0, SlotOfOther
<1>2. Skipped(expected, seen, m) => Skipped(expected, t, m)
  BY DEF Skipped, KindOf
<1>3. CASE MissingTells(slot, expected, seen, m, members, k + 1)
  BY <1>2, <1>3 DEF SlotTells, MissingTells
<1>4. CASE HeldTells(slot, expected, seen, m, members, k + 1)
  BY <1>2, <1>4 DEF SlotTells, HeldTells
<1>5. CASE ReadTells(slot, expected, seen, m, members, k + 1)
  <2>1. KindOf(expected, seen) # None
    BY <1>5 DEF ReadTells
  <2>2. KindOf(expected, t) = KindOf(expected, seen)
    BY <2>1 DEF KindOf, Kinds
  <2>3. QED
    BY <1>5, <2>2 DEF SlotTells, ReadTells
<1>6. QED
  BY <1>1, <1>3, <1>4, <1>5 DEF SlotTells

LEMMA SlotOfSkipped ==
  ASSUME NEW k \in Nat, NEW members, NEW slot, NEW expected, NEW seen, NEW m,
         SlotTells(slot, expected, seen, m, members, k), Skipped(expected, seen, m)
  PROVE  SlotTells(slot, expected, seen, m, members, k + 1)
<1>1. \A i \in 1..k : i \in 1..(k + 1)
  OBVIOUS
<1>2. CASE MissingTells(slot, expected, seen, m, members, k)
  BY <1>2 DEF SlotTells, MissingTells
<1>3. CASE HeldTells(slot, expected, seen, m, members, k)
  BY <1>1, <1>3 DEF SlotTells, HeldTells
<1>4. CASE ReadTells(slot, expected, seen, m, members, k)
  BY <1>4 DEF SlotTells, ReadTells, Skipped, KindOf
<1>5. QED
  BY <1>2, <1>3, <1>4 DEF SlotTells

LEMMA SeenOfOther ==
  ASSUME NEW k \in Nat, NEW members, NEW expected, NEW seen,
         SeenTells(expected, seen, members, k), members[k + 1].key # "type"
  PROVE  SeenTells(expected, seen, members, k + 1)
<1>1. (\A j \in 1..(k + 1) : j = k + 1 \/ j \in 1..k) /\ \A i \in 1..k : i \in 1..(k + 1)
  OBVIOUS
<1>2. QED
  BY <1>1 DEF SeenTells, Untyped

LEMMA SeenOfType ==
  ASSUME NEW k \in Nat, NEW members, NEW expected, NEW seen, NEW t,
         SeenTells(expected, seen, members, k), members[k + 1].key = "type", members[k + 1].type = t,
         expected \in {None, t}, seen \in {None, t}, t # None, t # "not_text"
  PROVE  SeenTells(expected, t, members, k + 1)
<1>1. (\A j \in 1..(k + 1) : j = k + 1 \/ j \in 1..k) /\ k + 1 \in 1..(k + 1)
  OBVIOUS
<1>2. QED
  BY <1>1 DEF SeenTells, Untyped

\* The slots of an answer that has just begun.
LEMMA NothingSeen ==
  ASSUME NEW expected, NEW members
  PROVE  Collected([NoAnswer EXCEPT !.wanted = TRUE], expected, members, 0)
<1> DEFINE a == [NoAnswer EXCEPT !.wanted = TRUE]
<1>1. a.seen = None /\ \A m \in DataMembers : a.slots[m].how = "missing"
  BY DEF NoAnswer, Missing
<1> HIDE DEF a
<1>2. SeenTells(expected, a.seen, members, 0)
  BY <1>1 DEF SeenTells, Untyped
<1>3. \A m \in DataMembers : SlotTells(a.slots[m], expected, a.seen, m, members, 0)
  BY <1>1 DEF SlotTells, MissingTells
<1>4. QED
  BY <1>2, <1>3 DEF Collected, a

\* A step that leaves the set as it is.
SameSet(e, d) == e.status = d.status /\ e.has = d.has /\ e.answers = d.answers

BadType(expected, seen, t) == t = "not_text" \/ expected \notin {None, t} \/ seen \notin {None, t}

LEMMA OnTypeTells ==
  ASSUME NEW s, NEW d, NEW n, NEW k \in Nat, NEW members \in Seq(Member), k + 1 \in 1..Len(members),
         members[k + 1].key = "type", Shaped(d), Expected(s, n) \in Kinds,
         Collected(d.answer, Expected(s, n), members, k)
  PROVE  LET t == members[k + 1].type
             e == OnType(s, d, n, t)
         IN  \/ /\ SameSet(e, d) /\ e.answer.wanted = d.answer.wanted
                /\ Collected(e.answer, Expected(s, n), members, k + 1)
             \/ /\ e = Failed(d, "type", <<"answers", n, "type">>)
                /\ BadType(Expected(s, n), d.answer.seen, t)
<1> DEFINE t == members[k + 1].type
           x == Expected(s, n)
           e == OnType(s, d, n, t)
           f == [d EXCEPT !.answer.seen = t]
<1>1. CASE BadType(x, d.answer.seen, t)
  <2>1. e = Failed(d, "type", <<"answers", n, "type">>)
    BY <1>1 DEF OnType, BadType
  <2>2. QED
    BY <1>1, <2>1
<1>2. CASE ~BadType(x, d.answer.seen, t)
  <2>1. e = f
    BY <1>2 DEF OnType, BadType
  <2>2. SameSet(f, d) /\ f.answer.wanted = d.answer.wanted /\ f.answer.seen = t /\ f.answer.slots = d.answer.slots
    BY DEF SameSet, Shaped
  <2>3. t # None /\ t # "not_text" /\ x \in {None, t} /\ d.answer.seen \in {None, t}
    BY <1>2, MemberIs DEF BadType
  <2> HIDE DEF f, t, x
  <2>4. /\ SeenTells(x, d.answer.seen, members, k)
        /\ \A m \in DataMembers : SlotTells(d.answer.slots[m], x, d.answer.seen, m, members, k)
    BY DEF Collected, x
  <2>5. SeenTells(x, t, members, k + 1)
    BY <2>3, <2>4, SeenOfType DEF t
  <2>6. ASSUME NEW m \in DataMembers PROVE SlotTells(d.answer.slots[m], x, t, m, members, k + 1)
    <3>1. SlotTells(d.answer.slots[m], x, d.answer.seen, m, members, k) /\ x \in Kinds
      BY <2>4 DEF x
    <3>2. QED
      BY <2>3, <3>1, SlotOfType
  <2>7. Collected(f.answer, x, members, k + 1)
    BY <2>2, <2>5, <2>6 DEF Collected
  <2>8. QED
    BY <2>1, <2>2, <2>7 DEF x, t
<1>3. QED
  BY <1>1, <1>2

LEMMA OnDataTells ==
  ASSUME NEW s, NEW d, NEW n, NEW k \in Nat, NEW members \in Seq(Member), k + 1 \in 1..Len(members),
         NEW m \in DataMembers, members[k + 1].key = m, Shaped(d), Expected(s, n) \in Kinds,
         Collected(d.answer, Expected(s, n), members, k)
  PROVE  LET v == members[k + 1].value
             kind == KindOf(Expected(s, n), d.answer.seen)
             e == OnData(s, d, n, m, v)
         IN  \/ /\ SameSet(e, d) /\ e.answer.wanted = d.answer.wanted
                /\ Collected(e.answer, Expected(s, n), members, k + 1)
             \/ /\ e = Failed(d, "shape", <<"answers", n, m>>)
                /\ kind # None /\ BelongsTo(m, kind) /\ ~Fits(m, kind, v)
<1> DEFINE v == members[k + 1].value
           x == Expected(s, n)
           seen == d.answer.seen
           kind == KindOf(x, seen)
           e == OnData(s, d, n, m, v)
           Put(slot) == [d EXCEPT !.answer.slots[m] = slot]
<1>0. KindSoFar(s, d, n) = kind
  BY DEF KindSoFar, KindOf
<1>1. SeenTells(x, seen, members, k) /\ members[k + 1].key # "type"
  BY DEF Collected, DataMembers
<1>2. SeenTells(x, seen, members, k + 1)
  BY <1>1, SeenOfOther
<1>3. ASSUME NEW o \in DataMembers, o # m PROVE SlotTells(d.answer.slots[o], x, seen, o, members, k + 1)
  <2>1. SlotTells(d.answer.slots[o], x, seen, o, members, k)
    BY DEF Collected
  <2>2. QED
    BY <1>3, <2>1, SlotOfOther
<1>4. ASSUME NEW slot, SlotTells(slot, x, seen, m, members, k + 1)
      PROVE  /\ SameSet(Put(slot), d) /\ Put(slot).answer.wanted = d.answer.wanted
             /\ Collected(Put(slot).answer, x, members, k + 1)
  <2>1. /\ SameSet(Put(slot), d) /\ Put(slot).answer.wanted = d.answer.wanted
        /\ Put(slot).answer.seen = seen
        /\ Put(slot).answer.slots = [d.answer.slots EXCEPT ![m] = slot]
    BY DEF SameSet, Shaped
  <2>2. \A o \in DataMembers : Put(slot).answer.slots[o] = IF o = m THEN slot ELSE d.answer.slots[o]
    BY <2>1 DEF Shaped
  <2> HIDE DEF Put, x, seen
  <2>3. \A o \in DataMembers : SlotTells(Put(slot).answer.slots[o], x, seen, o, members, k + 1)
    BY <1>3, <1>4, <2>2
  <2>4. QED
    BY <1>2, <2>1, <2>3 DEF Collected
<1>5. CASE kind # None /\ BelongsTo(m, kind)
  <2>1. CASE Fits(m, kind, v)
    <3> DEFINE slot == [how |-> "read", kind |-> kind, value |-> v]
    <3>1. e = Put(slot)
      BY <1>0, <1>5, <2>1 DEF OnData
    <3>2. LastAt(k + 1, m, members, k + 1) /\ k + 1 \in 1..(k + 1)
      BY LastNow
    <3>3. slot.how = "read" /\ slot.kind = kind /\ slot.value = v
      OBVIOUS
    <3> HIDE DEF slot, kind
    <3>4. ReadTells(slot, x, seen, m, members, k + 1)
      BY <1>5, <2>1, <3>2, <3>3 DEF ReadTells, kind
    <3> HIDE DEF Put, x, seen
    <3>5. QED
      BY <1>4, <3>1, <3>4 DEF SlotTells, x
  <2>2. CASE ~Fits(m, kind, v)
    <3>1. e = Failed(d, "shape", <<"answers", n, m>>)
      BY <1>0, <1>5, <2>2 DEF OnData
    <3>2. QED
      BY <1>5, <2>2, <3>1
  <2>3. QED
    BY <2>1, <2>2
<1>6. CASE ~(kind # None /\ BelongsTo(m, kind)) /\ kind = None /\ seen = None
  <2> DEFINE slot == [how |-> "held", value |-> v]
  <2>1. e = Put(slot)
    BY <1>0, <1>6 DEF OnData
  <2>2. LastAt(k + 1, m, members, k + 1) /\ k + 1 \in 1..(k + 1)
    BY LastNow
  <2>3. slot.how = "held" /\ slot.value = v /\ x = None
    BY <1>6 DEF KindOf
  <2>4. Untyped(members, k + 1)
    BY <1>2, <1>6 DEF SeenTells
  <2> HIDE DEF slot, kind, x, seen
  <2>5. HeldTells(slot, x, seen, m, members, k + 1)
    BY <2>2, <2>3, <2>4 DEF HeldTells
  <2> HIDE DEF Put
  <2>6. QED
    BY <1>4, <2>1, <2>5 DEF SlotTells, x
<1>7. CASE ~(kind # None /\ BelongsTo(m, kind)) /\ ~(kind = None /\ seen = None)
  <2>1. e = d
    BY <1>0, <1>7 DEF OnData
  <2>2. Skipped(x, seen, m)
    BY <1>7 DEF Skipped, KindOf
  <2>3. SlotTells(d.answer.slots[m], x, seen, m, members, k)
    BY DEF Collected
  <2>4. SlotTells(d.answer.slots[m], x, seen, m, members, k + 1)
    BY <2>2, <2>3, SlotOfSkipped
  <2>5. \A o \in DataMembers : SlotTells(d.answer.slots[o], x, seen, o, members, k + 1)
    BY <1>3, <2>4
  <2>6. QED
    BY <1>2, <2>1, <2>5 DEF Collected, SameSet
<1>8. QED
  BY <1>5, <1>6, <1>7

LEMMA NeedsBelong ==
  ASSUME NEW kind \in Known
  PROVE  /\ Len(Needs(kind)) \in Nat
         /\ \A i \in 1..Len(Needs(kind)) :
              Needs(kind)[i] \in DataMembers /\ BelongsTo(Needs(kind)[i], kind)
         /\ ToSet(Needs(kind)) = {Needs(kind)[i] : i \in 1..Len(Needs(kind))}
         /\ kind = "score" => "legend" \in ToSet(Needs(kind)) /\ "probabilities" \in ToSet(Needs(kind))
<1>1. CASE kind = "noul"
  <2> DEFINE needs == <<"noul">>
  <2>1. Needs(kind) = needs
    BY <1>1 DEF Needs
  <2>2. Len(needs) = 1 /\ DOMAIN needs = 1..1
    OBVIOUS
  <2>3. \A i \in 1..1 : i = 1
    OBVIOUS
  <2>4. needs[1] = "noul"
    OBVIOUS
  <2> HIDE DEF needs
  <2>5. \A i \in 1..1 : needs[i] \in DataMembers /\ BelongsTo(needs[i], kind)
    BY <1>1, <2>3, <2>4 DEF DataMembers, BelongsTo
  <2>6. ToSet(needs) = {needs[i] : i \in 1..Len(needs)}
    BY <2>2 DEF ToSet
  <2>7. QED
    BY <1>1, <2>1, <2>2, <2>5, <2>6
<1>2. CASE kind = "choice"
  <2> DEFINE needs == <<"choice", "confidence", "probabilities">>
  <2>1. Needs(kind) = needs
    BY <1>2 DEF Needs
  <2>2. Len(needs) = 3 /\ DOMAIN needs = 1..3
    OBVIOUS
  <2>3. \A i \in 1..3 : i = 1 \/ i = 2 \/ i = 3
    OBVIOUS
  <2>4. needs[1] = "choice" /\ needs[2] = "confidence" /\ needs[3] = "probabilities"
    OBVIOUS
  <2> HIDE DEF needs
  <2>5. \A i \in 1..3 : needs[i] \in DataMembers /\ BelongsTo(needs[i], kind)
    BY <1>2, <2>3, <2>4 DEF DataMembers, BelongsTo
  <2>6. ToSet(needs) = {needs[i] : i \in 1..Len(needs)}
    BY <2>2 DEF ToSet
  <2>7. QED
    BY <1>2, <2>1, <2>2, <2>5, <2>6
<1>3. CASE kind = "score"
  <2> DEFINE needs == <<"score", "confidence", "legend", "probabilities">>
  <2>1. Needs(kind) = needs
    BY <1>3 DEF Needs
  <2>2. Len(needs) = 4 /\ DOMAIN needs = 1..4
    OBVIOUS
  <2>3. \A i \in 1..4 : i = 1 \/ i = 2 \/ i = 3 \/ i = 4
    OBVIOUS
  <2>4. needs[1] = "score" /\ needs[2] = "confidence" /\ needs[3] = "legend" /\ needs[4] = "probabilities"
    OBVIOUS
  <2> HIDE DEF needs
  <2>5. \A i \in 1..4 : needs[i] \in DataMembers /\ BelongsTo(needs[i], kind)
    BY <1>3, <2>3, <2>4 DEF DataMembers, BelongsTo
  <2>6. ToSet(needs) = {needs[i] : i \in 1..Len(needs)}
    BY <2>2 DEF ToSet
  <2>7. needs[3] \in ToSet(needs) /\ needs[4] \in ToSet(needs)
    BY <2>2, <2>6
  <2>8. QED
    BY <2>1, <2>2, <2>4, <2>5, <2>6, <2>7
<1>4. QED
  BY <1>1, <1>2, <1>3 DEF Known

LEMMA Mins ==
  ASSUME NEW I \in SUBSET Nat, I # {}
  PROVE  Min(I) \in I
<1>1. \E m \in I : \A k \in I : m <= k
  BY Least
<1>2. QED
  BY <1>1 DEF Min

LEMMA FirstFaultIs ==
  ASSUME NEW d, NEW kind
  PROVE  LET FaultAt(i) == Fault(d.answer.slots[Needs(kind)[i]], Needs(kind)[i], kind)
             first == FirstFault(d, kind)
         IN  IF first = 0 THEN \A i \in 1..Len(Needs(kind)) : FaultAt(i) = None
             ELSE first \in 1..Len(Needs(kind)) /\ FaultAt(first) # None
<1> DEFINE FaultAt(i) == Fault(d.answer.slots[Needs(kind)[i]], Needs(kind)[i], kind)
           I == {i \in 1..Len(Needs(kind)) : FaultAt(i) # None}
           first == FirstFault(d, kind)
<1>1. first = IF I # {} THEN Min(I) ELSE 0
  BY DEF FirstFault, SelectInSeq
<1>2. I \in SUBSET Nat /\ 0 \notin I
  OBVIOUS
<1>3. I # {} => Min(I) \in I
  BY <1>2, Mins
<1>4. QED
  BY <1>1, <1>2, <1>3

-----------------------------------------------------------------------------
(* The end of an answer. *)

\* What is at fault with a slot when an answer of a known kind ends.
SlotEnds(slot, expected, kind, m, members, k) ==
  LET fault == Fault(slot, m, kind)
  IN  /\ fault \in {None, "missing", "held"}
      /\ fault = None =>
           \E i \in 1..k : LastAt(i, m, members, k) /\ members[i].value = slot.value
      /\ fault = "missing" => \A i \in 1..k : members[i].key # m
      /\ fault = "held" =>
           /\ expected = None
           /\ \E i \in 1..k : /\ members[i].key = m /\ Untyped(members, i)
                              /\ ~Fits(m, kind, members[i].value)

LEMMA SlotFault ==
  ASSUME NEW slot, NEW expected, NEW kind \in Known, NEW m, NEW members, NEW k,
         SlotTells(slot, expected, kind, m, members, k), BelongsTo(m, kind)
  PROVE  SlotEnds(slot, expected, kind, m, members, k)
<1>1. kind # None /\ None \notin {"missing", "held", "mixed"}
  BY DecodeAssumption
<1>2. KindOf(expected, kind) = kind /\ ~Skipped(expected, kind, m)
  BY <1>1 DEF KindOf, Skipped
<1>3. CASE MissingTells(slot, expected, kind, m, members, k)
  <2>1. slot.how = "missing" /\ \A i \in 1..k : members[i].key # m
    BY <1>2, <1>3 DEF MissingTells
  <2>2. Fault(slot, m, kind) = "missing"
    BY <2>1 DEF Fault
  <2>3. QED
    BY <1>1, <2>1, <2>2 DEF SlotEnds
<1>4. CASE HeldTells(slot, expected, kind, m, members, k)
  <2>1. PICK i \in 1..k :
          /\ members[i].key = m /\ members[i].value = slot.value /\ Untyped(members, i)
          /\ LastAt(i, m, members, k)
    BY <1>2, <1>4 DEF HeldTells
  <2>2. slot.how = "held" /\ expected = None
    BY <1>4 DEF HeldTells
  <2>3. Fault(slot, m, kind) = IF Fits(m, kind, slot.value) THEN None ELSE "held"
    BY <2>2 DEF Fault
  <2>4. QED
    BY <1>1, <2>1, <2>2, <2>3 DEF SlotEnds
<1>5. CASE ReadTells(slot, expected, kind, m, members, k)
  <2>1. /\ slot.how = "read" /\ slot.kind = kind
        /\ \E i \in 1..k : LastAt(i, m, members, k) /\ members[i].value = slot.value
    BY <1>2, <1>5 DEF ReadTells
  <2>2. Fault(slot, m, kind) = None
    BY <2>1 DEF Fault
  <2>3. QED
    BY <1>1, <2>1, <2>2 DEF SlotEnds
<1>6. QED
  BY <1>3, <1>4, <1>5 DEF SlotTells

LEMMA LastOfIs ==
  ASSUME NEW members, NEW m, NEW i, Len(members) \in Nat, DOMAIN members = 1..Len(members),
         LastAt(i, m, members, Len(members))
  PROVE  LastOf(members, m) = members[i].value
<1> DEFINE is == {j \in DOMAIN members : members[j].key = m}
           last == CHOOSE j \in is : \A l \in is : l <= j
<1>1. i \in is /\ \A l \in is : l <= i
  BY DEF LastAt
<1>2. last \in is /\ \A l \in is : l <= last
  BY <1>1
<1>3. last = i
  BY <1>1, <1>2
<1>4. QED
  BY <1>3 DEF LastOf

LEMMA TypesAre ==
  ASSUME NEW members, Len(members) \in Nat, DOMAIN members = 1..Len(members), NEW expected, NEW seen,
         SeenTells(expected, seen, members, Len(members))
  PROVE  TypesOf(members) = IF seen = None THEN {} ELSE {seen}
BY DEF TypesOf, SeenTells, Untyped

\* An answer is built of the last value of each member, wherever the type stands.
LEMMA BuiltTold ==
  ASSUME NEW d, NEW expected, NEW e, NEW members \in Seq(Member), e.members = members,
         Collected(d.answer, expected, members, Len(members)), d.answer.seen \in Known,
         FirstFault(d, d.answer.seen) = 0
  PROVE  Told(Built(d), e) /\ Built(d).kind = d.answer.seen
<1> DEFINE kind == d.answer.seen
           needs == ToSet(Needs(kind))
           Slot(m) == d.answer.slots[m]
<1>1. Len(members) \in Nat /\ DOMAIN members = 1..Len(members) /\ kind # None
  BY LenProperties, DecodeAssumption
<1>2. TypesOf(members) = {kind}
  BY <1>1, TypesAre DEF Collected
<1>3. ASSUME NEW m \in needs
      PROVE  /\ m \in DataMembers
             /\ \E i \in 1..Len(members) :
                  LastAt(i, m, members, Len(members)) /\ members[i].value = Slot(m).value
  <2>1. PICK j \in 1..Len(Needs(kind)) : m = Needs(kind)[j]
    BY NeedsBelong
  <2>2. m \in DataMembers /\ BelongsTo(m, kind)
    BY <2>1, NeedsBelong
  <2>3. Fault(Slot(m), m, kind) = None
    BY <2>1, FirstFaultIs
  <2>4. SlotTells(Slot(m), expected, kind, m, members, Len(members))
    BY <2>2 DEF Collected
  <2>5. kind \in Known
    OBVIOUS
  <2> DEFINE slot == Slot(m)
             k == Len(members)
  <2> HIDE DEF Slot, kind, slot, k
  <2>6. SlotEnds(slot, expected, kind, m, members, k)
    BY <2>2, <2>4, <2>5, SlotFault DEF slot, k
  <2>7. QED
    BY <2>2, <2>3, <2>6 DEF SlotEnds, slot, k
<1>4. ASSUME NEW m \in needs
      PROVE  Slot(m).value = LastOf(members, m) /\ LastOf(members, m) \in Value
  <2>1. PICK i \in 1..Len(members) :
          LastAt(i, m, members, Len(members)) /\ members[i].value = Slot(m).value
    BY <1>3
  <2>2. LastOf(members, m) = members[i].value
    BY <1>1, <2>1, LastOfIs
  <2>3. members[i].key = m /\ m \in DataMembers
    BY <1>3, <2>1 DEF LastAt
  <2>4. members[i].value \in Value
    BY <2>3, MemberIs
  <2>5. QED
    BY <2>1, <2>2, <2>4
<1>5. (CHOOSE t \in TypesOf(members) : TRUE) = kind
  BY <1>2
<1>6. Built(d) = [kind |-> kind, members |-> [m \in needs |-> Reading(m, kind, Slot(m).value)]]
  BY DEF Built
<1>7. AnswerOf(members) = [kind |-> kind, members |-> [m \in needs |-> Reading(m, kind, LastOf(members, m))]]
  <2> DEFINE t == CHOOSE type \in TypesOf(members) : TRUE
  <2>1. AnswerOf(members) =
          [kind |-> t, members |-> [m \in ToSet(Needs(t)) |-> Reading(m, t, LastOf(members, m))]]
    BY DEF AnswerOf
  <2>2. t = kind
    BY <1>5
  <2> HIDE DEF t, kind
  <2>3. QED
    BY <2>1, <2>2
<1>8. Built(d) = AnswerOf(members)
  BY <1>4, <1>6, <1>7
<1>9. ASSUME kind = "score", NEW m \in {"legend", "probabilities"}
      PROVE  SortedFrom(Built(d).members[m], LastOf(members, m).entries)
  <2>1. m \in needs
    BY <1>9, NeedsBelong
  <2>2. LastOf(members, m).entries \in Seq(TableEntry)
    BY <1>4, <2>1 DEF Value
  <2>3. Built(d).members[m] = ByLevel(LastOf(members, m).entries)
    BY <1>4, <1>6, <1>9, <2>1 DEF Reading
  <2>4. QED
    BY <2>2, <2>3, Sorts
<1>10. QED
  BY <1>1, <1>6, <1>8, <1>9 DEF Told

\* How an answer that is read ends.
LEMMA BuildTells ==
  ASSUME NEW s, NEW d, NEW n, NEW members \in Seq(Member),
         Collected(d.answer, Expected(s, n), members, Len(members))
  PROVE  LET kind == d.answer.seen
             b == Build(s, d, n)
         IN  \/ kind = None /\ b = Failed(d, "type", <<"answers", n, "type">>)
             \/ kind # None /\ kind \notin Known /\ b = d
             \/ kind \in Known /\ FirstFault(d, kind) = 0 /\ b = Keep(s, d, n)
             \/ /\ kind \in Known
                /\ \E m \in DataMembers :
                     /\ b = Failed(d, "missing", <<"answers", n, m>>)
                     /\ BelongsTo(m, kind) /\ \A i \in 1..Len(members) : members[i].key # m
             \/ /\ kind \in Known /\ b = Failed(d, "held", <<"answers", n>>) /\ Expected(s, n) = None
                /\ \E m \in DataMembers : \E i \in 1..Len(members) :
                     /\ members[i].key = m /\ Untyped(members, i)
                     /\ ~Fits(m, kind, members[i].value)
<1> DEFINE kind == d.answer.seen
           fault == FirstFault(d, kind)
           m == Needs(kind)[fault]
           why == Fault(d.answer.slots[m], m, kind)
           b == Build(s, d, n)
<1>1. CASE kind = None
  BY <1>1 DEF Build
<1>2. CASE kind # None /\ kind \notin Known
  BY <1>2 DEF Build
<1>3. CASE kind # None /\ kind \in Known /\ fault = 0
  BY <1>3 DEF Build
<1>4. CASE kind # None /\ kind \in Known /\ fault # 0
  <2>1. fault \in 1..Len(Needs(kind)) /\ why # None
    BY <1>4, FirstFaultIs
  <2>2. m \in DataMembers /\ BelongsTo(m, kind)
    BY <1>4, <2>1, NeedsBelong
  <2>3. SlotTells(d.answer.slots[m], Expected(s, n), kind, m, members, Len(members))
    BY <2>2 DEF Collected
  <2>4. b = IF why = "missing" THEN Failed(d, why, <<"answers", n, m>>) ELSE Failed(d, why, <<"answers", n>>)
    BY <1>4 DEF Build
  <2> DEFINE slot == d.answer.slots[m]
             k == Len(members)
             x == Expected(s, n)
  <2> HIDE DEF m, kind, fault, b, slot, k, x
  <2>5. SlotEnds(slot, x, kind, m, members, k)
    BY <1>4, <2>2, <2>3, SlotFault DEF slot, k, x
  <2>6. /\ why \in {None, "missing", "held"}
        /\ why = "missing" => \A i \in 1..Len(members) : members[i].key # m
        /\ why = "held" =>
             /\ Expected(s, n) = None
             /\ \E i \in 1..Len(members) : /\ members[i].key = m /\ Untyped(members, i)
                                           /\ ~Fits(m, kind, members[i].value)
    BY <2>5 DEF SlotEnds, slot, k, x
  <2> HIDE DEF why
  <2>7. CASE why = "missing"
    BY <1>4, <2>2, <2>4, <2>6, <2>7 DEF b, kind
  <2>8. CASE why = "held"
    BY <1>4, <2>2, <2>4, <2>6, <2>8 DEF b, kind
  <2>9. QED
    BY <2>1, <2>6, <2>7, <2>8
<1>5. QED
  BY <1>1, <1>2, <1>3, <1>4

-----------------------------------------------------------------------------
(* What the path of a failure tells. *)

LEMMA BodyIs ==
  ASSUME body \in Bodies
  PROVE  /\ Tops \in Seq(Top) /\ Len(Tops) \in Nat /\ DOMAIN Tops = 1..Len(Tops)
         /\ \A i \in DOMAIN Tops : Tops[i].answers \in Seq(AnswerEntry)
         /\ \A i \in DOMAIN Tops : Tops[i].key \in {"model", "usage", "answers", "other"}
         /\ \A n \in FieldNames : FieldKind(n) \in Known
         /\ Len(body.fields) \in Nat /\ DOMAIN body.fields = 1..Len(body.fields)
<1>1. /\ body.tops \in Seq(Top) /\ body.fields \in Seq([name: STRING, kind: Known])
  BY DecodeAssumption DEF Body
<1>2. /\ Tops \in Seq(Top) /\ Len(Tops) \in Nat /\ DOMAIN Tops = 1..Len(Tops)
  BY <1>1, LenProperties DEF Tops
<1>3. \A i \in DOMAIN Tops : Tops[i] \in Top
  BY <1>2, ElementOfSeq
<1>4. \A i \in DOMAIN body.fields : body.fields[i].kind \in Known
  <2>1. \A i \in DOMAIN body.fields : body.fields[i] \in [name: STRING, kind: Known]
    BY <1>1, LenProperties, ElementOfSeq
  <2>2. QED
    BY <2>1
<1>5. ASSUME NEW n \in FieldNames PROVE FieldKind(n) \in Known
  <2>1. \E i \in DOMAIN body.fields : body.fields[i].name = n
    BY DEF FieldNames
  <2>2. (CHOOSE i \in DOMAIN body.fields : body.fields[i].name = n) \in DOMAIN body.fields
    BY <2>1
  <2>3. QED
    BY <1>4, <2>2 DEF FieldKind
<1>6. Len(body.fields) \in Nat /\ DOMAIN body.fields = 1..Len(body.fields)
  BY <1>1, LenProperties
<1>7. QED
  BY <1>2, <1>3, <1>5, <1>6 DEF Top

LEMMA AnswersIs ==
  ASSUME body \in Bodies, NEW i \in DOMAIN Tops
  PROVE  LET entries == Tops[i].answers
         IN  /\ entries \in Seq(AnswerEntry) /\ Len(entries) \in Nat /\ DOMAIN entries = 1..Len(entries)
             /\ \A j \in DOMAIN entries :
                  /\ entries[j].members \in Seq(Member) /\ Len(entries[j].members) \in Nat
                  /\ DOMAIN entries[j].members = 1..Len(entries[j].members)
<1> DEFINE entries == Tops[i].answers
<1>1. entries \in Seq(AnswerEntry)
  BY BodyIs
<1> HIDE DEF entries
<1>2. Len(entries) \in Nat /\ DOMAIN entries = 1..Len(entries)
  BY <1>1, LenProperties
<1>3. \A j \in DOMAIN entries : entries[j] \in AnswerEntry
  BY <1>1, <1>2, ElementOfSeq
<1>4. \A j \in DOMAIN entries : entries[j].members \in Seq(Member)
  BY <1>3 DEF AnswerEntry
<1>5. \A j \in DOMAIN entries :
        Len(entries[j].members) \in Nat /\ DOMAIN entries[j].members = 1..Len(entries[j].members)
  BY <1>4, LenProperties
<1>6. QED
  BY <1>1, <1>2, <1>4, <1>5 DEF entries

\* Which rule a path falls under.
LEMMA PathRules ==
  ASSUME NEW s, NEW f
  PROVE  /\ \A a : f.path = <<a>> /\ TopAtFault(f) => PathTells(s, f)
         /\ \A a, b : f.path = <<a, b>> /\ AnswerAtFault(s, f) => PathTells(s, f)
         /\ \A a, b : f.path = <<a, b, "type">> /\ TypeAtFault(s, f) => PathTells(s, f)
         /\ \A a, b, c : f.path = <<a, b, c>> /\ c # "type" /\ MemberAtFault(s, f) => PathTells(s, f)
<1>1. ASSUME NEW a, f.path = <<a>>, TopAtFault(f) PROVE PathTells(s, f)
  <2>1. Len(f.path) = 1
    BY <1>1
  <2>2. QED
    BY <1>1, <2>1 DEF PathTells
<1>2. ASSUME NEW a, NEW b, f.path = <<a, b>>, AnswerAtFault(s, f) PROVE PathTells(s, f)
  <2>1. Len(f.path) = 2
    BY <1>2
  <2>2. QED
    BY <1>2, <2>1 DEF PathTells
<1>3. ASSUME NEW a, NEW b, f.path = <<a, b, "type">>, TypeAtFault(s, f) PROVE PathTells(s, f)
  <2>1. Len(f.path) = 3 /\ f.path[3] = "type"
    BY <1>3
  <2>2. QED
    BY <1>3, <2>1 DEF PathTells
<1>4. ASSUME NEW a, NEW b, NEW c, f.path = <<a, b, c>>, c # "type", MemberAtFault(s, f) PROVE PathTells(s, f)
  <2>1. Len(f.path) = 3 /\ f.path[3] = c
    BY <1>4
  <2>2. QED
    BY <1>4, <2>1 DEF PathTells
<1>5. QED
  BY <1>1, <1>2, <1>3, <1>4

LEMMA FailureIs ==
  ASSUME NEW d, Shaped(d), NEW why, NEW path
  PROVE  LET e == Failed(d, why, path)
         IN  e.status = "failed" /\ e.failure.why = why /\ e.failure.path = path /\ e.failure.at = at
BY DEF Failed, Shaped

TypesUpto(members, k) ==
  {members[i].type : i \in {j \in DOMAIN members : j <= k /\ members[j].key = "type"}}

LEMMA ReadTypes ==
  ASSUME NEW f
  PROVE  TypesOf(ReadOf(f)) = TypesUpto(At(f).members, f.at.member)
<1> DEFINE members == At(f).members
           places == {j \in DOMAIN members : j <= f.at.member}
           read == [i \in places |-> members[i]]
<1>1. ReadOf(f) = read
  BY DEF ReadOf
<1>2. {j \in DOMAIN read : read[j].key = "type"} = {j \in DOMAIN members : j <= f.at.member /\ members[j].key = "type"}
  OBVIOUS
<1>3. \A i \in DOMAIN read : read[i] = members[i]
  OBVIOUS
<1>4. TypesOf(read) = TypesUpto(members, f.at.member)
  BY <1>2, <1>3 DEF TypesOf, TypesUpto
<1>5. QED
  BY <1>1, <1>4

LEMMA TypesSeen ==
  ASSUME NEW members, NEW length \in Nat, DOMAIN members = 1..length, NEW expected, NEW seen,
         NEW k \in Nat, k <= length, SeenTells(expected, seen, members, k)
  PROVE  TypesUpto(members, k) = IF seen = None THEN {} ELSE {seen}
<1>1. {j \in DOMAIN members : j <= k /\ members[j].key = "type"} = {j \in 1..k : members[j].key = "type"}
  OBVIOUS
<1>2. QED
  BY <1>1 DEF TypesUpto, SeenTells, Untyped

\* One more member names one more type, or none.
LEMMA TypesNext ==
  ASSUME NEW members, NEW length \in Nat, DOMAIN members = 1..length, NEW k \in Nat
  PROVE  TypesUpto(members, k + 1) = TypesUpto(members, k) \cup
           (IF k + 1 \in 1..length /\ members[k + 1].key = "type" THEN {members[k + 1].type} ELSE {})
<1> DEFINE P(n) == {j \in DOMAIN members : j <= n /\ members[j].key = "type"}
<1>1. P(k + 1) = P(k) \cup (IF k + 1 \in 1..length /\ members[k + 1].key = "type" THEN {k + 1} ELSE {})
  OBVIOUS
<1>2. \A n : TypesUpto(members, n) = {members[i].type : i \in P(n)}
  BY DEF TypesUpto
<1> HIDE DEF P
<1>3. QED
  BY <1>1, <1>2

\* The types read, as the next member is reached.
LEMMA TypesReached ==
  ASSUME NEW members, NEW length \in Nat, DOMAIN members = 1..length, NEW expected, NEW seen,
         NEW k \in Nat, k <= length, SeenTells(expected, seen, members, k)
  PROVE  TypesUpto(members, k + 1) = (IF seen = None THEN {} ELSE {seen}) \cup
           (IF k + 1 \in 1..length /\ members[k + 1].key = "type" THEN {members[k + 1].type} ELSE {})
<1>1. TypesUpto(members, k) = IF seen = None THEN {} ELSE {seen}
  BY TypesSeen
<1>2. TypesUpto(members, k + 1) = TypesUpto(members, k) \cup
        (IF k + 1 \in 1..length /\ members[k + 1].key = "type" THEN {members[k + 1].type} ELSE {})
  BY TypesNext
<1>3. QED
  BY <1>1, <1>2, Zenon

\* The kind an answer is read under is the one its field or its type names.
ReadUnder(s, f, seen, expected, kind) ==
  /\ s \in Sets /\ kind # None /\ kind = KindOf(expected, seen)
  /\ s = "map" => expected = None
  /\ s = "struct" => expected \in Known /\ expected = FieldKind(f.path[2])
  /\ TypesUpto(At(f).members, f.at.member) = IF seen = None THEN {} ELSE {seen}
  /\ seen # None => expected \in {None, seen}

LEMMA KindAtIs ==
  ASSUME NEW s, NEW f, NEW seen, NEW expected, NEW kind, ReadUnder(s, f, seen, expected, kind)
  PROVE  KindAt(s, f) = kind /\ TypesOf(ReadOf(f)) \subseteq {kind}
<1>1. TypesOf(ReadOf(f)) = IF seen = None THEN {} ELSE {seen}
  BY ReadTypes DEF ReadUnder
<1>2. None \notin Known
  BY DecodeAssumption
<1>3. CASE s = "struct"
  <2>1. expected = FieldKind(f.path[2]) /\ expected # None /\ KindAt(s, f) = expected
    BY <1>2, <1>3 DEF KindAt, ReadUnder
  <2>2. kind = expected
    BY <1>2, <1>3, <2>1 DEF KindOf, ReadUnder
  <2>3. seen = None \/ seen = expected
    BY <2>1 DEF ReadUnder
  <2>4. QED
    BY <1>1, <2>1, <2>2, <2>3
<1>4. CASE s = "map"
  <2>1. expected = None /\ seen # None /\ kind = seen
    BY <1>4 DEF KindOf, ReadUnder
  <2>2. TypesOf(ReadOf(f)) = {seen}
    BY <1>1, <2>1
  <2>3. KindAt(s, f) = seen
    BY <1>4, <2>2 DEF KindAt
  <2>4. QED
    BY <2>1, <2>2, <2>3
<1>5. QED
  BY <1>3, <1>4 DEF Sets, ReadUnder

\* A decoder refuses what is at fault at its position.
LEMMA EntryIs ==
  ASSUME body \in Bodies, Placed(at), at.answer > 0, at.answer <= Len(Entries)
  PROVE  /\ at.top \in DOMAIN Tops /\ Entries = Tops[at.top].answers /\ at.answer \in DOMAIN Entries
         /\ Len(Entries) \in Nat /\ DOMAIN Entries = 1..Len(Entries)
         /\ Entry.members \in Seq(Member) /\ Len(Entry.members) \in Nat
         /\ DOMAIN Entry.members = 1..Len(Entry.members)
         /\ \A f : f.at = at => At(f) = Entry
<1>1. at.top \in Nat /\ at.answer \in Nat /\ at.top \in 1..(Len(Tops) + 1) /\ at.top <= Len(Tops)
  BY DEF Placed, Position
<1>2. at.top \in DOMAIN Tops
  BY <1>1, BodyIs
<1>3. Len(Entries) \in Nat /\ DOMAIN Entries = 1..Len(Entries) /\ Entries = Tops[at.top].answers
  BY <1>2, AnswersIs DEF Entries
<1>4. at.answer \in DOMAIN Entries
  BY <1>1, <1>3
<1>5. /\ Entry.members \in Seq(Member) /\ Len(Entry.members) \in Nat
      /\ DOMAIN Entry.members = 1..Len(Entry.members)
  BY <1>2, <1>3, <1>4, AnswersIs DEF Entry
<1>6. \A f : f.at = at => At(f) = Entry
  BY DEF At, Entry, Entries, Tops
<1>7. QED
  BY <1>2, <1>3, <1>4, <1>5, <1>6

Reached == body \in Bodies /\ Placed(at) /\ at.member > 0

LEMMA MembersIs ==
  ASSUME Reached
  PROVE  LET members == Entry.members
         IN  /\ members \in Seq(Member) /\ Len(members) \in Nat /\ DOMAIN members = 1..Len(members)
             /\ at.member \in Nat /\ at.member - 1 \in Nat /\ (at.member - 1) + 1 = at.member
             /\ at.member - 1 <= Len(members)
             /\ at.answer > 0 /\ at.answer <= Len(Entries) /\ Entry.object
             /\ \A f : f.at = at => At(f) = Entry
<1>1. /\ at.member \in Nat /\ at.answer \in Nat /\ at.member # 0 /\ at.answer # 0
      /\ at.answer <= Len(Entries) /\ Entry.object /\ at.member <= Len(Entry.members) + 1
  BY DEF Reached, Placed, Position, AnswersAt, EntryAt, Entry, Entries
<1>2. at.answer > 0
  BY <1>1
<1>3. /\ Entry.members \in Seq(Member) /\ Len(Entry.members) \in Nat
      /\ DOMAIN Entry.members = 1..Len(Entry.members)
      /\ \A f : f.at = at => At(f) = Entry
  BY <1>1, <1>2, EntryIs DEF Reached
<1>4. QED
  BY <1>1, <1>2, <1>3

\* What an answer's kind is known to be, at the member that is read next.
KindKnown(s, n, seen) ==
  /\ s = "struct" => FieldKind(n) \in Known
  /\ SeenTells(Expected(s, n), seen, Entry.members, at.member - 1)

LEMMA TwoElements ==
  ASSUME NEW a, NEW b, a # b
  PROVE  Cardinality({a, b}) = 2
<1>1. IsFiniteSet({a}) /\ Cardinality({a}) = 1
  BY FS_Singleton
<1>2. Cardinality({a} \cup {b}) = 2
  BY <1>1, FS_AddElement
<1>3. {a} \cup {b} = {a, b}
  OBVIOUS
<1>4. QED
  BY <1>2, <1>3

LEMMA TypeRefused ==
  ASSUME Reached, NEW s \in Sets, NEW d, Shaped(d), NEW seen,
         KindKnown(s, Entry.name, seen), at.member <= Len(Entry.members),
         Entry.members[at.member].key = "type",
         BadType(Expected(s, Entry.name), seen, Entry.members[at.member].type)
  PROVE  Refused(s, Failed(d, "type", <<"answers", Entry.name, "type">>))
<1> DEFINE n == Entry.name
           members == Entry.members
           k == at.member - 1
           t == members[at.member].type
           e == Failed(d, "type", <<"answers", n, "type">>)
           f == e.failure
           types == TypesOf(ReadOf(f))
<1>1. f.path = <<"answers", n, "type">> /\ f.at = at
  BY FailureIs
<1>2. /\ members \in Seq(Member) /\ Len(members) \in Nat /\ DOMAIN members = 1..Len(members)
      /\ k \in Nat /\ k + 1 = at.member /\ k <= Len(members) /\ at.member \in 1..Len(members)
      /\ At(f) = Entry
  BY <1>1, MembersIs
<1> HIDE DEF k, e
<1>3. SeenTells(Expected(s, n), seen, members, k)
  BY DEF KindKnown, k
<1> DEFINE length == Len(members)
<1>4. TypesUpto(members, k + 1) = (IF seen = None THEN {} ELSE {seen}) \cup {members[k + 1].type}
  <2> HIDE DEF length, members
  <2>1. length \in Nat /\ DOMAIN members = 1..length /\ k <= length /\ k + 1 \in 1..length
    BY <1>2 DEF length
  <2>2. TypesUpto(members, k + 1) = (IF seen = None THEN {} ELSE {seen}) \cup
          (IF k + 1 \in 1..length /\ members[k + 1].key = "type" THEN {members[k + 1].type} ELSE {})
    BY <1>2, <1>3, <2>1, TypesReached
  <2>3. members[k + 1].key = "type"
    BY <1>2 DEF members
  <2>4. QED
    BY <2>1, <2>2, <2>3
<1>5. types = (IF seen = None THEN {} ELSE {seen}) \cup {t}
  BY <1>1, <1>2, <1>4, ReadTypes
<1> HIDE DEF t, f, types, members
<1>6. t = "not_text" => "not_text" \in types
  BY <1>5
<1>7. ASSUME Expected(s, n) \notin {None, t} PROVE s = "struct" /\ types # {KindAt(s, f)}
  <2>1. s = "struct"
    BY <1>7 DEF Expected, Sets
  <2>2. KindAt(s, f) = Expected(s, n)
    BY <1>1, <2>1 DEF KindAt, Expected
  <2>3. t \in types
    BY <1>5
  <2>4. QED
    BY <1>7, <2>1, <2>2, <2>3
<1>8. ASSUME seen \notin {None, t} PROVE Cardinality(types) = 2
  <2>1. types = {seen, t}
    BY <1>5, <1>8
  <2>2. QED
    BY <1>8, <2>1, TwoElements
<1>9. TypeAtFault(s, f)
  <2>1. t = "not_text" \/ Expected(s, n) \notin {None, t} \/ seen \notin {None, t}
    BY DEF BadType, t, members
  <2>2. QED
    BY <1>6, <1>7, <1>8, <2>1 DEF TypeAtFault, types
<1>10. PathTells(s, f)
  BY <1>1, <1>9, PathRules
<1>11. QED
  BY <1>10 DEF Refused, f, e

LEMMA ShapeRefused ==
  ASSUME Reached, NEW s \in Sets, NEW d, Shaped(d), NEW seen, NEW m \in DataMembers,
         KindKnown(s, Entry.name, seen), at.member <= Len(Entry.members),
         Entry.members[at.member].key = m, KindOf(Expected(s, Entry.name), seen) # None,
         BelongsTo(m, KindOf(Expected(s, Entry.name), seen)),
         ~Fits(m, KindOf(Expected(s, Entry.name), seen), Entry.members[at.member].value)
  PROVE  Refused(s, Failed(d, "shape", <<"answers", Entry.name, m>>))
<1> DEFINE n == Entry.name
           members == Entry.members
           k == at.member - 1
           x == Expected(s, n)
           kind == KindOf(x, seen)
           e == Failed(d, "shape", <<"answers", n, m>>)
           f == e.failure
<1>1. f.path = <<"answers", n, m>> /\ f.at = at
  BY FailureIs
<1>2. /\ members \in Seq(Member) /\ Len(members) \in Nat /\ DOMAIN members = 1..Len(members)
      /\ k \in Nat /\ k + 1 = at.member /\ k <= Len(members) /\ at.member \in 1..Len(members)
      /\ At(f) = Entry
  BY <1>1, MembersIs
<1> HIDE DEF e, f
<1>3. SeenTells(x, seen, members, k) /\ (s = "struct" => FieldKind(n) \in Known)
  BY DEF KindKnown
<1>4. m # "type"
  BY DEF DataMembers
<1> HIDE DEF k
<1>5. TypesUpto(members, k + 1) = IF seen = None THEN {} ELSE {seen}
  <2> DEFINE length == Len(members)
  <2>1. ~(k + 1 \in 1..length /\ members[k + 1].key = "type")
    BY <1>2, <1>3, <1>4
  <2>2. length \in Nat /\ DOMAIN members = 1..length /\ k <= length
    BY <1>2
  <2> HIDE DEF length, members
  <2>3. TypesUpto(members, k + 1) = (IF seen = None THEN {} ELSE {seen}) \cup
          (IF k + 1 \in 1..length /\ members[k + 1].key = "type" THEN {members[k + 1].type} ELSE {})
    BY <1>2, <1>3, <2>2, TypesReached
  <2>4. QED
    BY <2>1, <2>3
<1>6. f.path[2] = n /\ f.path[3] = m
  BY <1>1
<1>7. (s = "map" => x = None) /\ (s = "struct" => x \in Known /\ x = FieldKind(f.path[2]))
  BY <1>3, <1>6 DEF Expected
<1>8. TypesUpto(At(f).members, f.at.member) = IF seen = None THEN {} ELSE {seen}
  BY <1>1, <1>2, <1>5
<1>9. seen # None => x \in {None, seen}
  BY <1>3 DEF SeenTells
<1> HIDE DEF x
<1>10. kind # None /\ kind = KindOf(x, seen)
  BY DEF x
<1> HIDE DEF kind
<1>11. KindAt(s, f) = kind /\ TypesOf(ReadOf(f)) \subseteq {kind}
  <2>1. ReadUnder(s, f, seen, x, kind)
    BY <1>7, <1>8, <1>9, <1>10 DEF ReadUnder
  <2>2. QED
    BY <2>1, KindAtIs
<1>12. MemberAtFault(s, f)
  <2>1. BelongsTo(m, kind) /\ ~Fits(m, kind, members[at.member].value)
    BY DEF kind, x
  <2>2. /\ f.at.member \in DOMAIN At(f).members /\ At(f).members[f.at.member].key = m
        /\ ~Fits(m, kind, At(f).members[f.at.member].value)
    BY <1>1, <1>2, <2>1
  <2>3. QED
    BY <1>6, <1>11, <2>1, <2>2 DEF MemberAtFault
<1>13. PathTells(s, f)
  BY <1>1, <1>4, <1>12, PathRules
<1>14. QED
  BY <1>13 DEF Refused, f, e

LEMMA MissingRefused ==
  ASSUME Reached, NEW s \in Sets, NEW d, Shaped(d), NEW seen \in Known, NEW m \in DataMembers,
         KindKnown(s, Entry.name, seen), at.member > Len(Entry.members),
         BelongsTo(m, seen), \A i \in 1..Len(Entry.members) : Entry.members[i].key # m
  PROVE  Refused(s, Failed(d, "missing", <<"answers", Entry.name, m>>))
<1> DEFINE n == Entry.name
           members == Entry.members
           k == at.member - 1
           x == Expected(s, n)
           e == Failed(d, "missing", <<"answers", n, m>>)
           f == e.failure
<1>1. f.path = <<"answers", n, m>> /\ f.at = at
  BY FailureIs
<1>2. /\ members \in Seq(Member) /\ Len(members) \in Nat /\ DOMAIN members = 1..Len(members)
      /\ k \in Nat /\ k + 1 = at.member /\ k <= Len(members) /\ at.member \notin 1..Len(members)
      /\ At(f) = Entry
  BY <1>1, MembersIs
<1> HIDE DEF e, f
<1>3. SeenTells(x, seen, members, k) /\ (s = "struct" => FieldKind(n) \in Known)
  BY DEF KindKnown
<1>4. m # "type" /\ seen # None
  BY DecodeAssumption DEF DataMembers
<1> HIDE DEF k
<1>5. TypesUpto(members, k + 1) = IF seen = None THEN {} ELSE {seen}
  <2> DEFINE length == Len(members)
  <2>1. ~(k + 1 \in 1..length /\ members[k + 1].key = "type")
    BY <1>2, <1>3, <1>4
  <2>2. length \in Nat /\ DOMAIN members = 1..length /\ k <= length
    BY <1>2
  <2> HIDE DEF length, members
  <2>3. TypesUpto(members, k + 1) = (IF seen = None THEN {} ELSE {seen}) \cup
          (IF k + 1 \in 1..length /\ members[k + 1].key = "type" THEN {members[k + 1].type} ELSE {})
    BY <1>2, <1>3, <2>2, TypesReached
  <2>4. QED
    BY <2>1, <2>3
<1>6. f.path[2] = n /\ f.path[3] = m
  BY <1>1
<1>7. (s = "map" => x = None) /\ (s = "struct" => x \in Known /\ x = FieldKind(f.path[2]))
  BY <1>3, <1>6 DEF Expected
<1>8. TypesUpto(At(f).members, f.at.member) = IF seen = None THEN {} ELSE {seen}
  BY <1>1, <1>2, <1>5
<1>9. x \in {None, seen} /\ KindOf(x, seen) = seen
  BY <1>3, <1>4 DEF SeenTells, KindOf
<1> HIDE DEF x
<1>11. KindAt(s, f) = seen /\ TypesOf(ReadOf(f)) \subseteq {seen}
  <2>1. ReadUnder(s, f, seen, x, seen)
    BY <1>4, <1>7, <1>8, <1>9 DEF ReadUnder
  <2>2. QED
    BY <2>1, KindAtIs
<1>12. MemberAtFault(s, f)
  <2>1. f.at.member > Len(At(f).members) /\ \A j \in DOMAIN At(f).members : At(f).members[j].key # m
    BY <1>1, <1>2
  <2>2. QED
    BY <1>6, <1>11, <2>1 DEF MemberAtFault
<1>13. PathTells(s, f)
  BY <1>1, <1>4, <1>12, PathRules
<1>14. QED
  BY <1>13 DEF Refused, f, e

\* Of the answers that end without a type, and of those that held what does not fit.
LEMMA UntypedRefused ==
  ASSUME Reached, NEW s \in Sets, NEW d, Shaped(d),
         KindKnown(s, Entry.name, None), at.member > Len(Entry.members)
  PROVE  Refused(s, Failed(d, "type", <<"answers", Entry.name, "type">>))
<1> DEFINE n == Entry.name
           members == Entry.members
           k == at.member - 1
           e == Failed(d, "type", <<"answers", n, "type">>)
           f == e.failure
<1>1. f.path = <<"answers", n, "type">> /\ f.at = at
  BY FailureIs
<1>2. /\ Len(members) \in Nat /\ DOMAIN members = 1..Len(members) /\ k = Len(members)
      /\ At(f) = Entry
  BY <1>1, MembersIs
<1>3. TypesOf(members) = {}
  <2>1. SeenTells(Expected(s, n), None, members, Len(members))
    BY <1>2 DEF KindKnown
  <2>2. QED
    BY <1>2, <2>1, TypesAre
<1> HIDE DEF f
<1>4. TypeAtFault(s, f)
  BY <1>2, <1>3 DEF TypeAtFault
<1>5. PathTells(s, f)
  BY <1>1, <1>4, PathRules
<1>6. QED
  BY <1>5 DEF Refused, f, e

LEMMA HeldRefused ==
  ASSUME Reached, NEW d, Shaped(d), NEW seen \in Known, NEW m \in DataMembers,
         KindKnown("map", Entry.name, seen), at.member > Len(Entry.members),
         NEW i \in 1..Len(Entry.members), Entry.members[i].key = m, Untyped(Entry.members, i),
         ~Fits(m, seen, Entry.members[i].value)
  PROVE  Refused("map", Failed(d, "held", <<"answers", Entry.name>>))
<1> DEFINE n == Entry.name
           members == Entry.members
           k == at.member - 1
           e == Failed(d, "held", <<"answers", n>>)
           f == e.failure
<1>1. f.path = <<"answers", n>> /\ f.at = at
  BY FailureIs
<1>2. /\ Len(members) \in Nat /\ DOMAIN members = 1..Len(members) /\ k = Len(members)
      /\ k \in Nat /\ k + 1 = at.member /\ at.member \notin 1..Len(members)
      /\ At(f) = Entry
  BY <1>1, MembersIs
<1> HIDE DEF e, f
<1>3. SeenTells(Expected("map", n), seen, members, k) /\ seen # None
  BY DecodeAssumption DEF KindKnown
<1> HIDE DEF k
<1>4. TypesUpto(members, k + 1) = {seen}
  <2> DEFINE length == Len(members)
  <2>1. ~(k + 1 \in 1..length /\ members[k + 1].key = "type")
    BY <1>2, <1>3
  <2>2. length \in Nat /\ DOMAIN members = 1..length /\ k <= length
    BY <1>2
  <2> HIDE DEF length, members
  <2>3. TypesUpto(members, k + 1) = (IF seen = None THEN {} ELSE {seen}) \cup
          (IF k + 1 \in 1..length /\ members[k + 1].key = "type" THEN {members[k + 1].type} ELSE {})
    BY <1>2, <1>3, <2>2, TypesReached
  <2>4. QED
    BY <1>3, <2>1, <2>3
<1>5. TypesOf(ReadOf(f)) = {seen}
  BY <1>1, <1>2, <1>4, ReadTypes
<1>6. KindAt("map", f) = seen
  BY <1>5 DEF KindAt
<1>7. AnswerAtFault("map", f)
  BY <1>2, <1>6 DEF AnswerAtFault, Untyped
<1>8. PathTells("map", f)
  BY <1>1, <1>7, PathRules
<1>9. QED
  BY <1>8 DEF Refused, f, e

-----------------------------------------------------------------------------
(* What a decoder gathered of the answers. *)

Piece(e) == [name |-> e.name, answer |-> AnswerOf(e.members)]

LEMMA MappedAppend ==
  ASSUME NEW kept \in Seq(AnswerEntry), NEW e \in AnswerEntry
  PROVE  Mapped(Append(kept, e)) = Append(Mapped(kept), Piece(e))
<1> DEFINE k == Len(kept)
           longer == Append(kept, e)
           pieces == Mapped(kept)
           whole == Mapped(longer)
           P == {Piece(x) : x \in AnswerEntry}
<1>1. k \in Nat /\ DOMAIN kept = 1..k /\ \A i \in 1..k : kept[i] \in AnswerEntry
  BY LenProperties, ElementOfSeq
<1>2. /\ longer \in Seq(AnswerEntry) /\ Len(longer) = k + 1
      /\ longer[k + 1] = e /\ \A i \in 1..k : longer[i] = kept[i]
  BY AppendProperties
<1>3. DOMAIN longer = 1..(k + 1)
  BY <1>1, <1>2, LenProperties
<1> HIDE DEF longer, k
<1>4. pieces = [i \in 1..k |-> Piece(kept[i])] /\ whole = [i \in 1..(k + 1) |-> Piece(longer[i])]
  BY <1>1, <1>3 DEF Mapped, Piece
<1>5. \A i \in 1..(k + 1) : i = k + 1 \/ i \in 1..k
  BY <1>1
<1>6. \A i \in 1..k : pieces[i] \in P /\ whole[i] = pieces[i] /\ i \in 1..(k + 1)
  BY <1>1, <1>2, <1>4
<1>7. whole[k + 1] = Piece(e) /\ Piece(e) \in P
  BY <1>1, <1>2, <1>4
<1>8. pieces \in [1..k -> P] /\ whole \in [1..(k + 1) -> P]
  BY <1>4, <1>5, <1>6, <1>7
<1> HIDE DEF P, pieces, whole
<1>9. pieces \in Seq(P) /\ Len(pieces) = k /\ whole \in Seq(P) /\ Len(whole) = k + 1
  BY <1>1, <1>8
<1>10. /\ Append(pieces, Piece(e)) \in Seq(P) /\ Len(Append(pieces, Piece(e))) = k + 1
       /\ Append(pieces, Piece(e))[k + 1] = Piece(e)
       /\ \A i \in 1..k : Append(pieces, Piece(e))[i] = pieces[i]
  BY <1>7, <1>9, AppendProperties
<1>11. \A i \in 1..Len(whole) : whole[i] = Append(pieces, Piece(e))[i]
  BY <1>5, <1>6, <1>7, <1>9, <1>10
<1>12. whole = Append(pieces, Piece(e))
  BY <1>9, <1>10, <1>11, SeqEqual
<1>13. QED
  BY <1>12 DEF whole, pieces, longer

LEMMA HeardNext ==
  ASSUME NEW entries \in Seq(AnswerEntry), NEW k \in Nat, k + 1 \in 1..Len(entries)
  PROVE  Heard(entries, k + 1) =
           IF k + 1 \in Telling(entries) THEN Append(Heard(entries, k), Piece(entries[k + 1]))
           ELSE Heard(entries, k)
<1> DEFINE head == Upto(entries, k)
           e == entries[k + 1]
           K == Telling(entries)
<1>1. e \in AnswerEntry
  BY ElementOfSeq
<1>2. head \in Seq(AnswerEntry) /\ Len(head) = k /\ Upto(entries, k + 1) = Append(head, e)
  BY SubSeqAppend DEF Upto
<1> HIDE DEF head, e, K
<1>3. Sift(Append(head, e), K) = IF k + 1 \in K THEN Append(Sift(head, K), e) ELSE Sift(head, K)
  BY <1>1, <1>2, SiftAppend
<1>4. Sift(head, K) \in Seq(AnswerEntry)
  BY <1>2, SiftsIn
<1>5. Mapped(Append(Sift(head, K), e)) = Append(Mapped(Sift(head, K)), Piece(e))
  BY <1>1, <1>4, MappedAppend
<1>6. QED
  BY <1>2, <1>3, <1>5 DEF Heard, head, e, K

LEMMA HeardNone ==
  ASSUME NEW entries \in Seq(AnswerEntry)
  PROVE  Heard(entries, 0) = <<>>
<1>1. Upto(entries, 0) = <<>>
  BY SubSeqEmpty DEF Upto
<1>2. <<>> \in Seq(AnswerEntry) /\ Telling(entries) \cap DOMAIN <<>> = {}
  OBVIOUS
<1>3. Sift(<<>>, Telling(entries)) = <<>>
  BY <1>2, SiftsNone
<1>4. Mapped(<<>>) = <<>>
  BY DEF Mapped
<1>5. QED
  BY <1>1, <1>3, <1>4 DEF Heard

LEMMA HeardAll ==
  ASSUME NEW entries \in Seq(AnswerEntry)
  PROVE  Heard(entries, Len(entries)) = Mapped(Sift(entries, Telling(entries)))
<1>1. Upto(entries, Len(entries)) = entries
  BY SubSeqFull DEF Upto
<1>2. QED
  BY <1>1 DEF Heard

LEMMA FirstIs ==
  ASSUME NEW entries \in Seq(AnswerEntry), NEW k \in Nat, k + 1 \in 1..Len(entries),
         ~NamedBefore(entries, k, entries[k + 1].name)
  PROVE  First(entries, entries[k + 1].name) = entries[k + 1]
<1> DEFINE n == entries[k + 1].name
           Is(i) == entries[i].name = n /\ \A j \in 1..(i - 1) : entries[j].name # n
           i == CHOOSE j \in DOMAIN entries : Is(j)
<1>1. Len(entries) \in Nat /\ DOMAIN entries = 1..Len(entries)
  BY LenProperties
<1>2. k + 1 \in DOMAIN entries /\ Is(k + 1)
  BY <1>1 DEF NamedBefore
<1>3. i \in DOMAIN entries /\ Is(i)
  BY <1>2
<1>4. i = k + 1
  <2>1. i \in Nat /\ ~(i \in 1..k) /\ ~(k + 1 \in 1..(i - 1))
    BY <1>1, <1>2, <1>3 DEF NamedBefore
  <2>2. i # 0
    BY <1>1, <1>3
  <2>3. QED
    BY <2>1, <2>2
<1>5. QED
  BY <1>4 DEF First

LEMMA NamedNext ==
  ASSUME NEW entries, NEW k \in Nat, NEW n
  PROVE  NamedBefore(entries, k + 1, n) <=> NamedBefore(entries, k, n) \/ entries[k + 1].name = n
<1>1. (\A j \in 1..(k + 1) : j = k + 1 \/ j \in 1..k) /\ \A i \in 1..k : i \in 1..(k + 1)
  OBVIOUS
<1>2. k + 1 \in 1..(k + 1)
  OBVIOUS
<1>3. QED
  BY <1>1, <1>2 DEF NamedBefore

LEMMA GatheredSame ==
  ASSUME NEW s, NEW d, NEW e, NEW entries, NEW k, e.answers = d.answers, Gathered(s, d, entries, k)
  PROVE  Gathered(s, e, entries, k)
BY DEF Gathered

\* Before the first answer there is nothing.
LEMMA GatherStart ==
  ASSUME NEW s \in Sets, NEW d, NEW entries \in Seq(AnswerEntry), d.answers = NoAnswers(s)
  PROVE  Gathered(s, d, entries, 0)
<1>1. CASE s = "map"
  BY <1>1, HeardNone DEF Gathered, NoAnswers
<1>2. CASE s = "struct"
  <2>1. \A n : ~NamedBefore(entries, 0, n)
    BY DEF NamedBefore
  <2>2. QED
    BY <1>2, <2>1 DEF Gathered, NoAnswers
<1>3. QED
  BY <1>1, <1>2 DEF Sets

LEMMA ToldFilled ==
  ASSUME NEW answer, NEW e, Told(answer, e)
  PROVE  answer # Unfilled
BY DEF Told, Unfilled

\* A struct passes over an answer that is no field's, or not the first of its name.
LEMMA GatheredSkipped ==
  ASSUME NEW s \in Sets, NEW d, NEW entries \in Seq(AnswerEntry), NEW k \in Nat, k + 1 \in 1..Len(entries),
         Gathered(s, d, entries, k), ~Wanted(s, d, entries[k + 1].name)
  PROVE  Gathered(s, d, entries, k + 1)
<1>1. s = "struct"
  BY DEF Wanted, Sets
<1>2. ASSUME NEW n \in FieldNames
      PROVE  NamedBefore(entries, k + 1, n) <=> NamedBefore(entries, k, n)
  <2>1. entries[k + 1].name = n => NamedBefore(entries, k, n)
    BY <1>1 DEF Gathered, Wanted
  <2>2. QED
    BY <2>1, NamedNext
<1>3. QED
  BY <1>1, <1>2 DEF Gathered

\* The map passes over an answer of an unknown type.
LEMMA GatheredUnknown ==
  ASSUME NEW d, NEW entries \in Seq(AnswerEntry), NEW k \in Nat, k + 1 \in 1..Len(entries),
         Gathered("map", d, entries, k), k + 1 \notin Telling(entries)
  PROVE  Gathered("map", d, entries, k + 1)
BY HeardNext DEF Gathered

\* An answer that is built is the first of its name, or the map's next one.
LEMMA GatheredKept ==
  ASSUME NEW s \in Sets, NEW d, Shaped(d), NEW entries \in Seq(AnswerEntry), NEW k \in Nat,
         k + 1 \in 1..Len(entries), Gathered(s, d, entries, k), Wanted(s, d, entries[k + 1].name),
         Told(Built(d), entries[k + 1]), TypesOf(entries[k + 1].members) \subseteq Known,
         s = "struct" => Built(d).kind = FieldKind(entries[k + 1].name)
  PROVE  Gathered(s, Keep(s, d, entries[k + 1].name), entries, k + 1)
<1> DEFINE e == entries[k + 1]
           n == e.name
           built == Built(d)
           kept == Keep(s, d, n)
<1>1. Told(built, e) /\ (s = "struct" => built.kind = FieldKind(n))
  OBVIOUS
<1>2. CASE s = "map"
  <2>1. kept.answers = Append(d.answers, [name |-> n, answer |-> built])
    BY <1>2 DEF Keep, Shaped
  <2>2. k + 1 \in Telling(entries)
    <3>1. k + 1 \in DOMAIN entries
      BY LenProperties
    <3>2. QED
      BY <3>1 DEF Telling
  <2>3. d.answers = Heard(entries, k) /\ built = AnswerOf(e.members)
    BY <1>1, <1>2 DEF Gathered, Told
  <2>4. Piece(e) = [name |-> n, answer |-> built]
    BY <2>3 DEF Piece
  <2>5. Heard(entries, k + 1) = Append(Heard(entries, k), Piece(e))
    BY <2>2, HeardNext
  <2> HIDE DEF e, built, kept
  <2>6. kept.answers = Heard(entries, k + 1)
    BY <2>1, <2>3, <2>4, <2>5
  <2>7. QED
    BY <1>2, <2>6 DEF Gathered, kept, e
<1>3. CASE s = "struct"
  <2>1. n \in FieldNames /\ d.answers[n] = Unfilled
    BY <1>3 DEF Wanted
  <2>2. kept.answers = [d.answers EXCEPT ![n] = built] /\ DOMAIN d.answers = FieldNames
    BY <1>3 DEF Keep, Shaped, Gathered
  <2>3. ~NamedBefore(entries, k, n)
    BY <1>3, <2>1, ToldFilled DEF Gathered
  <2>4. First(entries, n) = e
    BY <2>3, FirstIs
  <2> HIDE DEF e, built, kept
  <2>5. DOMAIN kept.answers = FieldNames
    BY <2>2
  <2>6. ASSUME NEW o \in FieldNames
        PROVE  IF NamedBefore(entries, k + 1, o)
                 THEN Told(kept.answers[o], First(entries, o)) /\ kept.answers[o].kind = FieldKind(o)
                 ELSE kept.answers[o] = Unfilled
    <3>1. NamedBefore(entries, k + 1, o) <=> NamedBefore(entries, k, o) \/ n = o
      BY NamedNext DEF e
    <3>2. CASE o = n
      BY <1>1, <1>3, <2>2, <2>4, <3>1, <3>2
    <3>3. CASE o # n
      <4>1. kept.answers[o] = d.answers[o]
        BY <2>2, <3>3
      <4>2. NamedBefore(entries, k + 1, o) <=> NamedBefore(entries, k, o)
        BY <3>1, <3>3
      <4>3. QED
        BY <1>3, <4>1, <4>2 DEF Gathered
    <3>4. QED
      BY <3>2, <3>3
  <2>7. QED
    BY <1>3, <2>5, <2>6 DEF Gathered, kept, e
<1>4. QED
  BY <1>2, <1>3 DEF Sets

-----------------------------------------------------------------------------
(* The answers that stay of the members read. *)

LEMMA PassedNext ==
  ASSUME body \in Bodies, NEW top \in 1..Len(Tops)
  PROVE  Passed(top + 1) = IF Tops[top].key = "answers" THEN Tops[top].answers ELSE Passed(top)
<1> DEFINE Is(t) == {i \in 1..(t - 1) : Tops[i].key = "answers"}
           Latest(S) == IF S = {} THEN <<>> ELSE Tops[CHOOSE i \in S : \A j \in S : j <= i].answers
<1>1. top \in Nat /\ (top + 1) - 1 = top /\ (\A i \in 1..top : i = top \/ i \in 1..(top - 1)) /\ top \in 1..top
      /\ \A i \in 1..(top - 1) : i \in 1..top
  BY BodyIs
<1>2. Is(top + 1) = Is(top) \cup (IF Tops[top].key = "answers" THEN {top} ELSE {})
  BY <1>1
<1>3. \A t : Passed(t) = Latest(Is(t))
  BY DEF Passed
<1>4. CASE Tops[top].key # "answers"
  <2>1. Is(top + 1) = Is(top)
    BY <1>2, <1>4
  <2> HIDE DEF Is, Latest
  <2>2. QED
    BY <1>3, <1>4, <2>1
<1>5. CASE Tops[top].key = "answers"
  <2>1. top \in Is(top + 1) /\ \A j \in Is(top + 1) : j <= top
    BY <1>1, <1>5
  <2>2. \A i \in Is(top + 1) : (\A j \in Is(top + 1) : j <= i) => i = top
    BY <1>1, <2>1
  <2> HIDE DEF Is
  <2>3. (CHOOSE i \in Is(top + 1) : \A j \in Is(top + 1) : j <= i) = top
    BY <2>1, <2>2
  <2>4. Is(top + 1) # {}
    BY <2>1
  <2>5. Latest(Is(top + 1)) = Tops[CHOOSE i \in Is(top + 1) : \A j \in Is(top + 1) : j <= i].answers
    BY <2>4, Zenon
  <2>6. Latest(Is(top + 1)) = Tops[top].answers
    BY <2>3, <2>5, Zenon
  <2> HIDE DEF Latest
  <2>7. QED
    BY <1>3, <1>5, <2>6
<1>6. QED
  BY <1>4, <1>5

LEMMA PassedIs ==
  ASSUME body \in Bodies, NEW top \in 1..(Len(Tops) + 1)
  PROVE  Passed(top) \in Seq(AnswerEntry)
<1> DEFINE is == {i \in 1..(top - 1) : Tops[i].key = "answers"}
<1>1. Passed(top) = IF is = {} THEN <<>> ELSE Tops[CHOOSE i \in is : \A j \in is : j <= i].answers
  BY DEF Passed
<1>2. is \subseteq DOMAIN Tops /\ is \subseteq Nat /\ \A i \in is : i <= Len(Tops)
  BY BodyIs
<1>3. CASE is # {}
  <2> HIDE DEF is
  <2> DEFINE length == Len(Tops)
  <2>0. is \in SUBSET (0..length) /\ length \in Nat
    BY <1>2, BodyIs
  <2> HIDE DEF length
  <2>1. \E i \in is : \A j \in is : j <= i
    BY <1>3, <2>0, Greatest
  <2>2. QED
    BY <1>1, <1>2, <1>3, <2>1, BodyIs
<1>4. QED
  BY <1>1, <1>3

LEMMA PassedAll ==
  ASSUME body \in Bodies
  PROVE  Staying = Passed(Len(Tops) + 1)
<1>1. (Len(Tops) + 1) - 1 = Len(Tops) /\ DOMAIN Tops = 1..Len(Tops)
  BY BodyIs
<1>2. QED
  BY <1>1 DEF Staying, Passed

-----------------------------------------------------------------------------
(* A decoder that goes on is in order after each of its steps. *)

Ready(s, d) ==
  /\ body \in Bodies /\ Placed(at) /\ s \in Sets
  /\ Shaped(d) /\ d.status = "reading" /\ Underway(s, d, at)

LEMMA FailedGood ==
  ASSUME NEW s, NEW d, Shaped(d), NEW why, NEW path, Refused(s, Failed(d, why, path)), NEW p
  PROVE  Good(s, Failed(d, why, path), p)
BY FailedShaped DEF Good, Status

LEMMA UnderwayGood ==
  ASSUME NEW s, NEW e, NEW p, e.status = "reading", Underway(s, e, p)
  PROVE  Good(s, e, p)
BY DEF Good, Status

\* A member between the answers.
LEMMA PastTop ==
  ASSUME NEW s, NEW d, Ready(s, d), at.answer = 0, at.top <= Len(Tops), NEW e,
         e.answers = d.answers, e.answer = d.answer, d.has \subseteq e.has,
         "answers" \in e.has => "answers" \in d.has,
         Tops[at.top].key \in {"other"} \cup e.has, Tops[at.top].key # "answers"
  PROVE  Underway(s, e, [at EXCEPT !.top = @ + 1])
<1> DEFINE p == [at EXCEPT !.top = @ + 1]
<1>1. /\ at.top \in Nat /\ at.top \in 1..Len(Tops) /\ at.member = 0
      /\ p.top = at.top + 1 /\ p.answer = 0 /\ p.member = 0
  BY BodyIs DEF Ready, Placed, Position
<1>2. p.top - 1 = at.top /\ \A i \in 1..at.top : i = at.top \/ i \in 1..(at.top - 1)
  BY <1>1
<1>3. Passed(p.top) = Passed(at.top)
  BY <1>1, PassedNext DEF Ready
<1> HIDE DEF p
<1>4. /\ \A i \in 1..(at.top - 1) : Tops[i].key # "other" => Tops[i].key \in d.has
      /\ Gathered(s, d, Passed(at.top), Len(Passed(at.top)))
      /\ "answers" \in d.has => Filled(s, d)
      /\ d.answer = NoAnswer
  BY <1>1 DEF Ready, Underway
<1>5. \A i \in 1..(p.top - 1) : Tops[i].key # "other" => Tops[i].key \in e.has
  BY <1>2, <1>4
<1>6. Gathered(s, e, Passed(p.top), Len(Passed(p.top)))
  BY <1>3, <1>4, GatheredSame
<1>7. "answers" \in e.has => Filled(s, e)
  BY <1>4 DEF Filled
<1>8. QED
  BY <1>1, <1>4, <1>5, <1>6, <1>7 DEF Underway, p

LEMMA TopReadGood ==
  ASSUME NEW s, NEW d, Ready(s, d), at.answer = 0, at.top <= Len(Tops),
         Tops[at.top].key # "answers" \/ ~Tops[at.top].fits
  PROVE  Good(s, TopRead(d, Tops[at.top]), [at EXCEPT !.top = @ + 1])
<1> DEFINE top == Tops[at.top]
           p == [at EXCEPT !.top = @ + 1]
<1>0. Shaped(d) /\ d.status = "reading" /\ at.top \in DOMAIN Tops
  BY BodyIs DEF Ready, Placed, Position
<1>1. CASE top.key = "other"
  <2>1. TopRead(d, top) = d /\ top.key # "answers"
    BY <1>1 DEF TopRead
  <2>2. Underway(s, d, p)
    BY <1>1, PastTop
  <2>3. QED
    BY <1>0, <2>1, <2>2, UnderwayGood
<1>2. CASE top.key # "other" /\ top.fits
  <2> DEFINE e == [d EXCEPT !.has = @ \cup {top.key}]
  <2>1. TopRead(d, top) = e /\ top.key # "answers"
    BY <1>2 DEF TopRead
  <2>2. /\ e.answers = d.answers /\ e.answer = d.answer /\ e.has = d.has \cup {top.key}
        /\ e.status = "reading"
    BY <1>0 DEF Shaped
  <2> HIDE DEF e
  <2>3. Underway(s, e, p)
    BY <2>1, <2>2, PastTop
  <2>4. QED
    BY <2>1, <2>2, <2>3, UnderwayGood
<1>3. CASE top.key # "other" /\ ~top.fits
  <2> DEFINE e == Failed(d, "shape", <<top.key>>)
  <2>1. TopRead(d, top) = e
    BY <1>3 DEF TopRead
  <2>2. e.failure.path = <<top.key>> /\ e.failure.at = at
    BY <1>0, FailureIs
  <2> HIDE DEF e
  <2>3. TopAtFault(e.failure)
    BY <1>0, <1>3, <2>2 DEF TopAtFault
  <2>4. Refused(s, e)
    BY <2>2, <2>3, PathRules DEF Refused
  <2>5. QED
    BY <1>0, <2>1, <2>4, FailedGood DEF e
<1>4. QED
  BY <1>1, <1>2, <1>3

\* The answers, from the first on.
LEMMA EnterAnswersGood ==
  ASSUME NEW s, NEW d, Ready(s, d), at.answer = 0, at.top <= Len(Tops)
  PROVE  Good(s, [d EXCEPT !.answers = NoAnswers(s)], [at EXCEPT !.answer = 1])
<1> DEFINE p == [at EXCEPT !.answer = 1]
           e == [d EXCEPT !.answers = NoAnswers(s)]
<1>1. /\ at.top \in DOMAIN Tops /\ at.member = 0 /\ s \in Sets
      /\ p.top = at.top /\ p.answer = 1 /\ p.member = 0
  BY BodyIs DEF Ready, Placed, Position
<1>2. e.answers = NoAnswers(s) /\ e.answer = d.answer /\ e.has = d.has /\ e.status = "reading"
  BY DEF Ready, Shaped
<1> HIDE DEF p, e
<1>3. /\ \A i \in 1..(at.top - 1) : Tops[i].key # "other" => Tops[i].key \in d.has
      /\ d.answer = NoAnswer
  BY <1>1 DEF Ready, Underway
<1>4. AnswersAt(p) \in Seq(AnswerEntry) /\ p.answer - 1 = 0
  BY <1>1, BodyIs DEF Ready, AnswersAt
<1>5. Gathered(s, e, AnswersAt(p), 0)
  BY <1>1, <1>2, <1>4, GatherStart
<1>6. Underway(s, e, p)
  BY <1>1, <1>2, <1>3, <1>4, <1>5 DEF Underway
<1>7. QED
  BY <1>2, <1>6, UnderwayGood DEF p, e

\* What is known below `answers`.
LEMMA AmongAnswers ==
  ASSUME NEW s, NEW d, Ready(s, d), at.answer > 0
  PROVE  LET k == at.answer - 1
         IN  /\ k \in Nat /\ k + 1 = at.answer /\ at.top \in 1..Len(Tops) /\ at.top \in Nat
             /\ Tops[at.top].key = "answers" /\ at.answer <= Len(Entries) + 1 /\ at.member \in Nat
             /\ at \in Position
             /\ Entries \in Seq(AnswerEntry) /\ Len(Entries) \in Nat
             /\ Gathered(s, d, Entries, k)
             /\ \A i \in 1..(at.top - 1) : Tops[i].key # "other" => Tops[i].key \in d.has
             /\ at.answer <= Len(Entries) => k + 1 \in 1..Len(Entries) /\ Entry = Entries[k + 1]
<1> DEFINE k == at.answer - 1
<1>1. /\ at.answer \in Nat /\ at.answer # 0 /\ at.top \in 1..Len(Tops) /\ at.top \in Nat
      /\ at.member \in Nat /\ at \in Position
      /\ Tops[at.top].key = "answers" /\ at.answer <= Len(Entries) + 1
  BY BodyIs DEF Ready, Placed, Position, AnswersAt, Entries
<1>2. k \in Nat /\ k + 1 = at.answer
  BY <1>1
<1>3. Entries \in Seq(AnswerEntry) /\ Len(Entries) \in Nat
  BY <1>1, BodyIs, LenProperties DEF Ready, Entries
<1>4. /\ Gathered(s, d, Entries, k)
      /\ \A i \in 1..(at.top - 1) : Tops[i].key # "other" => Tops[i].key \in d.has
  BY DEF Ready, Underway, Entries, AnswersAt
<1>5. at.answer <= Len(Entries) => k + 1 \in 1..Len(Entries) /\ Entry = Entries[k + 1]
  BY <1>1, <1>2, <1>3 DEF Entry
<1>6. QED
  BY <1>1, <1>2, <1>3, <1>4, <1>5

\* An answer that begins.
LEMMA EnteredGood ==
  ASSUME NEW s, NEW d, Ready(s, d), at.answer > 0, at.member = 0, at.answer <= Len(Entries)
  PROVE  Good(s, Entered(s, d, Entry),
              IF Entry.object THEN [at EXCEPT !.member = 1] ELSE [at EXCEPT !.answer = @ + 1])
<1> DEFINE k == at.answer - 1
           n == Entry.name
           into == [at EXCEPT !.member = 1]
           past == [at EXCEPT !.answer = @ + 1]
<1>1. /\ k \in Nat /\ k + 1 = at.answer /\ at \in Position
      /\ Entries \in Seq(AnswerEntry) /\ Gathered(s, d, Entries, k)
      /\ \A i \in 1..(at.top - 1) : Tops[i].key # "other" => Tops[i].key \in d.has
      /\ k + 1 \in 1..Len(Entries) /\ Entry = Entries[k + 1]
  BY AmongAnswers
<1>2. s \in Sets /\ Shaped(d) /\ d.status = "reading" /\ d.answer = NoAnswer /\ at.answer \in Nat
  BY <1>1 DEF Ready, Underway
<1>3. into.top = at.top /\ into.answer = at.answer /\ into.member = 1
  BY <1>1 DEF Position
<1>4. past.top = at.top /\ past.answer = at.answer + 1 /\ past.member = 0
  BY <1>1 DEF Position
<1>5. AnswersAt(into) = Entries /\ AnswersAt(past) = Entries /\ EntryAt(into) = Entry
  BY <1>3, <1>4 DEF AnswersAt, EntryAt, Entries, Entry
<1> HIDE DEF into, past
<1>6. ASSUME NEW e, e.status = "reading", e.has = d.has, e.answers = d.answers,
             \/ e.answer.wanted = FALSE /\ ~Wanted(s, d, n)
             \/ /\ e.answer.wanted = TRUE /\ Wanted(s, d, n)
                /\ Collected(e.answer, Expected(s, n), Entry.members, 0)
      PROVE  Good(s, e, into)
  <2>1. Gathered(s, e, Entries, k) /\ Wanted(s, e, n) = Wanted(s, d, n)
    BY <1>1, <1>6, GatheredSame DEF Wanted
  <2>2. into.member - 1 = 0 /\ into.answer - 1 = k /\ into.answer # 0
    BY <1>1, <1>2, <1>3
  <2>3. Underway(s, e, into)
    BY <1>1, <1>3, <1>5, <1>6, <2>1, <2>2 DEF Underway
  <2>4. QED
    BY <1>6, <2>3, UnderwayGood
<1>7. CASE ~Wanted(s, d, n)
  <2>1. Entered(s, d, Entry) = d
    BY <1>7 DEF Entered
  <2>2. CASE Entry.object
    <3>1. d.answer.wanted = FALSE
      BY <1>2 DEF NoAnswer
    <3>2. QED
      BY <1>2, <1>6, <1>7, <2>1, <2>2, <3>1 DEF into
  <2>3. CASE ~Entry.object
    <3>1. Gathered(s, d, Entries, k + 1)
      BY <1>1, <1>2, <1>7, GatheredSkipped
    <3>2. past.answer - 1 = k + 1 /\ past.answer # 0
      BY <1>1, <1>2, <1>4
    <3>3. Underway(s, d, past)
      BY <1>1, <1>2, <1>4, <1>5, <3>1, <3>2 DEF Underway
    <3>4. QED
      BY <1>2, <2>1, <2>3, <3>3, UnderwayGood DEF past
  <2>4. QED
    BY <2>2, <2>3
<1>8. CASE Wanted(s, d, n) /\ Entry.object
  <2> DEFINE e == [d EXCEPT !.answer.wanted = TRUE]
  <2>1. Entered(s, d, Entry) = e
    BY <1>8 DEF Entered
  <2>2. /\ e.status = "reading" /\ e.has = d.has /\ e.answers = d.answers
        /\ e.answer = [NoAnswer EXCEPT !.wanted = TRUE]
    BY <1>2 DEF Shaped
  <2>3. e.answer.wanted = TRUE
    BY <2>2 DEF NoAnswer
  <2>4. Collected(e.answer, Expected(s, n), Entry.members, 0)
    BY <2>2, NothingSeen
  <2> HIDE DEF e
  <2>5. Good(s, e, into)
    BY <1>6, <1>8, <2>2, <2>3, <2>4
  <2>6. QED
    BY <1>8, <2>1, <2>5 DEF into
<1>9. CASE Wanted(s, d, n) /\ ~Entry.object
  <2> DEFINE path == <<"answers", n, "type">>
             e == Failed(d, "type", path)
  <2>1. Entered(s, d, Entry) = e
    BY <1>9 DEF Entered
  <2>2. e.failure.path = <<"answers", n, "type">> /\ e.failure.at = at
    BY <1>2, FailureIs
  <2> HIDE DEF e
  <2>3. At(e.failure) = Entry
    BY <2>2 DEF At, Entry, Entries, Tops
  <2>4. TypeAtFault(s, e.failure)
    BY <1>9, <2>3 DEF TypeAtFault
  <2>5. Refused(s, e)
    BY <2>2, <2>4, PathRules DEF Refused
  <2>6. QED
    BY <1>2, <2>1, <2>5, FailedGood DEF e
<1>10. QED
  BY <1>7, <1>8, <1>9

\* What is known within an answer that is read.
LEMMA WithinAnswer ==
  ASSUME NEW s, NEW d, Ready(s, d), at.member > 0
  PROVE  LET n == Entry.name
             k == at.member - 1
         IN  /\ Reached /\ at.answer > 0 /\ at.answer <= Len(Entries)
             /\ s \in Sets /\ Shaped(d) /\ d.status = "reading"
             /\ \/ d.answer.wanted = FALSE /\ ~Wanted(s, d, n)
                \/ /\ d.answer.wanted = TRUE /\ Wanted(s, d, n)
                   /\ Collected(d.answer, Expected(s, n), Entry.members, k)
             /\ Wanted(s, d, n) => Expected(s, n) \in Kinds
             /\ Wanted(s, d, n) => (s = "struct" => FieldKind(n) \in Known)
             /\ d.answer.wanted = TRUE => KindKnown(s, n, d.answer.seen)
<1> DEFINE n == Entry.name
           k == at.member - 1
<1>1. Reached /\ s \in Sets /\ Shaped(d) /\ d.status = "reading"
  BY DEF Ready, Reached
<1>2. at.answer > 0 /\ at.answer <= Len(Entries)
  BY <1>1, MembersIs
<1>3. \/ d.answer.wanted = FALSE /\ ~Wanted(s, d, n)
      \/ /\ d.answer.wanted = TRUE /\ Wanted(s, d, n)
         /\ Collected(d.answer, Expected(s, n), Entry.members, k)
  BY DEF Ready, Underway, EntryAt, AnswersAt, Entry, Entries
<1>4. Wanted(s, d, n) => (s = "struct" => FieldKind(n) \in Known)
  BY BodyIs DEF Wanted, Ready
<1>5. Wanted(s, d, n) => Expected(s, n) \in Kinds
  BY <1>1, <1>4 DEF Expected, Kinds, Sets
<1>6. d.answer.wanted = TRUE => KindKnown(s, n, d.answer.seen)
  BY <1>3, <1>4 DEF KindKnown, Collected
<1>7. QED
  BY <1>1, <1>2, <1>3, <1>4, <1>5, <1>6

\* A member of an answer.
LEMMA MemberReadGood ==
  ASSUME NEW s, NEW d, Ready(s, d), at.member > 0, at.member <= Len(Entry.members)
  PROVE  Good(s, MemberRead(s, d, Entry.name, Entry.members[at.member]), [at EXCEPT !.member = @ + 1])
<1> DEFINE n == Entry.name
           members == Entry.members
           k == at.member - 1
           m == members[at.member]
           x == Expected(s, n)
           p == [at EXCEPT !.member = @ + 1]
           read == MemberRead(s, d, n, m)
<1>1. /\ Reached /\ at.answer > 0 /\ at.answer <= Len(Entries)
      /\ s \in Sets /\ Shaped(d) /\ d.status = "reading"
      /\ \/ d.answer.wanted = FALSE /\ ~Wanted(s, d, n)
         \/ /\ d.answer.wanted = TRUE /\ Wanted(s, d, n) /\ Collected(d.answer, x, members, k)
      /\ Wanted(s, d, n) => x \in Kinds
      /\ d.answer.wanted = TRUE => KindKnown(s, n, d.answer.seen)
  BY WithinAnswer
<1>2. /\ members \in Seq(Member) /\ k \in Nat /\ k + 1 = at.member /\ at.member \in Nat
      /\ k + 1 \in 1..Len(members)
  BY <1>1, MembersIs
<1>3. /\ at \in Position /\ Gathered(s, d, Entries, at.answer - 1)
      /\ \A i \in 1..(at.top - 1) : Tops[i].key # "other" => Tops[i].key \in d.has
  BY <1>1, AmongAnswers
<1>4. /\ p.top = at.top /\ p.answer = at.answer /\ p.member = at.member + 1
      /\ AnswersAt(p) = Entries /\ EntryAt(p) = Entry
  BY <1>3 DEF Position, AnswersAt, EntryAt, Entries, Entry
<1> HIDE DEF p
<1>5. ASSUME NEW e, SameSet(e, d),
             \/ e.answer.wanted = FALSE /\ ~Wanted(s, d, n)
             \/ /\ e.answer.wanted = TRUE /\ Wanted(s, d, n)
                /\ Collected(e.answer, x, members, k + 1)
      PROVE  Good(s, e, p)
  <2>1. /\ Gathered(s, e, Entries, at.answer - 1) /\ Wanted(s, e, n) = Wanted(s, d, n)
        /\ e.status = "reading" /\ e.has = d.has
    BY <1>1, <1>3, <1>5, GatheredSame DEF Wanted, SameSet
  <2>2. p.member - 1 = k + 1 /\ p.member # 0 /\ p.member > 0 /\ p.answer # 0
    BY <1>1, <1>2, <1>4
  <2>3. Underway(s, e, p)
    BY <1>3, <1>4, <1>5, <2>1, <2>2 DEF Underway
  <2>4. QED
    BY <2>1, <2>3, UnderwayGood
<1>6. CASE d.answer.wanted = FALSE
  <2>1. read = d
    BY <1>6 DEF MemberRead
  <2>2. QED
    BY <1>1, <1>5, <1>6, <2>1 DEF SameSet, p
<1>7. CASE d.answer.wanted = TRUE /\ m.key = "other"
  <2>1. read = d
    BY <1>7 DEF MemberRead
  <2>2. Collected(d.answer, x, members, k + 1)
    <3>1. members[k + 1].key = "other"
      BY <1>2, <1>7
    <3>2. SeenTells(x, d.answer.seen, members, k) /\ members[k + 1].key # "type"
      BY <1>1, <1>7, <3>1 DEF Collected
    <3> HIDE DEF x, k, members
    <3>3. SeenTells(x, d.answer.seen, members, k + 1)
      BY <1>2, <3>2, SeenOfOther
    <3>4. ASSUME NEW o \in DataMembers
          PROVE  SlotTells(d.answer.slots[o], x, d.answer.seen, o, members, k + 1)
      <4>1. members[k + 1].key # o
        BY <3>1 DEF DataMembers
      <4>2. SlotTells(d.answer.slots[o], x, d.answer.seen, o, members, k)
        BY <1>1, <1>7 DEF Collected
      <4>3. QED
        BY <1>2, <4>1, <4>2, SlotOfOther
    <3>5. QED
      BY <3>3, <3>4 DEF Collected
  <2>3. QED
    BY <1>1, <1>5, <1>7, <2>1, <2>2 DEF SameSet, p
<1>8. CASE d.answer.wanted = TRUE /\ m.key = "type"
  <2> DEFINE e == OnType(s, d, n, m.type)
  <2>1. read = e
    BY <1>8 DEF MemberRead
  <2>2. members[k + 1].key = "type" /\ members[k + 1] = m /\ x \in Kinds /\ Collected(d.answer, x, members, k)
    BY <1>1, <1>2, <1>8
  <2>3. \/ /\ SameSet(e, d) /\ e.answer.wanted = d.answer.wanted
           /\ Collected(e.answer, x, members, k + 1)
        \/ /\ e = Failed(d, "type", <<"answers", n, "type">>)
           /\ BadType(x, d.answer.seen, m.type)
    <3> DEFINE t == members[k + 1].type
               f == OnType(s, d, n, t)
    <3>1. e = f /\ t = m.type
      BY <2>2
    <3> HIDE DEF members, k, m, n, e
    <3>2. \/ /\ SameSet(f, d) /\ f.answer.wanted = d.answer.wanted
             /\ Collected(f.answer, x, members, k + 1)
          \/ /\ f = Failed(d, "type", <<"answers", n, "type">>)
             /\ BadType(x, d.answer.seen, t)
      BY <1>1, <1>2, <2>2, OnTypeTells
    <3> HIDE DEF f, t
    <3>3. QED
      BY <3>1, <3>2
  <2> HIDE DEF e
  <2>4. CASE SameSet(e, d) /\ e.answer.wanted = d.answer.wanted /\ Collected(e.answer, x, members, k + 1)
    BY <1>1, <1>5, <1>8, <2>1, <2>4 DEF p
  <2>5. CASE e = Failed(d, "type", <<"answers", n, "type">>) /\ BadType(x, d.answer.seen, m.type)
    <3>1. Refused(s, e)
      BY <1>1, <1>8, <2>5, TypeRefused
    <3>2. QED
      BY <1>1, <2>1, <2>5, <3>1, FailedGood
  <2>6. QED
    BY <2>3, <2>4, <2>5
<1>9. CASE d.answer.wanted = TRUE /\ m.key \in DataMembers
  <2> DEFINE e == OnData(s, d, n, m.key, m.value)
             kind == KindOf(x, d.answer.seen)
  <2>1. read = e
    BY <1>9 DEF MemberRead, DataMembers
  <2>2. /\ members[k + 1].key = m.key /\ members[k + 1] = m /\ x \in Kinds
        /\ Collected(d.answer, x, members, k)
    BY <1>1, <1>2, <1>9
  <2>3. \/ /\ SameSet(e, d) /\ e.answer.wanted = d.answer.wanted
           /\ Collected(e.answer, x, members, k + 1)
        \/ /\ e = Failed(d, "shape", <<"answers", n, m.key>>)
           /\ kind # None /\ BelongsTo(m.key, kind) /\ ~Fits(m.key, kind, m.value)
    <3> DEFINE v == members[k + 1].value
               key == m.key
               f == OnData(s, d, n, key, v)
    <3>1. e = f /\ v = m.value /\ key \in DataMembers /\ members[k + 1].key = key
      BY <1>9, <2>2
    <3> HIDE DEF members, k, m, n, e, key
    <3>2. \/ /\ SameSet(f, d) /\ f.answer.wanted = d.answer.wanted
             /\ Collected(f.answer, x, members, k + 1)
          \/ /\ f = Failed(d, "shape", <<"answers", n, key>>)
             /\ kind # None /\ BelongsTo(key, kind) /\ ~Fits(key, kind, v)
      BY <1>1, <1>2, <2>2, <3>1, OnDataTells
    <3> HIDE DEF f, v
    <3>3. QED
      BY <3>1, <3>2 DEF key
  <2> HIDE DEF e
  <2>4. CASE SameSet(e, d) /\ e.answer.wanted = d.answer.wanted /\ Collected(e.answer, x, members, k + 1)
    BY <1>1, <1>5, <1>9, <2>1, <2>4 DEF p
  <2>5. CASE /\ e = Failed(d, "shape", <<"answers", n, m.key>>)
             /\ kind # None /\ BelongsTo(m.key, kind) /\ ~Fits(m.key, kind, m.value)
    <3>1. Refused(s, e)
      BY <1>1, <1>9, <2>5, ShapeRefused
    <3>2. QED
      BY <1>1, <2>1, <2>5, <3>1, FailedGood
  <2>6. QED
    BY <2>3, <2>4, <2>5
<1>10. m.key \in {"type", "other"} \cup DataMembers
  BY <1>2, MemberIs
<1>11. QED
  BY <1>1, <1>6, <1>7, <1>8, <1>9, <1>10

\* An answer that ends.
LEMMA LeftGood ==
  ASSUME NEW s, NEW d, Ready(s, d), at.member > 0, at.member > Len(Entry.members)
  PROVE  Good(s, Left(s, d, Entry.name), [at EXCEPT !.answer = @ + 1, !.member = 0])
<1> DEFINE n == Entry.name
           members == Entry.members
           x == Expected(s, n)
           j == at.answer - 1
           p == [at EXCEPT !.answer = @ + 1, !.member = 0]
           left == Left(s, d, n)
           seen == d.answer.seen
<1>1. /\ Reached /\ at.answer > 0 /\ at.answer <= Len(Entries)
      /\ s \in Sets /\ Shaped(d) /\ d.status = "reading"
      /\ \/ d.answer.wanted = FALSE /\ ~Wanted(s, d, n)
         \/ /\ d.answer.wanted = TRUE /\ Wanted(s, d, n) /\ Collected(d.answer, x, members, at.member - 1)
      /\ Wanted(s, d, n) => (s = "struct" => FieldKind(n) \in Known)
      /\ d.answer.wanted = TRUE => KindKnown(s, n, d.answer.seen)
  BY WithinAnswer
<1>2. /\ members \in Seq(Member) /\ Len(members) \in Nat /\ DOMAIN members = 1..Len(members)
      /\ at.member - 1 = Len(members)
  BY <1>1, MembersIs
<1>3. /\ j \in Nat /\ j + 1 = at.answer /\ at \in Position /\ at.answer \in Nat
      /\ Entries \in Seq(AnswerEntry) /\ Gathered(s, d, Entries, j)
      /\ \A i \in 1..(at.top - 1) : Tops[i].key # "other" => Tops[i].key \in d.has
      /\ j + 1 \in 1..Len(Entries) /\ Entry = Entries[j + 1]
  BY <1>1, AmongAnswers DEF Position
<1>4. p.top = at.top /\ p.answer = at.answer + 1 /\ p.member = 0 /\ AnswersAt(p) = Entries
  <2> DEFINE q == [at EXCEPT !.answer = @ + 1]
  <2>1. q \in Position /\ q.top = at.top /\ q.answer = at.answer + 1 /\ p = [q EXCEPT !.member = 0]
    BY <1>3 DEF Position
  <2> HIDE DEF q, p
  <2>2. p.top = at.top /\ p.answer = at.answer + 1 /\ p.member = 0
    BY <2>1 DEF Position
  <2>3. QED
    BY <2>2 DEF AnswersAt, Entries
<1> HIDE DEF p
<1>5. ASSUME NEW e, e.status = "reading", e.has = d.has, e.answer = NoAnswer,
             Gathered(s, e, Entries, j + 1)
      PROVE  Good(s, e, p)
  <2>1. p.answer - 1 = j + 1 /\ p.answer # 0
    BY <1>3, <1>4
  <2>2. Underway(s, e, p)
    BY <1>3, <1>4, <1>5, <2>1 DEF Underway
  <2>3. QED
    BY <1>5, <2>2, UnderwayGood
<1>6. ASSUME NEW b, Shaped(b)
      PROVE  LET e == [b EXCEPT !.answer = NoAnswer]
             IN  /\ e.status = b.status /\ e.failure = b.failure /\ e.has = b.has
                 /\ e.answers = b.answers /\ e.answer = NoAnswer
  BY <1>6 DEF Shaped
<1>7. ASSUME NEW why, NEW path, Build(s, d, n) = Failed(d, why, path), d.answer.wanted = TRUE,
             Refused(s, Failed(d, why, path))
      PROVE  Good(s, left, p)
  <2> DEFINE b == Failed(d, why, path)
             e == [b EXCEPT !.answer = NoAnswer]
  <2>1. left = e
    BY <1>7 DEF Left
  <2>2. Shaped(b) /\ b.status = "failed"
    BY <1>1, FailedShaped
  <2> HIDE DEF b
  <2>3. e.status = "failed" /\ e.failure = b.failure
    BY <1>6, <2>2
  <2> HIDE DEF e
  <2>4. Refused(s, e)
    BY <1>7, <2>3 DEF Refused, b
  <2>5. QED
    BY <2>1, <2>3, <2>4 DEF Good, Status
<1>8. ASSUME NEW b, Shaped(b), b.status = "reading", b.has = d.has, Gathered(s, b, Entries, j + 1),
             left = [b EXCEPT !.answer = NoAnswer]
      PROVE  Good(s, left, p)
  <2> DEFINE e == [b EXCEPT !.answer = NoAnswer]
  <2>1. e.status = "reading" /\ e.has = d.has /\ e.answer = NoAnswer /\ e.answers = b.answers
    BY <1>6, <1>8
  <2> HIDE DEF e
  <2>2. Gathered(s, e, Entries, j + 1)
    BY <1>8, <2>1, GatheredSame
  <2>3. QED
    BY <1>5, <1>8, <2>1, <2>2 DEF e
<1>9. CASE d.answer.wanted = FALSE
  <2>1. Gathered(s, d, Entries, j + 1)
    BY <1>1, <1>3, <1>9, GatheredSkipped
  <2>2. left = [d EXCEPT !.answer = NoAnswer]
    BY <1>9 DEF Left
  <2>3. QED
    BY <1>1, <1>8, <2>1, <2>2 DEF p
<1>10. CASE d.answer.wanted = TRUE
  <2>1. Wanted(s, d, n) /\ Collected(d.answer, x, members, Len(members)) /\ KindKnown(s, n, seen)
    BY <1>1, <1>2, <1>10
  <2> DEFINE b == Build(s, d, n)
  <2>2. left = [b EXCEPT !.answer = NoAnswer]
    BY <1>10 DEF Left
  <2>3. /\ SeenTells(x, seen, members, Len(members)) /\ (seen # None => x \in {None, seen})
        /\ TypesOf(members) = IF seen = None THEN {} ELSE {seen}
    <3>1. SeenTells(x, seen, members, Len(members))
      BY <2>1 DEF Collected
    <3>2. QED
      BY <1>2, <3>1, TypesAre DEF SeenTells
  <2>4. s = "struct" => x = FieldKind(n) /\ x \in Known /\ x # None
    BY <1>1, <2>1, DecodeAssumption DEF Expected
  <2>5. CASE seen = None /\ b = Failed(d, "type", <<"answers", n, "type">>)
    <3>1. Refused(s, Failed(d, "type", <<"answers", n, "type">>))
      BY <1>1, <2>1, <2>5, UntypedRefused
    <3>2. QED
      BY <1>7, <1>10, <2>5, <3>1 DEF p
  <2>6. CASE seen # None /\ seen \notin Known /\ b = d
    <3>1. s = "map"
      BY <1>1, <2>3, <2>4, <2>6 DEF Sets
    <3>2. j + 1 \notin Telling(Entries)
      BY <1>3, <2>3, <2>6 DEF Telling
    <3>3. Gathered(s, d, Entries, j + 1)
      BY <1>3, <3>1, <3>2, GatheredUnknown
    <3>4. QED
      BY <1>1, <1>8, <2>2, <2>6, <3>3 DEF p
  <2>7. CASE seen \in Known /\ FirstFault(d, seen) = 0 /\ b = Keep(s, d, n)
    <3>1. Told(Built(d), Entry) /\ Built(d).kind = seen
      BY <1>2, <2>1, <2>7, BuiltTold
    <3>2. TypesOf(members) \subseteq Known
      BY <2>3, <2>7
    <3>3. s = "struct" => Built(d).kind = FieldKind(n)
      BY <2>3, <2>4, <2>7, <3>1
    <3>4. Gathered(s, b, Entries, j + 1)
      BY <1>1, <1>3, <2>1, <2>7, <3>1, <3>2, <3>3, GatheredKept
    <3>5. Shaped(b) /\ b.status = "reading" /\ b.has = d.has
      BY <1>1, <2>7 DEF Keep, Shaped
    <3> HIDE DEF b
    <3>6. QED
      BY <1>8, <2>2, <3>4, <3>5 DEF p
  <2>8. ASSUME NEW m \in DataMembers, seen \in Known, b = Failed(d, "missing", <<"answers", n, m>>),
               BelongsTo(m, seen), \A i \in 1..Len(members) : members[i].key # m
        PROVE  Good(s, left, p)
    <3>1. Refused(s, Failed(d, "missing", <<"answers", n, m>>))
      BY <1>1, <2>1, <2>8, MissingRefused
    <3>2. QED
      BY <1>7, <1>10, <2>8, <3>1
  <2>9. ASSUME NEW m \in DataMembers, NEW i \in 1..Len(members), seen \in Known,
               b = Failed(d, "held", <<"answers", n>>), x = None,
               members[i].key = m, Untyped(members, i), ~Fits(m, seen, members[i].value)
        PROVE  Good(s, left, p)
    <3>1. s = "map"
      BY <1>1, <2>4, <2>9 DEF Sets
    <3>2. Refused("map", Failed(d, "held", <<"answers", n>>))
      BY <1>1, <2>1, <2>9, <3>1, HeldRefused
    <3>3. QED
      BY <1>7, <1>10, <2>9, <3>1, <3>2
  <2>10. \/ seen = None /\ b = Failed(d, "type", <<"answers", n, "type">>)
         \/ seen # None /\ seen \notin Known /\ b = d
         \/ seen \in Known /\ FirstFault(d, seen) = 0 /\ b = Keep(s, d, n)
         \/ /\ seen \in Known
            /\ \E m \in DataMembers :
                 /\ b = Failed(d, "missing", <<"answers", n, m>>)
                 /\ BelongsTo(m, seen) /\ \A i \in 1..Len(members) : members[i].key # m
         \/ /\ seen \in Known /\ b = Failed(d, "held", <<"answers", n>>) /\ x = None
            /\ \E m \in DataMembers : \E i \in 1..Len(members) :
                 /\ members[i].key = m /\ Untyped(members, i)
                 /\ ~Fits(m, seen, members[i].value)
    <3> HIDE DEF members
    <3>1. QED
      BY <1>2, <2>1, BuildTells
  <2> HIDE DEF b, x, seen, members, left, n
  <2>11. QED
    BY <2>5, <2>6, <2>7, <2>8, <2>9, <2>10 DEF p, left, n
<1>11. QED
  BY <1>1, <1>9, <1>10

\* The first of a struct's fields without an answer.
LEMMA LackingIs ==
  ASSUME NEW d
  PROVE  IF Lacking(d) = 0
           THEN \A i \in 1..Len(body.fields) : d.answers[body.fields[i].name] # Unfilled
           ELSE /\ Lacking(d) \in 1..Len(body.fields)
                /\ d.answers[body.fields[Lacking(d)].name] = Unfilled
<1> DEFINE I == {i \in 1..Len(body.fields) : d.answers[body.fields[i].name] = Unfilled}
<1>1. Lacking(d) = IF I # {} THEN Min(I) ELSE 0
  BY DEF Lacking, SelectInSeq
<1>2. I \in SUBSET Nat /\ 0 \notin I
  OBVIOUS
<1>3. I # {} => Min(I) \in I
  BY <1>2, Mins
<1>4. QED
  BY <1>1, <1>2, <1>3

\* The end of the answers.
LEMMA CompleteGood ==
  ASSUME NEW s, NEW d, Ready(s, d), at.answer > 0, at.member = 0, at.answer > Len(Entries)
  PROVE  Good(s, Complete(s, d), [at EXCEPT !.top = @ + 1, !.answer = 0])
<1> DEFINE p == [at EXCEPT !.top = @ + 1, !.answer = 0]
<1>1. /\ at.top \in 1..Len(Tops) /\ at.top \in Nat /\ Tops[at.top].key = "answers" /\ at \in Position
      /\ Len(Entries) \in Nat /\ at.answer = Len(Entries) + 1 /\ at.answer - 1 = Len(Entries)
      /\ Gathered(s, d, Entries, Len(Entries))
      /\ \A i \in 1..(at.top - 1) : Tops[i].key # "other" => Tops[i].key \in d.has
  <2>1. /\ at.answer - 1 \in Nat /\ at.answer <= Len(Entries) + 1 /\ Len(Entries) \in Nat
        /\ (at.answer - 1) + 1 = at.answer
        /\ Gathered(s, d, Entries, at.answer - 1)
    BY AmongAnswers
  <2>2. at.answer - 1 = Len(Entries)
    BY <2>1
  <2>3. QED
    BY <2>1, <2>2, AmongAnswers
<1>2. s \in Sets /\ Shaped(d) /\ d.status = "reading" /\ d.answer = NoAnswer /\ body \in Bodies
  BY DEF Ready, Underway
<1>3. p.top = at.top + 1 /\ p.answer = 0 /\ p.member = 0
  <2> DEFINE q == [at EXCEPT !.top = @ + 1]
  <2>1. q \in Position /\ q.top = at.top + 1 /\ q.member = 0 /\ p = [q EXCEPT !.answer = 0]
    BY <1>1 DEF Position
  <2> HIDE DEF q, p
  <2>2. QED
    BY <2>1 DEF Position
<1>4. Passed(p.top) = Entries
  BY <1>1, <1>2, <1>3, PassedNext DEF Entries
<1> HIDE DEF p
<1>5. CASE s = "map" \/ Lacking(d) = 0
  <2> DEFINE e == [d EXCEPT !.has = @ \cup {"answers"}]
  <2>1. Complete(s, d) = e
    BY <1>5 DEF Complete
  <2>2. /\ e.status = "reading" /\ e.has = d.has \cup {"answers"} /\ e.answers = d.answers
        /\ e.answer = NoAnswer
    BY <1>2 DEF Shaped
  <2>3. s = "struct" => \A n \in FieldNames : d.answers[n] # Unfilled
    <3>1. DOMAIN body.fields = 1..Len(body.fields)
      BY <1>2, BodyIs
    <3>2. QED
      BY <1>5, <3>1, LackingIs DEF FieldNames
  <2>4. p.top - 1 = at.top /\ \A i \in 1..at.top : i = at.top \/ i \in 1..(at.top - 1)
    BY <1>1, <1>3
  <2> HIDE DEF e
  <2>5. \A i \in 1..(p.top - 1) : Tops[i].key # "other" => Tops[i].key \in e.has
    BY <1>1, <2>2, <2>4
  <2>6. Gathered(s, e, Passed(p.top), Len(Passed(p.top)))
    BY <1>1, <1>4, <2>2, GatheredSame
  <2>7. Filled(s, e)
    BY <2>2, <2>3 DEF Filled
  <2>8. Underway(s, e, p)
    BY <1>3, <2>2, <2>5, <2>6, <2>7 DEF Underway
  <2>9. QED
    BY <2>1, <2>2, <2>8, UnderwayGood DEF p
<1>6. CASE s # "map" /\ Lacking(d) # 0
  <2> DEFINE n == body.fields[Lacking(d)].name
             e == Failed(d, "missing", <<"answers", n>>)
  <2>1. Complete(s, d) = e /\ s = "struct"
    BY <1>2, <1>6 DEF Complete, Sets
  <2>2. n \in FieldNames /\ d.answers[n] = Unfilled
    <3>1. DOMAIN body.fields = 1..Len(body.fields)
      BY <1>2, BodyIs
    <3>2. QED
      BY <1>6, <3>1, LackingIs DEF FieldNames
  <2>3. e.failure.path = <<"answers", n>> /\ e.failure.at = at
    BY <1>2, FailureIs
  <2> HIDE DEF n, e
  <2>4. ~NamedBefore(Entries, Len(Entries), n)
    BY <1>1, <2>1, <2>2, ToldFilled DEF Gathered
  <2>5. DOMAIN Entries = 1..Len(Entries) /\ e.failure.path[2] = n
        /\ body.tops[e.failure.at.top].answers = Entries
    BY <1>1, <1>2, <2>3, AnswersIs, BodyIs DEF Entries, Tops
  <2>6. AnswerAtFault(s, e.failure)
    BY <2>1, <2>4, <2>5 DEF AnswerAtFault, NamedBefore
  <2>7. Refused(s, e)
    BY <2>3, <2>6, PathRules DEF Refused
  <2>8. QED
    BY <1>2, <2>1, <2>7, FailedGood DEF e
<1>7. QED
  BY <1>5, <1>6

\* The end of the body.
LEMMA FinishGood ==
  ASSUME NEW s, NEW d, Ready(s, d), at.answer = 0, at.top > Len(Tops)
  PROVE  Good(s, Finish(s, d), at)
<1>1. /\ s \in Sets /\ Shaped(d) /\ d.status = "reading" /\ body \in Bodies
      /\ Len(Tops) \in Nat /\ DOMAIN Tops = 1..Len(Tops) /\ at.top = Len(Tops) + 1 /\ at.top - 1 = Len(Tops)
  BY BodyIs DEF Ready, Placed, Position
<1>2. /\ \A i \in DOMAIN Tops : Tops[i].key # "other" => Tops[i].key \in d.has
      /\ Gathered(s, d, Staying, Len(Staying))
      /\ "answers" \in d.has => Filled(s, d)
  BY <1>1, PassedAll DEF Ready, Underway
<1>3. ASSUME NEW key \in {"model", "usage", "answers"}, key \notin d.has
      PROVE  Good(s, Failed(d, "missing", <<key>>), at)
  <2> DEFINE e == Failed(d, "missing", <<key>>)
  <2>1. e.failure.path = <<key>> /\ e.failure.at = at
    BY <1>1, FailureIs
  <2> HIDE DEF e
  <2>2. \A i \in DOMAIN Tops : Tops[i].key # key
    BY <1>2, <1>3
  <2>3. TopAtFault(e.failure)
    BY <2>1, <2>2 DEF TopAtFault
  <2>4. Refused(s, e)
    BY <2>1, <2>3, PathRules DEF Refused
  <2>5. QED
    BY <1>1, <2>4, FailedGood DEF e
<1>4. ASSUME "answers" \in d.has \/ NoAnswers(s) = <<>>
      PROVE  Good(s, [d EXCEPT !.status = "ok"], at)
  <2> DEFINE e == [d EXCEPT !.status = "ok"]
  <2>1. e.status = "ok" /\ e.answers = d.answers
    BY <1>1 DEF Shaped
  <2>2. CASE s = "map"
    <3>1. Staying \in Seq(AnswerEntry)
      BY <1>1, PassedIs, PassedAll
    <3>2. d.answers = Mapped(Sift(Staying, Telling(Staying)))
      BY <1>2, <2>2, <3>1, HeardAll DEF Gathered
    <3>3. QED
      BY <2>1, <2>2, <3>2 DEF Good, Accepted, Status
  <2>3. CASE s = "struct"
    <3>1. ASSUME NEW n \in FieldNames PROVE d.answers[n] # Unfilled
      <4>1. CASE "answers" \in d.has
        BY <1>2, <2>3, <4>1 DEF Filled
      <4>2. CASE NoAnswers(s) = <<>>
        <5>1. DOMAIN NoAnswers(s) = FieldNames
          BY <2>3 DEF NoAnswers
        <5>2. DOMAIN <<>> = {}
          OBVIOUS
        <5>3. QED
          BY <4>2, <5>1, <5>2
      <4>3. QED
        BY <1>4, <4>1, <4>2
    <3>2. \A n \in FieldNames : Told(d.answers[n], First(Staying, n)) /\ d.answers[n].kind = FieldKind(n)
      BY <1>2, <2>3, <3>1 DEF Gathered
    <3>3. QED
      BY <2>1, <2>3, <3>2 DEF Good, Accepted, Status
  <2>4. QED
    BY <1>1, <2>2, <2>3 DEF Sets
<1>5. QED
  BY <1>3, <1>4 DEF Finish

\* Text that is no JSON.
LEMMA BrokenGood ==
  ASSUME NEW s, NEW d, Shaped(d), NEW p
  PROVE  Good(s, Failed(d, "syntax", <<>>), p)
<1>1. Refused(s, Failed(d, "syntax", <<>>))
  BY FailureIs DEF Refused
<1>2. QED
  BY <1>1, FailedGood

-----------------------------------------------------------------------------
(* The body stays, so what holds of a decoder at a position goes on to hold. *)

LEMMA FieldsLater ==
  ASSUME body' = body
  PROVE  /\ Tops' = Tops /\ Staying' = Staying /\ FieldNames' = FieldNames
         /\ \A n : FieldKind(n)' = FieldKind(n)
         /\ \A top : Passed(top)' = Passed(top)
         /\ \A p : AnswersAt(p)' = AnswersAt(p) /\ EntryAt(p)' = EntryAt(p)
         /\ \A s, n : Expected(s, n)' = Expected(s, n)
         /\ \A s, d, n : Wanted(s, d, n)' = Wanted(s, d, n)
         /\ \A s, d : Filled(s, d)' = Filled(s, d)
<1>1. Tops' = Tops
  BY DEF Tops
<1>2. Staying' = Staying
  BY <1>1 DEF Staying
<1>3. FieldNames' = FieldNames
  BY DEF FieldNames
<1>4. \A n : FieldKind(n)' = FieldKind(n)
  BY DEF FieldKind
<1>5. \A top : Passed(top)' = Passed(top)
  BY <1>1 DEF Passed
<1>6. \A p : AnswersAt(p)' = AnswersAt(p) /\ EntryAt(p)' = EntryAt(p)
  BY <1>1 DEF AnswersAt, EntryAt
<1>7. \A s, n : Expected(s, n)' = Expected(s, n)
  BY <1>4 DEF Expected
<1>8. \A s, d, n : Wanted(s, d, n)' = Wanted(s, d, n)
  BY <1>3 DEF Wanted
<1>9. \A s, d : Filled(s, d)' = Filled(s, d)
  BY <1>3 DEF Filled
<1>10. QED
  BY <1>1, <1>2, <1>3, <1>4, <1>5, <1>6, <1>7, <1>8, <1>9

LEMMA UnderwayLater ==
  ASSUME body' = body, NEW s, NEW d, NEW p
  PROVE  Underway(s, d, p)' = Underway(s, d, p)
<1>1. /\ Tops' = Tops /\ Passed(p.top)' = Passed(p.top) /\ Filled(s, d)' = Filled(s, d)
      /\ AnswersAt(p)' = AnswersAt(p) /\ EntryAt(p)' = EntryAt(p)
  BY FieldsLater
<1>2. /\ Gathered(s, d, Passed(p.top), Len(Passed(p.top)))' = Gathered(s, d, Passed(p.top), Len(Passed(p.top)))
      /\ Gathered(s, d, AnswersAt(p), p.answer - 1)' = Gathered(s, d, AnswersAt(p), p.answer - 1)
  BY <1>1, FieldsLater DEF Gathered
<1>3. /\ Expected(s, EntryAt(p).name)' = Expected(s, EntryAt(p).name)
      /\ Wanted(s, d, EntryAt(p).name)' = Wanted(s, d, EntryAt(p).name)
  BY <1>1, FieldsLater DEF Expected, Wanted
<1>4. QED
  BY <1>1, <1>2, <1>3 DEF Underway

LEMMA GoodLater ==
  ASSUME body' = body, NEW s, NEW d, NEW p, dec'[s] = d, at' = p, Good(s, d, p)
  PROVE  Good(s, dec[s], at)'
<1>1. Underway(s, d, p) => Underway(s, dec[s], at)'
  BY UnderwayLater
<1>2. Refused(s, d) => Refused(s, dec[s])'
  BY DEF Refused, PathTells, TopAtFault, AnswerAtFault, TypeAtFault, MemberAtFault, At, ReadOf, KindAt, FieldKind, Tops
<1>3. Accepted(s, d) => Accepted(s, dec[s])'
  BY FieldsLater DEF Accepted
<1>4. QED
  BY <1>1, <1>2, <1>3 DEF Good

LEMMA PlacedLater ==
  ASSUME body' = body, NEW p, at' = p, Placed(p)
  PROVE  Placed(at)'
BY DEF Placed, AnswersAt, EntryAt, Tops

-----------------------------------------------------------------------------
(* Every step keeps the decoders in order. *)

LEMMA EachGood ==
  ASSUME TInv, IInv', body' = body, NEW STATE next, Each(next), NEW p, at' = p, Placed(p),
         \A s \in Sets : dec[s].status = "reading" => Good(s, next[s], p)
  PROVE  TInv'
<1>1. Placed(at)' /\ body' \in Bodies
  BY PlacedLater DEF TInv
<1>2. ASSUME NEW s \in Sets PROVE Good(s, dec[s], at)'
  <2> DEFINE d == dec'[s]
  <2>1. CASE dec[s].status = "reading"
    <3>1. dec'[s] = next[s]
      BY <2>1 DEF Each
    <3>2. Good(s, next[s], p)
      BY <2>1
    <3>3. QED
      BY <3>1, <3>2, GoodLater
  <2>2. CASE dec[s].status # "reading"
    <3>1. dec'[s] = dec[s]
      BY <2>2 DEF Each
    <3>2. Good(s, dec[s], p)
      BY <2>2 DEF TInv, Good
    <3>3. QED
      BY <3>1, <3>2, GoodLater
  <2>3. QED
    BY <2>1, <2>2
<1>3. QED
  BY <1>1, <1>2 DEF TInv

LEMMA ReadyIs ==
  ASSUME TInv, NEW s \in Sets, dec[s].status = "reading"
  PROVE  Ready(s, dec[s])
BY DEF TInv, IInv, Ready, Good

LEMMA InitGood == Init => TInv
<1> SUFFICES ASSUME Init PROVE TInv
  OBVIOUS
<1>1. body \in Bodies /\ at = [top |-> 1, answer |-> 0, member |-> 0] /\ Len(Tops) \in Nat
  BY BodyIs DEF Init
<1>2. Placed(at)
  <2>1. 1 \in 1..(Len(Tops) + 1)
    BY <1>1
  <2>2. QED
    BY <1>1, <2>1 DEF Placed, Position
<1>3. ASSUME NEW s \in Sets PROVE Good(s, dec[s], at)
  <2> DEFINE d == dec[s]
  <2>1. d.status = "reading" /\ d.has = {} /\ d.answers = NoAnswers(s) /\ d.answer = NoAnswer
    BY DEF Init
  <2> HIDE DEF d
  <2>2. Passed(1) = <<>> /\ Len(<<>>) = 0 /\ <<>> \in Seq(AnswerEntry)
    BY DEF Passed
  <2>3. Gathered(s, d, <<>>, 0)
    BY <2>1, <2>2, GatherStart
  <2>4. at.top = 1 /\ at.answer = 0 /\ at.member = 0 /\ 1..(1 - 1) = {}
    BY <1>1
  <2>5. Gathered(s, d, Passed(at.top), Len(Passed(at.top)))
    BY <2>2, <2>3, <2>4
  <2>6. "answers" \notin d.has
    BY <2>1
  <2>7. Underway(s, d, at)
    BY <2>1, <2>4, <2>5, <2>6 DEF Underway
  <2>8. QED
    BY <2>1, <2>7, UnderwayGood DEF d
<1>4. QED
  BY <1>1, <1>2, <1>3, InitKeeps DEF TInv

LEMMA StepGood ==
  ASSUME TInv, [Next]_vars
  PROVE  TInv'
<1>0. IInv'
  BY StepKeeps DEF TInv
<1>1. /\ body \in Bodies /\ Placed(at) /\ at \in Position /\ Len(Tops) \in Nat
      /\ at.top \in Nat /\ at.answer \in Nat /\ at.member \in Nat /\ at.top \in 1..(Len(Tops) + 1)
      /\ at.answer = 0 => at.member = 0
  BY BodyIs DEF TInv, Placed, Position
<1>2. CASE ReadTop
  <2> DEFINE next == [s \in Sets |-> TopRead(dec[s], Tops[at.top])]
             p == [at EXCEPT !.top = @ + 1]
  <2>1. /\ Each(next) /\ body' = body /\ at' = p
        /\ at.answer = 0 /\ at.top <= Len(Tops)
        /\ Tops[at.top].key # "answers" \/ ~Tops[at.top].fits
    BY <1>2 DEF ReadTop, AtTop
  <2>2. Placed(p)
    BY <1>1, <2>1 DEF Placed, Position
  <2>3. \A s \in Sets : dec[s].status = "reading" => Good(s, next[s], p)
    BY <2>1, ReadyIs, TopReadGood
  <2> HIDE DEF next, p
  <2>4. QED
    BY <1>0, <2>1, <2>2, <2>3, EachGood
<1>3. CASE EnterAnswers
  <2> DEFINE next == [s \in Sets |-> [dec[s] EXCEPT !.answers = NoAnswers(s)]]
             p == [at EXCEPT !.answer = 1]
  <2>1. /\ Each(next) /\ body' = body /\ at' = p
        /\ at.answer = 0 /\ at.top <= Len(Tops)
        /\ Tops[at.top].key = "answers" /\ Tops[at.top].fits
    BY <1>3 DEF EnterAnswers, AtTop
  <2>2. Placed(p)
    <3>1. p \in Position /\ p.top = at.top /\ p.answer = 1 /\ p.member = 0
      BY <1>1, <2>1 DEF Position
    <3>2. Len(AnswersAt(p)) \in Nat
      <4>1. at.top \in DOMAIN Tops
        BY <1>1, <2>1, BodyIs
      <4>2. QED
        BY <1>1, <3>1, <4>1, AnswersIs DEF AnswersAt
    <3> HIDE DEF p
    <3>3. QED
      BY <1>1, <2>1, <3>1, <3>2 DEF Placed
  <2>3. \A s \in Sets : dec[s].status = "reading" => Good(s, next[s], p)
    BY <2>1, ReadyIs, EnterAnswersGood
  <2> HIDE DEF next, p
  <2>4. QED
    BY <1>0, <2>1, <2>2, <2>3, EachGood
<1>4. CASE EnterAnswer
  <2> DEFINE next == [s \in Sets |-> Entered(s, dec[s], Entry)]
             p == IF Entry.object THEN [at EXCEPT !.member = 1] ELSE [at EXCEPT !.answer = @ + 1]
  <2>1. /\ Each(next) /\ body' = body /\ at' = p
        /\ at.answer > 0 /\ at.member = 0 /\ at.answer <= Len(Entries)
    BY <1>4 DEF EnterAnswer, InAnswers
  <2>2. Placed(p)
    <3>1. /\ at.top <= Len(Tops) /\ Tops[at.top].key = "answers" /\ Tops[at.top].fits
          /\ Len(Entries) \in Nat /\ Len(Entry.members) \in Nat
      BY <1>1, <2>1, EntryIs DEF Placed
    <3>2. CASE Entry.object
      <4>1. p \in Position /\ p.top = at.top /\ p.answer = at.answer /\ p.member = 1
        BY <1>1, <3>2 DEF Position
      <4>2. AnswersAt(p) = Entries /\ EntryAt(p) = Entry
        BY <4>1 DEF AnswersAt, EntryAt, Entries, Entry
      <4> HIDE DEF p
      <4>3. QED
        BY <1>1, <2>1, <3>1, <3>2, <4>1, <4>2 DEF Placed
    <3>3. CASE ~Entry.object
      <4>1. p \in Position /\ p.top = at.top /\ p.answer = at.answer + 1 /\ p.member = 0
        BY <1>1, <2>1, <3>3 DEF Position
      <4>2. AnswersAt(p) = Entries
        BY <4>1 DEF AnswersAt, Entries
      <4> HIDE DEF p
      <4>3. QED
        BY <1>1, <2>1, <3>1, <4>1, <4>2 DEF Placed
    <3>4. QED
      BY <3>2, <3>3
  <2>3. \A s \in Sets : dec[s].status = "reading" => Good(s, next[s], p)
    BY <2>1, ReadyIs, EnteredGood
  <2> HIDE DEF next, p
  <2>4. QED
    BY <1>0, <2>1, <2>2, <2>3, EachGood
<1>5. CASE ReadMember
  <2> DEFINE next == [s \in Sets |-> MemberRead(s, dec[s], Entry.name, Entry.members[at.member])]
             p == [at EXCEPT !.member = @ + 1]
  <2>1. /\ Each(next) /\ body' = body /\ at' = p
        /\ at.member > 0 /\ at.member <= Len(Entry.members)
    BY <1>5 DEF ReadMember, InAnswer
  <2>2. Placed(p)
    <3>1. /\ Reached /\ Len(Entry.members) \in Nat /\ at.answer > 0
      BY <1>1, <2>1, MembersIs DEF Reached
    <3>2. p \in Position /\ p.top = at.top /\ p.answer = at.answer /\ p.member = at.member + 1
      BY <1>1, <2>1 DEF Position
    <3>3. AnswersAt(p) = AnswersAt(at) /\ EntryAt(p) = EntryAt(at) /\ EntryAt(at) = Entry
      BY <3>2 DEF AnswersAt, EntryAt, Entries, Entry
    <3> HIDE DEF p
    <3>4. QED
      BY <1>1, <2>1, <3>1, <3>2, <3>3 DEF Placed
  <2>3. \A s \in Sets : dec[s].status = "reading" => Good(s, next[s], p)
    BY <2>1, ReadyIs, MemberReadGood
  <2> HIDE DEF next, p
  <2>4. QED
    BY <1>0, <2>1, <2>2, <2>3, EachGood
<1>6. CASE LeaveAnswer
  <2> DEFINE next == [s \in Sets |-> Left(s, dec[s], Entry.name)]
             p == [at EXCEPT !.answer = @ + 1, !.member = 0]
  <2>1. /\ Each(next) /\ body' = body /\ at' = p
        /\ at.member > 0 /\ at.member > Len(Entry.members)
    BY <1>6 DEF LeaveAnswer, InAnswer
  <2>2. Placed(p)
    <3>1. /\ Reached /\ at.answer > 0 /\ at.answer <= Len(AnswersAt(at)) /\ Len(AnswersAt(at)) \in Nat
      BY <1>1, <2>1, MembersIs, EntryIs DEF Reached, AnswersAt, Entries
    <3>2. p \in Position /\ p.top = at.top /\ p.answer = at.answer + 1 /\ p.member = 0
      <4> DEFINE q == [at EXCEPT !.answer = @ + 1]
      <4>1. q \in Position /\ q.top = at.top /\ q.answer = at.answer + 1 /\ p = [q EXCEPT !.member = 0]
        BY <1>1 DEF Position
      <4> HIDE DEF q, p
      <4>2. QED
        BY <4>1 DEF Position
    <3>3. AnswersAt(p) = AnswersAt(at)
      BY <3>2 DEF AnswersAt
    <3> HIDE DEF p
    <3>4. QED
      BY <1>1, <2>1, <3>1, <3>2, <3>3 DEF Placed
  <2>3. \A s \in Sets : dec[s].status = "reading" => Good(s, next[s], p)
    BY <2>1, ReadyIs, LeftGood
  <2> HIDE DEF next, p
  <2>4. QED
    BY <1>0, <2>1, <2>2, <2>3, EachGood
<1>7. CASE LeaveAnswers
  <2> DEFINE next == [s \in Sets |-> Complete(s, dec[s])]
             p == [at EXCEPT !.top = @ + 1, !.answer = 0]
  <2>1. /\ Each(next) /\ body' = body /\ at' = p
        /\ at.answer > 0 /\ at.member = 0 /\ at.answer > Len(Entries)
    BY <1>7 DEF LeaveAnswers, InAnswers
  <2>2. Placed(p)
    <3>1. at.top <= Len(Tops)
      BY <1>1, <2>1 DEF Placed
    <3>2. p \in Position /\ p.top = at.top + 1 /\ p.answer = 0 /\ p.member = 0
      <4> DEFINE q == [at EXCEPT !.top = @ + 1]
      <4>1. q \in Position /\ q.top = at.top + 1 /\ q.member = 0 /\ p = [q EXCEPT !.answer = 0]
        BY <1>1, <2>1 DEF Position
      <4> HIDE DEF q, p
      <4>2. QED
        BY <4>1 DEF Position
    <3> HIDE DEF p
    <3>3. QED
      BY <1>1, <3>1, <3>2 DEF Placed
  <2>3. \A s \in Sets : dec[s].status = "reading" => Good(s, next[s], p)
    BY <2>1, ReadyIs, CompleteGood
  <2> HIDE DEF next, p
  <2>4. QED
    BY <1>0, <2>1, <2>2, <2>3, EachGood
<1>8. CASE EndOfBody
  <2> DEFINE next == [s \in Sets |-> Finish(s, dec[s])]
  <2>1. /\ Each(next) /\ body' = body /\ at' = at
        /\ at.answer = 0 /\ at.top > Len(Tops)
    BY <1>8 DEF EndOfBody, AtTop
  <2>2. \A s \in Sets : dec[s].status = "reading" => Good(s, next[s], at)
    BY <2>1, ReadyIs, FinishGood
  <2> HIDE DEF next
  <2>3. QED
    BY <1>0, <1>1, <2>1, <2>2, EachGood
<1>9. CASE Broken
  <2> DEFINE next == [s \in Sets |-> Failed(dec[s], "syntax", <<>>)]
  <2>1. Each(next) /\ body' = body /\ at' = at
    BY <1>9 DEF Broken
  <2>2. \A s \in Sets : dec[s].status = "reading" => Good(s, next[s], at)
    BY ReadyIs, BrokenGood DEF Ready
  <2> HIDE DEF next
  <2>3. QED
    BY <1>0, <1>1, <2>1, <2>2, EachGood
<1>10. CASE UNCHANGED vars
  <2>1. body' = body /\ at' = at /\ dec' = dec
    BY <1>10 DEF vars
  <2>2. Placed(at)'
    BY <1>1, <2>1, PlacedLater
  <2>3. ASSUME NEW s \in Sets PROVE Good(s, dec[s], at)'
    <3>1. Good(s, dec[s], at) /\ dec'[s] = dec[s]
      BY <2>1 DEF TInv
    <3>2. QED
      BY <2>1, <3>1, GoodLater
  <2>4. QED
    BY <1>0, <1>1, <2>1, <2>2, <2>3 DEF TInv
<1>11. QED
  BY <1>2, <1>3, <1>4, <1>5, <1>6, <1>7, <1>8, <1>9, <1>10 DEF Next

\* A body is refused for what is wrong with it, and at the path where it is
\* wrong: whatever is in it, and wherever the types stand among the members of
\* the answers, a failure that is none of syntax names a member that does not
\* fit or is not there, or a type that is missing, unknown to the field, or one
\* of two; so no body is refused that has no fault (AnswerSet, de.rs:142-174).
THEOREM FailuresLocated == Spec => []PathsTell
<1>1. TInv => PathsTell
  BY DEF TInv, Good, Refused, PathsTell
<1>2. QED
  BY <1>1, InitGood, StepGood, PTL DEF Spec

\* What a set holds of a body it accepts is said by the body alone: the map has
\* every answer of a known type in wire order and the struct the first of each
\* field's name, built of the last value of each member, with the tables of a
\* score sorted by level and stable, wherever the type stood when it was read
\* (the contract of AnswerSet, de.rs:127-177).
THEOREM ContractKept == Spec => []YieldsContract
<1>1. ASSUME TInv PROVE YieldsContract
  <2>1. \A s \in Sets : dec[s].status = "ok" => Accepted(s, dec[s])
    BY <1>1 DEF TInv, Good
  <2>2. dec["map"].status = "ok" => dec["map"].answers = Mapped(Sift(Staying, Telling(Staying)))
    BY <2>1 DEF Accepted, Sets
  <2>3. dec["struct"].status = "ok" =>
          \A n \in FieldNames :
            /\ Told(dec["struct"].answers[n], First(Staying, n))
            /\ dec["struct"].answers[n].kind = FieldKind(n)
    BY <2>1 DEF Accepted, Sets
  <2>4. QED
    BY <2>2, <2>3 DEF YieldsContract, Mapped, Told
<1>2. QED
  BY <1>1, InitGood, StepGood, PTL DEF Spec

=============================================================================
