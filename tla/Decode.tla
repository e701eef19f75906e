------------------------------- MODULE Decode -------------------------------
(***************************************************************************)
(* The single-pass decoder of a System One response (crates/sdk/src/de.rs, *)
(* over codec::decode_seed): a body is read member by member into a set of *)
(* answers, by the lookup `Answers` ("map") and by a struct with one field *)
(* per question ("struct"), side by side over the same body.               *)
(*                                                                         *)
(* An answer's `type` may come after the members it governs.  The map then *)
(* holds those members as text until the type is known; a struct knows the *)
(* kind of its field from the start and reads them as they come.           *)
(***************************************************************************)
EXTENDS Naturals, Sequences, FiniteSets, SequencesExt, Lists

CONSTANTS
  None,    \* stands for what is not there
  Bodies   \* the bodies, each with the fields the struct declares

Sets == {"map", "struct"}
Known == {"noul", "choice", "score"}
DataMembers == {"noul", "choice", "confidence", "score", "legend", "probabilities"}

\* A data member's value by its shape; an object of the last three has entries,
\* keyed by a level, or by an option's name where no level is asked. One entry
\* that does not fit makes the shape another, and is told of at the member.
TableEntry == [level: Nat, id: Nat]
Value == [shape: {"number", "text", "named", "levels", "legend"},
          id: Nat, entries: Seq(TableEntry)]

\* A member of an answer, with the type it names, or its value.
Member ==
  [key: {"type"}, type: STRING, value: {None}] \cup [key: DataMembers, type: {None}, value: Value]
    \cup [key: {"other"}, type: {None}, value: {None}]

AnswerEntry == [name: STRING, object: BOOLEAN, members: Seq(Member)]

\* A member of the response: whether its value fits, for answers whether it
\* is an object, and the answers in it.
Top == [key: {"model", "usage", "answers", "other"}, fits: BOOLEAN, answers: Seq(AnswerEntry)]

Body == [fields: Seq([name: STRING, kind: Known]), tops: Seq(Top)]

ASSUME DecodeAssumption ==
  /\ Bodies \subseteq Body
  /\ None \notin STRING /\ None \notin Known \cup {"missing", "held", "mixed"}

VARIABLES
  body,  \* the body, and the struct's fields
  at,    \* what is read next: a top member, an answer in it, a member in that
  dec    \* the two decoders

vars == <<body, at, dec>>

-----------------------------------------------------------------------------
(* One answer. *)

BelongsTo(m, kind) ==
  CASE m = "noul" -> kind = "noul"
    [] m = "choice" -> kind = "choice"
    [] m \in {"confidence", "probabilities"} -> kind # "noul"
    [] m \in {"score", "legend"} -> kind = "score"

\* The members a kind needs, in the order they are checked.
Needs(kind) ==
  CASE kind = "noul" -> <<"noul">>
    [] kind = "choice" -> <<"choice", "confidence", "probabilities">>
    [] kind = "score" -> <<"score", "confidence", "legend", "probabilities">>

Table(v) == v.shape \in {"named", "levels", "legend"}

\* Whether a value has the shape this member has in an answer of this kind.
Fits(m, kind, v) ==
  CASE m \in {"noul", "confidence", "score"} -> v.shape = "number"
    [] m = "choice" -> v.shape = "text"
    [] m = "legend" -> v.shape = "legend" \/ (Table(v) /\ v.entries = <<>>)
    [] m = "probabilities" ->
         \/ v.shape = "levels" \/ (Table(v) /\ v.entries = <<>>)
         \/ (kind = "choice" /\ v.shape = "named")

\* push_by_level notices an entry whose level is below the one ahead of it.
InOrder(entries) == \A i \in 1..(Len(entries) - 1) : entries[i].level <= entries[i + 1].level

\* sort_by_level: a stable sort; an entry comes after those not above it.
InsertByLevel(sorted, e) ==
  Sift(sorted, {i \in DOMAIN sorted : sorted[i].level <= e.level}) \o <<e>>
    \o Sift(sorted, {i \in DOMAIN sorted : sorted[i].level > e.level})

SortByLevel(entries) ==
  LET Sorted[i \in 0..Len(entries)] ==
        IF i = 0 THEN <<>> ELSE InsertByLevel(Sorted[i - 1], entries[i])
  IN  Sorted[Len(entries)]

ByLevel(entries) == IF InOrder(entries) THEN entries ELSE SortByLevel(entries)

\* What a fitting value is read as: a score's tables are sorted by level.
Reading(m, kind, v) ==
  IF kind = "score" /\ m \in {"legend", "probabilities"} THEN ByLevel(v.entries)
  ELSE IF m = "probabilities" THEN v.entries
  ELSE v.id

-----------------------------------------------------------------------------
(* A decoder: its status and failure, the top members it has, the answers in *)
(* progress, and of the answer in progress whether it is read or skipped, the *)
(* type seen, and a slot for each data member.                             *)

Missing == [how |-> "missing"]
NoAnswer == [wanted |-> FALSE, seen |-> None, slots |-> [m \in DataMembers |-> Missing]]

FieldNames == {body.fields[i].name : i \in DOMAIN body.fields}
FieldKind(n) == body.fields[CHOOSE i \in DOMAIN body.fields : body.fields[i].name = n].kind

\* The answers an empty set begins with: no entry, or no field filled.
Unfilled == [kind |-> None]
NoAnswers(s) == IF s = "map" THEN <<>> ELSE [n \in FieldNames |-> Unfilled]

\* The kind an answer must be, if the set knows it.
Expected(s, n) == IF s = "map" THEN None ELSE FieldKind(n)

Failed(d, why, path) ==
  [d EXCEPT !.status = "failed", !.failure = [why |-> why, path |-> path, at |-> at]]

\* Mutant: a second type that differs is accepted, and wins.
OnTypeLastWins(s, d, n, t) ==
  IF t = "not_text" \/ Expected(s, n) \notin {None, t}
    THEN Failed(d, "type", <<"answers", n, "type">>)
    ELSE [d EXCEPT !.answer.seen = t]

\* KindSeed: the expected kind if there is one, and no other type than before.
OnType(s, d, n, t) ==
  IF t = "not_text" \/ Expected(s, n) \notin {None, t} \/ d.answer.seen \notin {None, t}
    THEN Failed(d, "type", <<"answers", n, "type">>)
    ELSE [d EXCEPT !.answer.seen = t]

\* Mutant: the kind is known from `type` only, for a struct as well.
KindSoFarTyped(s, d, n) == IF d.answer.seen \in Known THEN d.answer.seen ELSE None

\* The kind as it is known when a member arrives.
KindSoFar(s, d, n) ==
  IF d.answer.seen = None THEN Expected(s, n)
  ELSE IF d.answer.seen \in Known THEN d.answer.seen ELSE None

\* A data member is read under a known kind, held until a type is seen, or
\* skipped; a later one takes the place of an earlier one.
OnData(s, d, n, m, v) ==
  LET kind == KindSoFar(s, d, n)
  IN  IF kind # None /\ BelongsTo(m, kind)
        THEN IF Fits(m, kind, v)
               THEN [d EXCEPT !.answer.slots[m] = [how |-> "read", kind |-> kind, value |-> v]]
               ELSE Failed(d, "shape", <<"answers", n, m>>)
      ELSE IF kind = None /\ d.answer.seen = None
        THEN [d EXCEPT !.answer.slots[m] = [how |-> "held", value |-> v]]
      ELSE d

\* Why a member cannot be built under a kind: it is missing, the text held
\* does not fit, or probabilities were read under another kind.
Fault(slot, m, kind) ==
  IF slot.how = "missing" THEN "missing"
  ELSE IF slot.how = "held" /\ ~Fits(m, kind, slot.value) THEN "held"
  ELSE IF slot.how = "read" /\ m = "probabilities" /\ slot.kind # kind THEN "mixed"
  ELSE None

\* Members::noul, choice and score: the first member at fault is reported.
FirstFault(d, kind) ==
  SelectInSeq(Needs(kind), LAMBDA m : Fault(d.answer.slots[m], m, kind) # None)

Built(d) ==
  LET kind == d.answer.seen
  IN  [kind |-> kind,
       members |-> [m \in ToSet(Needs(kind)) |-> Reading(m, kind, d.answer.slots[m].value)]]

\* The answer is kept under its name.
Keep(s, d, n) ==
  IF s = "map" THEN [d EXCEPT !.answers = Append(@, [name |-> n, answer |-> Built(d)])]
  ELSE [d EXCEPT !.answers[n] = Built(d)]

\* Target::build: the end of an answer.
Build(s, d, n) ==
  LET kind == d.answer.seen
      fault == FirstFault(d, kind)
      m == Needs(kind)[fault]
      why == Fault(d.answer.slots[m], m, kind)
  IN  IF kind = None THEN Failed(d, "type", <<"answers", n, "type">>)
      ELSE IF kind \notin Known THEN d
      ELSE IF fault = 0 THEN Keep(s, d, n)
      ELSE IF why = "missing" THEN Failed(d, why, <<"answers", n, m>>)
      ELSE Failed(d, why, <<"answers", n>>)

\* Mutant: a struct reads each answer of a field's name, the last one stays.
WantedLast(s, d, n) == (s = "map") \/ (n \in FieldNames)

\* The map reads every answer; a struct the first of each field's name.
Wanted(s, d, n) ==
  \/ s = "map"
  \/ s = "struct" /\ n \in FieldNames /\ d.answers[n] = Unfilled

\* The first of a struct's fields without an answer, or 0.
Lacking(d) == SelectInSeq(body.fields, LAMBDA f : d.answers[f.name] = Unfilled)

\* The end of the answers: a struct reports the first field without one.
Complete(s, d) ==
  IF s = "map" \/ Lacking(d) = 0 THEN [d EXCEPT !.has = @ \cup {"answers"}]
  ELSE Failed(d, "missing", <<"answers", body.fields[Lacking(d)].name>>)

\* The end of the body: model and usage are required, and so are answers by
\* a set that cannot be empty.
Finish(s, d) ==
  IF "model" \notin d.has THEN Failed(d, "missing", <<"model">>)
  ELSE IF "usage" \notin d.has THEN Failed(d, "missing", <<"usage">>)
  ELSE IF "answers" \notin d.has /\ NoAnswers(s) # <<>>
    THEN Failed(d, "missing", <<"answers">>)
  ELSE [d EXCEPT !.status = "ok"]

-----------------------------------------------------------------------------
(* The walk over the body. *)

Tops == body.tops
Entries == Tops[at.top].answers
Entry == Entries[at.answer]

Init ==
  /\ body \in Bodies
  /\ at = [top |-> 1, answer |-> 0, member |-> 0]
  /\ dec = [s \in Sets |->
       [status |-> "reading", failure |-> None, has |-> {}, answers |-> NoAnswers(s),
        answer |-> NoAnswer]]

\* Both decoders take the step; one that stopped stays as it is.
Each(next) == dec' = [s \in Sets |-> IF dec[s].status = "reading" THEN next[s] ELSE dec[s]]
Going == \E s \in Sets : dec[s].status = "reading"

AtTop == Going /\ at.answer = 0
InAnswers == Going /\ at.answer > 0 /\ at.member = 0
InAnswer == Going /\ at.member > 0

\* model, usage, a member that is ignored, or answers that are no object.
TopRead(d, top) ==
  IF top.key = "other" THEN d
  ELSE IF top.fits THEN [d EXCEPT !.has = @ \cup {top.key}]
  ELSE Failed(d, "shape", <<top.key>>)

ReadTop ==
  /\ AtTop /\ at.top <= Len(Tops)
  /\ Tops[at.top].key # "answers" \/ ~Tops[at.top].fits
  /\ Each([s \in Sets |-> TopRead(dec[s], Tops[at.top])])
  /\ at' = [at EXCEPT !.top = @ + 1]
  /\ UNCHANGED body

\* Every `answers` member is read anew, and the last one stays.
EnterAnswers ==
  /\ AtTop /\ at.top <= Len(Tops) /\ Tops[at.top].key = "answers" /\ Tops[at.top].fits
  /\ Each([s \in Sets |-> [dec[s] EXCEPT !.answers = NoAnswers(s)]])
  /\ at' = [at EXCEPT !.answer = 1]
  /\ UNCHANGED body

\* An answer begins; a value that is no object has no type.
Entered(s, d, entry) ==
  IF ~Wanted(s, d, entry.name) THEN d
  ELSE IF entry.object THEN [d EXCEPT !.answer.wanted = TRUE]
  ELSE Failed(d, "type", <<"answers", entry.name, "type">>)

EnterAnswer ==
  /\ InAnswers /\ at.answer <= Len(Entries)
  /\ Each([s \in Sets |-> Entered(s, dec[s], Entry)])
  /\ at' = IF Entry.object THEN [at EXCEPT !.member = 1] ELSE [at EXCEPT !.answer = @ + 1]
  /\ UNCHANGED body

MemberRead(s, d, n, m) ==
  IF ~d.answer.wanted \/ m.key = "other" THEN d
  ELSE IF m.key = "type" THEN OnType(s, d, n, m.type)
  ELSE OnData(s, d, n, m.key, m.value)

ReadMember ==
  /\ InAnswer /\ at.member <= Len(Entry.members)
  /\ Each([s \in Sets |-> MemberRead(s, dec[s], Entry.name, Entry.members[at.member])])
  /\ at' = [at EXCEPT !.member = @ + 1]
  /\ UNCHANGED body

\* An answer ends, and what was collected of it is gone.
Left(s, d, n) ==
  LET built == IF d.answer.wanted THEN Build(s, d, n) ELSE d
  IN  [built EXCEPT !.answer = NoAnswer]

LeaveAnswer ==
  /\ InAnswer /\ at.member > Len(Entry.members)
  /\ Each([s \in Sets |-> Left(s, dec[s], Entry.name)])
  /\ at' = [at EXCEPT !.answer = @ + 1, !.member = 0]
  /\ UNCHANGED body

LeaveAnswers ==
  /\ InAnswers /\ at.answer > Len(Entries)
  /\ Each([s \in Sets |-> Complete(s, dec[s])])
  /\ at' = [at EXCEPT !.top = @ + 1, !.answer = 0]
  /\ UNCHANGED body

EndOfBody ==
  /\ AtTop /\ at.top > Len(Tops)
  /\ Each([s \in Sets |-> Finish(s, dec[s])])
  /\ UNCHANGED <<body, at>>

\* The bytes that come next are no JSON, end early, or follow the value; text
\* that is not UTF-8 or nests too deep is refused before its first member.
Broken ==
  /\ Going
  /\ Each([s \in Sets |-> Failed(dec[s], "syntax", <<>>)])
  /\ UNCHANGED <<body, at>>

Next ==
  \/ ReadTop \/ EnterAnswers \/ EnterAnswer \/ ReadMember
  \/ LeaveAnswer \/ LeaveAnswers \/ EndOfBody \/ Broken

Spec == Init /\ [][Next]_vars

-----------------------------------------------------------------------------
(* What the decoders promise, in terms of the body alone. *)

TypesOf(members) == {members[i].type : i \in {j \in DOMAIN members : members[j].key = "type"}}

\* The last value of a member, wherever the type stands.
LastOf(members, m) ==
  LET is == {i \in DOMAIN members : members[i].key = m}
  IN  members[CHOOSE i \in is : \A j \in is : j <= i].value

\* The answer of an object that names one known type.
AnswerOf(members) ==
  LET kind == CHOOSE t \in TypesOf(members) : TRUE
  IN  [kind |-> kind,
       members |-> [m \in ToSet(Needs(kind)) |-> Reading(m, kind, LastOf(members, m))]]

\* The answers member that stays.
Staying ==
  LET is == {i \in DOMAIN Tops : Tops[i].key = "answers"}
  IN  IF is = {} THEN <<>> ELSE Tops[CHOOSE i \in is : \A j \in is : j <= i].answers

First(entries, n) == entries[CHOOSE i \in DOMAIN entries :
                       entries[i].name = n /\ \A j \in 1..(i - 1) : entries[j].name # n]

\* The answers whose type is known.
Telling(entries) == {i \in DOMAIN entries : TypesOf(entries[i].members) \subseteq Known}

\* A table sorted by level has every entry, those of a level in their order.
Levels(entries) == {entries[i].level : i \in DOMAIN entries}
AtLevel(entries, l) == Sift(entries, {i \in DOMAIN entries : entries[i].level = l})
SortedFrom(entries, of) ==
  /\ \A i, j \in DOMAIN entries : i < j => entries[i].level <= entries[j].level
  /\ \A l \in Levels(entries) \cup Levels(of) : AtLevel(entries, l) = AtLevel(of, l)

\* What a set holds of a body it accepts does not depend on where an answer's
\* type stands among its members: the map holds every answer of a known type
\* in wire order, the struct the first of each field's name, so that the two
\* give one name one answer (the contract of AnswerSet, de.rs:127-177).
YieldsContract ==
  /\ dec["map"].status = "ok" =>
       LET kept == Sift(Staying, Telling(Staying))
       IN  dec["map"].answers =
             [i \in DOMAIN kept |-> [name |-> kept[i].name, answer |-> AnswerOf(kept[i].members)]]
  /\ dec["struct"].status = "ok" =>
       \A n \in FieldNames :
         LET answer == dec["struct"].answers[n]
             e == First(Staying, n)
         IN  /\ answer = AnswerOf(e.members) /\ answer.kind = FieldKind(n)
             /\ answer.kind = "score" => \A m \in {"legend", "probabilities"} :
                  SortedFrom(answer.members[m], LastOf(e.members, m).entries)

\* No probabilities read under one kind are built as another: the arms that
\* guard against it are never reached (mixed_types, de.rs:912-920).
NeverMixed == \A s \in Sets : dec[s].status = "failed" => dec[s].failure.why # "mixed"

\* The types an object names in text.
Named(members) == TypesOf(members) \ {"not_text"}

\* The answer a failure below `answers` is at, and what of it had been read.
At(f) == body.tops[f.at.top].answers[f.at.answer]
ReadOf(f) ==
  LET members == At(f).members
  IN  [i \in {j \in DOMAIN members : j <= f.at.member} |-> members[i]]

\* The kind an answer is read under: the field's, or the one it names.
KindAt(s, f) ==
  IF s = "struct" THEN FieldKind(f.path[2]) ELSE CHOOSE t \in TypesOf(ReadOf(f)) : TRUE

\* A failure at a type: there is none, or it is no text, not the field's, or
\* not the one named before.
TypeAtFault(s, f) ==
  LET types == TypesOf(ReadOf(f))
  IN  \/ ~At(f).object \/ TypesOf(At(f).members) = {}
      \/ "not_text" \in types \/ Cardinality(types) = 2
      \/ s = "struct" /\ types # {KindAt(s, f)}

\* A failure at a member: no type contradicted the kind so far, and the member
\* just read does not fit it, or the object ended without the member.
MemberAtFault(s, f) ==
  LET members == At(f).members
      kind == KindAt(s, f)
      m == f.path[3]
      i == f.at.member
  IN  /\ TypesOf(ReadOf(f)) \subseteq {kind} /\ BelongsTo(m, kind)
      /\ \/ i \in DOMAIN members /\ members[i].key = m /\ ~Fits(m, kind, members[i].value)
         \/ i > Len(members) /\ \A j \in DOMAIN members : members[j].key # m

\* A failure at an answer: a struct has none for a field, or the map met a
\* member before the type, and it does not fit.
AnswerAtFault(s, f) ==
  IF s = "struct"
    THEN \A i \in DOMAIN body.tops[f.at.top].answers :
           body.tops[f.at.top].answers[i].name # f.path[2]
    ELSE LET members == At(f).members
         IN  \E i \in DOMAIN members :
               /\ members[i].key \in DataMembers
               /\ \A j \in 1..i : members[j].key # "type"
               /\ ~Fits(members[i].key, KindAt(s, f), members[i].value)

\* A failure at a top member: it does not fit, or it is not there.
TopAtFault(f) ==
  \/ f.at.top \in DOMAIN Tops /\ Tops[f.at.top].key = f.path[1] /\ ~Tops[f.at.top].fits
  \/ f.at.top > Len(Tops) /\ \A i \in DOMAIN Tops : Tops[i].key # f.path[1]

PathTells(s, f) ==
  CASE Len(f.path) = 1 -> TopAtFault(f)
    [] Len(f.path) = 2 -> AnswerAtFault(s, f)
    [] Len(f.path) = 3 /\ f.path[3] = "type" -> TypeAtFault(s, f)
    [] Len(f.path) = 3 /\ f.path[3] # "type" -> MemberAtFault(s, f)

\* The path of a failure names what is at fault, by the rules of AnswerSet on
\* wrong kinds, wrong shapes and missing answers (de.rs:142-155, 168-174); a
\* body without a fault is not refused.
PathsTell ==
  \A s \in Sets : dec[s].status = "failed" /\ dec[s].failure.why # "syntax"
                   => PathTells(s, dec[s].failure)

\* What the documentation says: an answer that names two different types is
\* refused at its type, whichever members it carries (de.rs:156-157).
TwoTypesAtType ==
  LET f == dec["map"].failure
  IN  (dec["map"].status = "failed" /\ Len(f.path) > 1 /\ Cardinality(Named(At(f).members)) > 1)
        => f.path = <<"answers", f.path[2], "type">>

=============================================================================
