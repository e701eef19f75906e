------------------------------ MODULE MCEvaluate ------------------------------
(* Instances of Evaluate for TLC: numbers are counted in quarters. *)
EXTENDS Evaluate

CONSTANTS t1, t2

\* Texts are only compared.
Symmetry == Permutations(Texts)

Asks(kind, criteria) == Object(<<Member("type", Text(kind)), Member("criteria", criteria)>>)
YesNo == Object(<<Member("type", Text("noul"))>>)
Choice == Asks("choice", Object(<<Member("x", Null), Member("y", Text("why"))>>))
Score == Asks("score", Array(<<Text("low"), Text("mid"), Object(<<>>)>>))

MCQuestionSets ==
  [one |-> Object(<<Member("k", Choice), Member("n", YesNo)>>),
   two |-> Object(<<Member("s", Score), Member("k", Choice)>>),
   none |-> Object(<<>>),
   \* Raw questions: a repeated label leaves one, and the next has no type.
   thin |-> Object(<<Member("k", Asks("choice", Object(<<Member("x", Null), Member("x", Null)>>)))>>),
   untyped |-> Object(<<Member("k", Asks("score", Array(<<Text("low")>>))),
                        Member("n", Object(<<Member("criteria", Null)>>))>>),
   strange |-> Object(<<Member("n", Object(<<Member("type", Text("noul")), Member("weight", Null)>>))>>)]

Written(pieces, value, tokens) == [pieces |-> pieces, value |-> value, tokens |-> tokens]
JsonOnly(value, tokens) == Written(<<"value">>, value, tokens)
Gives(answers) == Object(<<Member("answers", Object(answers))>>)
Weights(x, y) == Object(<<Member("y", Number(y)), Member("x", Number(x))>>)
Levels(a, b, c) == Object(<<Member("0", a), Member("1", b), Member("2", c)>>)

\* Whole answers, of either set in either mode.
Accepted ==
  [tied |-> JsonOnly(Gives(<<Member("n", Number(3)), Member("k", Weights(2, 2))>>), 1),
   short |-> Written(<<"fence", "space", "value">>,
               Gives(<<Member("k", Weights(1, 0)), Member("n", Integer(4))>>), None),
   twice |-> Written(<<"space", "fence", "json", "value", "space", "fence">>,
               Gives(<<Member("k", Text("x")),
                       Member("s", Object(<<
                         Member("0", Number(9)), Member("1", Number(0)), Member("2", Number(2)),
                         Member("0", Integer(4))>>)),
                       Member("k", Object(<<
                         Member("x", Number(9)), Member("y", Number(3)), Member("x", Number(2))>>))>>), 1),
   nothing |-> JsonOnly(Gives(<<Member("k", Weights(0, 0)),
                                Member("s", Levels(Number(0), Number(0), Number(0)))>>), 2),
   picked |-> JsonOnly(Gives(<<Member("k", Text("y")), Member("n", Flag(TRUE))>>), 1),
   level |-> JsonOnly(Gives(<<Member("s", Integer(8)), Member("k", Text("x"))>>), 1)]

\* Replies that no question set takes.
Refused ==
  [\* A level written as a float and one too many, a label that is none or wanting.
   float |-> JsonOnly(Gives(<<Member("s", Number(4)), Member("k", Text("z")), Member("z", Null)>>), 1),
   over |-> JsonOnly(Gives(<<Member("s", Integer(12)), Member("n", Number(5)),
                             Member("k", Object(<<Member("x", Number(1))>>))>>), None),
   half |-> JsonOnly(Gives(<<Member("n", Integer(4)),
                             Member("k", Object(<<Member(Unreadable, Number(1)),
                               Member("x", Number(1)), Member("y", Number(3))>>))>>), 2),
   extra |-> JsonOnly(Gives(<<Member("k", Weights(2, 2)), Member("n", Number(1)), Member("z", Null)>>), 1),
   bare |-> JsonOnly(Object(<<Member("n", Flag(TRUE))>>), 1),
   talk |-> Written(<<"value", "words">>,
              Gives(<<Member("k", Weights(1, 3)), Member("n", Number(1))>>), 1),
   words |-> Written(<<"fence", "words", "value", "fence">>, Null, 1)]

MCReplies == Accepted @@ Refused

\* The values of both, and what they are made of.
PartsOf(v) ==
  CASE v.json = "object" -> {v.members[i].value : i \in DOMAIN v.members}
    [] v.json = "array"  -> {v.items[i] : i \in DOMAIN v.items}
    [] OTHER -> {}
WithParts(values) == values \cup UNION {PartsOf(v) : v \in values}

MCJson ==
  WithParts(WithParts(WithParts(WithParts(
    {MCQuestionSets[s] : s \in DOMAIN MCQuestionSets}
      \cup {MCReplies[r].value : r \in DOMAIN MCReplies}))))
===========================================================================
