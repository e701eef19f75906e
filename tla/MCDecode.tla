------------------------------ MODULE MCDecode ------------------------------
(* Instances of Decode for TLC. *)
EXTENDS Decode

Types(t) == [key |-> "type", type |-> t, value |-> None]
Data(m, v) == [key |-> m, type |-> None, value |-> v]
Extra == [key |-> "other", type |-> None, value |-> None]

Scalar(shape, id) == [shape |-> shape, id |-> id, entries |-> <<>>]
Number(id) == Scalar("number", id)
Text(id) == Scalar("text", id)

\* A table whose entries have these levels.
Table_(shape, levels) ==
  [shape |-> shape, id |-> 0, entries |-> [i \in DOMAIN levels |-> [level |-> levels[i], id |-> i]]]

Object(name, members) == [name |-> name, object |-> TRUE, members |-> members]
NoObject(name) == [name |-> name, object |-> FALSE, members |-> <<>>]

TopOf(key, fits) == [key |-> key, fits |-> fits, answers |-> <<>>]
AnswersOf(entries) == [key |-> "answers", fits |-> TRUE, answers |-> entries]
Field(name, kind) == [name |-> name, kind |-> kind]

\* A whole response around its answers.
Around(fields, entries) ==
  [fields |-> fields, tops |-> <<TopOf("model", TRUE), AnswersOf(entries), TopOf("usage", TRUE)>>]

\* Every short object of types and of a noul that fits or does not.
NoulObjects ==
  UNION {[1..n -> {Types("noul"), Types("choice"), Types("future"), Types("not_text"),
                   Data("noul", Number(1)), Data("noul", Number(2)), Data("noul", Text(3))}] : n \in 0..3}
  \cup {<<Types(t), Types(u)>> : t, u \in {"future", "later"}}

\* Objects of the other kinds, with their members in any order.
Orders(set) == {[i \in DOMAIN f |-> f[i]] : f \in SetToSeqs(set)}
ChoiceObjects ==
  UNION {Orders({Types("choice"), Data("choice", Text(1)), Data("confidence", c), Data("probabilities", p)}) :
    c \in {Number(1), Text(1)}, p \in {Table_("named", <<0, 0>>), Table_("levels", <<2, 1>>), Number(3)}}
  \cup Orders({Types("choice"), Data("confidence", Number(1)), Data("choice", Text(1)), Extra})

ScoreObjects ==
  UNION {Orders({Types("score"), Data("score", Number(1)), Data("confidence", Number(2)),
                 Data("legend", l), Data("probabilities", p)}) :
    l \in {Table_("legend", <<2, 1>>)}, p \in {Table_("levels", <<2, 1, 2>>), Table_("named", <<0>>)}}
  \cup Orders({Types("score"), Data("score", Number(1)), Data("confidence", Number(2)),
               Data("legend", Table_("levels", <<1>>))})
  \cup Orders({Types("score"), Data("score", Number(1)), Data("legend", Table_("legend", <<1>>)),
               Data("probabilities", Table_("levels", <<>>))})

\* Probabilities, and two types around them.
Mixes ==
  UNION {Orders({Types("score"), Types("choice"), Data("probabilities", p), Data("choice", Text(1))}) :
    p \in {Table_("named", <<0>>), Table_("levels", <<1>>)}}
  \cup Orders({Types("score"), Types("choice"), Data("choice", Text(1)), Data("confidence", Number(1)),
               Data("probabilities", Table_("levels", <<1>>))})

Single ==
  {Around(<<Field("a", kind)>>, <<Object("a", members)>>) :
     kind \in Known, members \in NoulObjects \cup ChoiceObjects \cup ScoreObjects \cup Mixes}

\* Several answers: repeated, missing, extra, of the wrong kind or no object.
Noul(id) == <<Types("noul"), Data("noul", Number(id))>>
Choice == <<Data("probabilities", Table_("named", <<0>>)), Data("choice", Text(1)),
            Data("confidence", Number(1)), Types("choice")>>
Some ==
  {Object("a", Noul(1)), Object("a", Noul(2)), Object("b", Choice), Object("b", Noul(3)),
   Object("c", <<Types("future"), Data("noul", Text(1))>>), Object("a", <<Data("noul", Text(1))>>),
   NoObject("a"), Object("b", <<Data("noul", Number(4)), Extra>>)}
Several ==
  {Around(fields, entries) :
     fields \in {<<>>, <<Field("a", "noul")>>, <<Field("a", "noul"), Field("b", "choice")>>},
     entries \in UNION {[1..n -> Some] : n \in 0..3}}

\* Responses with members missing, repeated or misshaped.
Envelopes ==
  {[fields |-> fields, tops |-> tops] :
     fields \in {<<>>, <<Field("a", "noul")>>},
     tops \in UNION {[1..n -> {TopOf("model", TRUE), TopOf("model", FALSE), TopOf("usage", TRUE),
                               TopOf("other", TRUE), TopOf("answers", FALSE),
                               AnswersOf(<<Object("a", Noul(1))>>), AnswersOf(<<Object("a", Noul(2))>>),
                               AnswersOf(<<>>)}] : n \in 0..4}}

MCBodies == Single \cup Several \cup Envelopes
=============================================================================
