-------------------------------- MODULE Values --------------------------------
(***************************************************************************)
(* JSON values as the adapter reads them: an object is the sequence of its *)
(* members as they are written, so that a name may come twice; a number is *)
(* counted in parts of a unit and knows whether it is written as an        *)
(* integer.  What the parser makes of a text is its own affair.            *)
(***************************************************************************)
EXTENDS Lists

Null             == [json |-> "null"]
Flag(b)          == [json |-> "boolean", is |-> b]
Number(parts)    == [json |-> "number", parts |-> parts, integer |-> FALSE]
Integer(parts)   == [json |-> "number", parts |-> parts, integer |-> TRUE]
Text(t)          == [json |-> "string", text |-> t]
Array(items)     == [json |-> "array", items |-> items]
Object(members)  == [json |-> "object", members |-> members]
Member(n, value) == [name |-> n, value |-> value]

\* A string no reader accepts, such as half of a surrogate pair.
Unreadable == "unreadable"

Has(ms, n) == \E i \in DOMAIN ms : ms[i].name = n

\* A repeated name keeps its first position and takes the later value.
Upsert(ms, m) ==
  IF Has(ms, m.name)
    THEN [i \in DOMAIN ms |-> IF ms[i].name = m.name THEN m ELSE ms[i]]
    ELSE Append(ms, m)

\* The value written last under a name.
LastOf(ms, n) ==
  ms[CHOOSE i \in DOMAIN ms :
       ms[i].name = n /\ \A j \in DOMAIN ms : ms[j].name = n => j <= i].value

\* An object whose member names can all be read.
IsReadable(v) == v.json = "object" /\ ~Has(v.members, Unreadable)
===========================================================================
