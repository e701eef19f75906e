----------------------------- MODULE CallProofs ------------------------------
(***************************************************************************)
(* That a request is the one its caller asked for, proved for every set of *)
(* calls a program may make of a builder, of the questions and of a        *)
(* request, in every order, and for every environment: who sends it and    *)
(* with which headers, and what it is sent with.  And that the error a     *)
(* call fails with, whatever its transport says, tells none of the         *)
(* credentials the request carries.                                        *)
(***************************************************************************)
EXTENDS Call, Inductions

\* What a caller can have said.
Values == {call.value : call \in BuilderCalls \cup RequestCalls}
DeclaredFields == UNION {ToSet(struct.fields) : struct \in Structs}
Utterances ==
  {Over([to |-> "client"], call) : call \in BuilderCalls}
  \cup {Over([to |-> "questions"], call) : call \in QuestionCalls}
  \cup {Over([to |-> "request"], call) : call \in RequestCalls}
  \cup {Means(field) : field \in DeclaredFields}

\* A call as it was said.
LEMMA Spoken ==
  ASSUME NEW to, NEW call, "set" \in DOMAIN call, "value" \in DOMAIN call
  PROVE  LET u == Over([to |-> to], call) IN
         u.to = to /\ u.set = call.set /\ u.value = call.value
<1> DEFINE front == [to |-> to]
           u == Over(front, call)
<1>1. DOMAIN front = {"to"} /\ front.to = to
  OBVIOUS
<1> HIDE DEF front
<1>2. u = [n \in {"to"} \cup DOMAIN call |-> IF n \in {"to"} THEN front[n] ELSE call[n]]
  BY <1>1 DEF Over
<1> HIDE DEF u
<1>3. u["to"] = front["to"] /\ u["set"] = call["set"] /\ u["value"] = call["value"]
  BY <1>2
<1>4. QED
  BY <1>1, <1>3 DEF u, front

LEMMA Uttered ==
  ASSUME NEW u \in Utterances
  PROVE  /\ u.to \in {"client", "questions", "request"}
         /\ u.to = "client" => u.set \in DOMAIN NewBuilder
         /\ u.to = "request" => u.set \in DOMAIN NewRequest
         /\ u.to = "questions" => u.set \in {"question", "field"}
         /\ u.to # "questions" => u.value \in Values
<1>1. CASE \E call \in BuilderCalls : u = Over([to |-> "client"], call)
  BY <1>1, Spoken, CallsAssumption DEF Values
<1>2. CASE \E call \in QuestionCalls : u = Over([to |-> "questions"], call)
  BY <1>2, Spoken, CallsAssumption
<1>3. CASE \E call \in RequestCalls : u = Over([to |-> "request"], call)
  BY <1>3, Spoken, CallsAssumption DEF Values
<1>4. CASE \E field \in DeclaredFields : u = Means(field)
  <2>1. \A field : Means(field).to = "questions" /\ Means(field).set = "field"
    BY DEF Means
  <2>2. QED
    BY <1>4, <2>1
<1>5. QED
  BY <1>1, <1>2, <1>3, <1>4 DEF Utterances

\* A value is set and is not absent.
LEMMA Valued ==
  ASSUME NEW u \in Utterances, u.to # "questions"
  PROVE  u.value # None /\ (u.set = "retry" => u.value \in Nat)
<1>1. CASE \E call \in BuilderCalls : u = Over([to |-> "client"], call)
  BY <1>1, Spoken, CallsAssumption
<1>2. CASE \E call \in RequestCalls : u = Over([to |-> "request"], call)
  BY <1>2, Spoken, CallsAssumption
<1>3. CASE \E call \in QuestionCalls : u = Over([to |-> "questions"], call)
  BY <1>3, Spoken, CallsAssumption
<1>4. CASE \E field \in DeclaredFields : u = Means(field)
  <2>1. \A field : Means(field).to = "questions"
    BY DEF Means
  <2>2. QED
    BY <1>4, <2>1
<1>5. QED
  BY <1>1, <1>2, <1>3, <1>4 DEF Utterances

-----------------------------------------------------------------------------
(* The last of some places. *)

LEMMA Maxes ==
  ASSUME NEW n \in Nat, NEW S \in SUBSET (1..n)
  PROVE  /\ S # {} => Max(S) \in S /\ \A k \in S : k <= Max(S)
         /\ Max(S \cup {n + 1}) = n + 1
<1>1. S # {} => Max(S) \in S /\ \A k \in S : k <= Max(S)
  <2>1. SUFFICES ASSUME S # {} PROVE Max(S) \in S /\ \A k \in S : k <= Max(S)
    OBVIOUS
  <2>2. S \in SUBSET (0..n)
    OBVIOUS
  <2>3. \E m \in S : \A k \in S : k <= m
    BY <2>1, <2>2, Greatest
  <2>4. \E m \in S : \A k \in S : m >= k
    BY <2>3
  <2>5. Max(S) \in S /\ \A k \in S : Max(S) >= k
    BY <2>4 DEF Max
  <2>6. QED
    BY <2>5
<1>2. Max(S \cup {n + 1}) = n + 1
  <2> DEFINE T == S \cup {n + 1}
  <2>1. n + 1 \in T /\ \A k \in T : n + 1 >= k
    OBVIOUS
  <2>2. \A m \in T : n + 1 <= m => m = n + 1
    OBVIOUS
  <2>3. Max(T) \in T /\ \A k \in T : Max(T) >= k
    BY <2>1 DEF Max
  <2> HIDE DEF T
  <2>4. Max(T) >= n + 1
    BY <2>1, <2>3
  <2>5. QED
    BY <2>1, <2>2, <2>3, <2>4 DEF T
<1>3. QED
  BY <1>1, <1>2

\* What was said to one of them stays as it was while others are spoken to.
Silent(to) ==
  /\ Len(said) <= Len(said')
  /\ \A i \in 1..Len(said) : said'[i] = said[i]
  /\ \A i \in (Len(said) + 1)..Len(said') : said'[i].to # to

LEMMA Keeps ==
  ASSUME said \in Seq(Utterances), said' \in Seq(Utterances), NEW to, Silent(to)
  PROVE  \A set :
           /\ Sayings(to, set)' = Sayings(to, set)
           /\ \A otherwise : Wanted(to, set, otherwise)' = Wanted(to, set, otherwise)
           /\ \A name : Naming(to, set, name)' = Naming(to, set, name)
           /\ \A i \in Sayings(to, set) : said'[i] = said[i]
<1>1. /\ Len(said) \in Nat /\ DOMAIN said = 1..Len(said)
      /\ Len(said') \in Nat /\ DOMAIN said' = 1..Len(said')
  BY LenProperties
<1>2. \A set : Sayings(to, set)' = Sayings(to, set)
  BY <1>1 DEF Silent, Sayings
<1>3. \A set : \A i \in Sayings(to, set) : said'[i] = said[i]
  BY <1>1 DEF Silent, Sayings
<1>4. \A set, name : Naming(to, set, name)' = Naming(to, set, name)
  BY <1>2, <1>3 DEF Naming
<1>5. ASSUME NEW set, NEW otherwise
      PROVE  Wanted(to, set, otherwise)' = Wanted(to, set, otherwise)
  <2>1. CASE Sayings(to, set) = {}
    BY <1>2, <2>1 DEF Wanted
  <2>2. CASE Sayings(to, set) # {}
    <3>1. Sayings(to, set) \in SUBSET (1..Len(said))
      BY <1>1 DEF Sayings
    <3>2. Max(Sayings(to, set)) \in Sayings(to, set)
      BY <1>1, <2>2, <3>1, Maxes
    <3>3. QED
      BY <1>2, <1>3, <2>2, <3>2 DEF Wanted
  <2>3. QED
    BY <2>1, <2>2
<1>6. QED
  BY <1>2, <1>3, <1>4, <1>5

\* What was said last is what is wanted.
LEMMA Adds ==
  ASSUME said \in Seq(Utterances), NEW u \in Utterances, said' = Append(said, u)
  PROVE  /\ said' \in Seq(Utterances)
         /\ \A to : u.to # to => Silent(to)
         /\ \A set : set # u.set => Sayings(u.to, set)' = Sayings(u.to, set)
         /\ \A set : set # u.set => \A otherwise :
              Wanted(u.to, set, otherwise)' = Wanted(u.to, set, otherwise)
         /\ \A otherwise : Wanted(u.to, u.set, otherwise)' = u.value
         /\ \A set, name : ~(set = u.set /\ name = u.value.name) =>
              Naming(u.to, set, name)' = Naming(u.to, set, name)
         /\ \A i \in DOMAIN said : said'[i] = said[i]
         /\ Max(Naming(u.to, u.set, u.value.name)') \in Naming(u.to, u.set, u.value.name)'
         /\ said'[Max(Naming(u.to, u.set, u.value.name)')] = u
<1> DEFINE n == Len(said)
<1>1. /\ n \in Nat /\ DOMAIN said = 1..n
      /\ said' \in Seq(Utterances) /\ Len(said') = n + 1 /\ DOMAIN said' = 1..(n + 1)
      /\ \A i \in 1..n : said'[i] = said[i]
      /\ said'[n + 1] = u
  BY AppendProperties, LenProperties
<1> HIDE DEF n
<1>2. \A to : u.to # to => Silent(to)
  BY <1>1 DEF Silent, n
<1>3. \A set : set # u.set => Sayings(u.to, set)' = Sayings(u.to, set)
  BY <1>1 DEF Sayings
<1>4. Sayings(u.to, u.set)' = Sayings(u.to, u.set) \cup {n + 1}
  BY <1>1 DEF Sayings
<1>5. \A set : Sayings(u.to, set) \in SUBSET (1..n)
  BY <1>1 DEF Sayings
<1>6. \A otherwise : Wanted(u.to, u.set, otherwise)' = u.value
  <2>1. Max(Sayings(u.to, u.set)') = n + 1
    BY <1>1, <1>4, <1>5, Maxes
  <2>2. Sayings(u.to, u.set)' # {}
    BY <1>4
  <2>3. \A otherwise : Wanted(u.to, u.set, otherwise)' = said'[Max(Sayings(u.to, u.set)')].value
    BY <2>2 DEF Wanted
  <2>4. QED
    BY <1>1, <2>1, <2>3
<1>7. ASSUME NEW set, set # u.set, NEW otherwise
      PROVE  Wanted(u.to, set, otherwise)' = Wanted(u.to, set, otherwise)
  <2>1. Sayings(u.to, set)' = Sayings(u.to, set)
    BY <1>3, <1>7
  <2>2. CASE Sayings(u.to, set) = {}
    BY <2>1, <2>2 DEF Wanted
  <2>3. CASE Sayings(u.to, set) # {}
    <3>1. Max(Sayings(u.to, set)) \in 1..n
      BY <1>1, <1>5, <2>3, Maxes
    <3>2. QED
      BY <1>1, <2>1, <2>3, <3>1 DEF Wanted
  <2>4. QED
    BY <2>2, <2>3
<1>8. ASSUME NEW set, NEW name, ~(set = u.set /\ name = u.value.name)
      PROVE  Naming(u.to, set, name)' = Naming(u.to, set, name)
  BY <1>1, <1>8 DEF Naming, Sayings
<1>9. Naming(u.to, u.set, u.value.name)' = Naming(u.to, u.set, u.value.name) \cup {n + 1}
  BY <1>1 DEF Naming, Sayings
<1>10. Naming(u.to, u.set, u.value.name) \in SUBSET (1..n)
  BY <1>5 DEF Naming
<1>11. Max(Naming(u.to, u.set, u.value.name)') = n + 1
  BY <1>1, <1>9, <1>10, Maxes
<1>12. QED
  BY <1>1, <1>2, <1>3, <1>6, <1>7, <1>8, <1>9, <1>11

-----------------------------------------------------------------------------
(* Members: a sequence in which no name comes twice. *)

Distinct(ms) == \A i, j \in DOMAIN ms : ms[i].name = ms[j].name => i = j

\* The value of a name is the one it has.
LEMMA LastOfDistinct ==
  ASSUME NEW S, NEW ms \in Seq(S), Distinct(ms), NEW i \in DOMAIN ms
  PROVE  LastOf(ms, ms[i].name) = ms[i].value
<1>1. DOMAIN ms \subseteq Nat
  BY LenProperties
<1>2. \A j \in DOMAIN ms : (ms[j].name = ms[i].name /\ \A k \in DOMAIN ms : ms[k].name = ms[i].name => k <= j) <=> j = i
  BY <1>1 DEF Distinct
<1>3. (CHOOSE j \in DOMAIN ms : ms[j].name = ms[i].name /\ \A k \in DOMAIN ms : ms[k].name = ms[i].name => k <= j) = i
  BY <1>2
<1>4. QED
  BY <1>3 DEF LastOf

LEMMA Upserts ==
  ASSUME NEW S, NEW ms \in Seq(S), Distinct(ms), NEW m \in S
  PROVE  /\ Upsert(ms, m) \in Seq(S) /\ Distinct(Upsert(ms, m))
         /\ \A n : Has(Upsert(ms, m), n) <=> n = m.name \/ Has(ms, n)
         /\ LastOf(Upsert(ms, m), m.name) = m.value
         /\ \A n : n # m.name /\ Has(ms, n) => LastOf(Upsert(ms, m), n) = LastOf(ms, n)
<1> DEFINE new == Upsert(ms, m)
<1>1. /\ Len(ms) \in Nat /\ DOMAIN ms = 1..Len(ms)
      /\ \A i \in DOMAIN ms : ms[i] \in S
  BY LenProperties, ElementOfSeq
<1>2. \E place \in DOMAIN new :
        /\ new \in Seq(S) /\ DOMAIN ms \subseteq DOMAIN new /\ DOMAIN new \ {place} \subseteq DOMAIN ms
        /\ new[place] = m
        /\ \A i \in DOMAIN new \ {place} : new[i] = ms[i] /\ ms[i].name # m.name
        /\ place \in DOMAIN ms => ms[place].name = m.name
  <2>1. CASE Has(ms, m.name)
    <3>1. PICK place \in DOMAIN ms : ms[place].name = m.name
      BY <2>1 DEF Has
    <3>2. new = [i \in DOMAIN ms |-> IF ms[i].name = m.name THEN m ELSE ms[i]]
      BY <2>1 DEF Upsert
    <3>3. new \in [1..Len(ms) -> S]
      BY <1>1, <3>2
    <3>4. new \in Seq(S)
      BY <1>1, <3>3
    <3>5. DOMAIN new = DOMAIN ms /\ new[place] = m
      BY <3>1, <3>2
    <3>6. \A i \in DOMAIN ms \ {place} : new[i] = ms[i] /\ ms[i].name # m.name
      BY <3>1, <3>2 DEF Distinct
    <3> HIDE DEF new
    <3>7. QED
      BY <3>1, <3>4, <3>5, <3>6
  <2>2. CASE ~Has(ms, m.name)
    <3>1. new = Append(ms, m)
      BY <2>2 DEF Upsert
    <3>2. /\ new \in Seq(S) /\ Len(new) = Len(ms) + 1 /\ new[Len(ms) + 1] = m
          /\ \A i \in 1..Len(ms) : new[i] = ms[i]
      BY <3>1, AppendProperties
    <3> HIDE DEF new
    <3>3. DOMAIN new = 1..(Len(ms) + 1)
      BY <3>2, LenProperties
    <3>4. \A i \in DOMAIN ms : ms[i].name # m.name
      BY <2>2 DEF Has
    <3>5. Len(ms) + 1 \in DOMAIN new /\ Len(ms) + 1 \notin DOMAIN ms
          /\ DOMAIN new \ {Len(ms) + 1} = DOMAIN ms
      BY <1>1, <3>3
    <3>6. QED
      BY <1>1, <3>2, <3>4, <3>5
  <2>3. QED
    BY <2>1, <2>2
<1> HIDE DEF new
<1>3. PICK place \in DOMAIN new :
        /\ new \in Seq(S) /\ DOMAIN ms \subseteq DOMAIN new /\ DOMAIN new \ {place} \subseteq DOMAIN ms
        /\ new[place] = m
        /\ \A i \in DOMAIN new \ {place} : new[i] = ms[i] /\ ms[i].name # m.name
        /\ place \in DOMAIN ms => ms[place].name = m.name
  BY <1>2
<1>4. Distinct(new)
  <2>1. ASSUME NEW i \in DOMAIN new, NEW j \in DOMAIN new, new[i].name = new[j].name, i # j
        PROVE  FALSE
    <3>1. CASE i # place /\ j # place
      BY <1>3, <2>1, <3>1 DEF Distinct
    <3>2. CASE i = place \/ j = place
      BY <1>3, <2>1, <3>2
    <3>3. QED
      BY <3>1, <3>2
  <2>2. QED
    BY <2>1 DEF Distinct
<1>5. \A n : Has(new, n) <=> n = m.name \/ Has(ms, n)
  BY <1>3 DEF Has
<1>6. LastOf(new, m.name) = m.value
  BY <1>3, <1>4, LastOfDistinct
<1>7. ASSUME NEW n, n # m.name, Has(ms, n) PROVE LastOf(new, n) = LastOf(ms, n)
  <2>1. PICK i \in DOMAIN ms : ms[i].name = n
    BY <1>7 DEF Has
  <2>2. i \in DOMAIN new /\ new[i] = ms[i]
    BY <1>3, <1>7, <2>1
  <2>3. LastOf(ms, n) = ms[i].value
    BY <2>1, LastOfDistinct
  <2>4. LastOf(new, n) = new[i].value
    BY <1>3, <1>4, <2>1, <2>2, LastOfDistinct
  <2>5. QED
    BY <2>2, <2>3, <2>4
<1>8. QED
  BY <1>3, <1>4, <1>5, <1>6, <1>7 DEF new

-----------------------------------------------------------------------------
(* The inductive invariant: what is held of what was said. *)

\* Headers as they were said: of each name the value that was said last.
At(headers, n) == {i \in DOMAIN headers : headers[i].name = n}
Mirrors(headers, to, set) ==
  /\ headers \in Seq(Values)
  /\ \A n : At(headers, n) = {} <=> Naming(to, set, n) = {}
  /\ \A n : At(headers, n) # {} =>
       headers[Max(At(headers, n))].value = said[Max(Naming(to, set, n))].value.value

\* The extra members of a body as they were said, no name twice.
Extras(extra) ==
  /\ extra \in Seq(Values) /\ Distinct(extra)
  /\ \A n : Has(extra, n) <=> Naming("request", "extra", n) # {}
  /\ \A n : Has(extra, n) =>
       LastOf(extra, n) = said[Max(Naming("request", "extra", n))].value.value

BuilderSetters == DOMAIN NewBuilder \ Collected
RequestSetters == DOMAIN NewRequest \ Collected

\* The builder holds what was said to it, the request what was said of it.
Configured ==
  pc = "building" =>
    /\ DOMAIN settings = DOMAIN NewBuilder
    /\ \A set \in BuilderSetters : settings[set] = Wanted("client", set, NewBuilder[set])
    /\ Mirrors(settings.default_headers, "client", "default_headers")

Requested ==
  /\ DOMAIN request = DOMAIN NewRequest
  /\ \A set \in RequestSetters : request[set] = Wanted("request", set, None)
  /\ Mirrors(request.headers, "request", "headers")
  /\ Extras(request.extra)

\* A client is what its builder was told, or else the environment, or a default.
Built ==
  pc \in {"asking", "calling", "sending"} =>
    /\ client.authorization = [key |-> Wanted("client", "api_key", env.api_key).text]
    /\ client.address = Wanted("client", "base_url", env.base_url).text
    /\ client.default_model = Wanted("client", "default_model", FromEnv(env.default_model))
    /\ client.timeout = Wanted("client", "timeout", DefaultTimeout)
    /\ client.max_response_bytes = Wanted("client", "max_response_bytes", DefaultMaxBytes)
    /\ client.user_agent = UserAgent(Wanted("client", "user_agent_product", None))
    /\ client.send_runtime_header = Wanted("client", "send_runtime_header", TRUE)
    /\ client.retry \in Nat
    /\ Mirrors(client.default_headers, "client", "default_headers")

\* A body tells what was said last: each member once, the extra ones as they
\* were said, and the model and the questions unless an extra one is in the way.
ExtraNames == {said[i].value.name : i \in Sayings("request", "extra")}
ModelWanted ==
  Wanted("request", "model", Wanted("client", "default_model", FromEnv(env.default_model)))
BodyTells(body) ==
  /\ body.json = "object"
  /\ \A i, j \in DOMAIN body.members : body.members[i].name = body.members[j].name => i = j
  /\ \A n \in ExtraNames :
       Has(body.members, n) /\ LastOf(body.members, n) = said[Max(Naming("request", "extra", n))].value.value
  /\ Has(body.members, "model")
  /\ "model" \in ExtraNames \/ LastOf(body.members, "model").text = ModelWanted
  /\ "questions" \in ExtraNames \/ LastOf(body.members, "questions") = prepared.json

\* The headers of the attempt after so many retries.
HeadersAt(retry) ==
  Over([n \in (IF retry > 0 THEN {RetryCount} ELSE {}) |-> Count(retry)],
       Over(Callers(exchange.headers, exchange.with_body),
            BaseHeaders(client, exchange.with_body)))

\* A call on its way: its body is whole as long as an attempt is to come, and
\* the attempt that was made last is the one its number tells of.
Underway ==
  /\ pc = "sending" =>
       /\ DOMAIN exchange = {"with_body", "headers", "deadline", "body", "retry", "retries", "retain"}
       /\ exchange.with_body \in BOOLEAN /\ exchange.headers = request.headers
       /\ exchange.deadline = Deadline
       /\ exchange.retry \in Nat /\ exchange.retries \in Nat
       /\ exchange.retries > 0 => exchange.retain
       /\ exchange.with_body /\ (exchange.retry = 0 \/ exchange.retain) => BodyTells(exchange.body)
  /\ sent # None =>
       /\ pc = "sending" /\ exchange.retry > 0
       /\ sent.headers = HeadersAt(exchange.retry - 1)
       /\ sent.address = client.address /\ sent.limit = client.max_response_bytes
       /\ sent.deadline = exchange.deadline
       /\ exchange.with_body => BodyTells(sent.body)

IInv ==
  /\ env \in Environments /\ said \in Seq(Utterances)
  /\ Configured /\ Requested /\ Built /\ Underway

-----------------------------------------------------------------------------
(* What saying something does to what is held. *)

\* What is held stays true while others are spoken to.
LEMMA StaysSaid ==
  ASSUME said \in Seq(Utterances), said' \in Seq(Utterances), NEW to, Silent(to)
  PROVE  /\ \A headers, set : Mirrors(headers, to, set) => Mirrors(headers, to, set)'
         /\ to = "request" => \A extra : Extras(extra) => Extras(extra)'
<1>1. /\ \A set, n : Naming(to, set, n)' = Naming(to, set, n)
      /\ \A set : \A i \in Sayings(to, set) : said'[i] = said[i]
  BY Keeps
<1>2. \A set, n : Naming(to, set, n) # {} =>
        said'[Max(Naming(to, set, n))] = said[Max(Naming(to, set, n))]
  <2>1. Len(said) \in Nat /\ DOMAIN said = 1..Len(said)
    BY LenProperties
  <2>2. \A set, n : Naming(to, set, n) \in SUBSET (1..Len(said))
    BY <2>1 DEF Naming, Sayings
  <2>3. \A set, n : Naming(to, set, n) # {} => Max(Naming(to, set, n)) \in Naming(to, set, n)
    BY <2>1, <2>2, Maxes
  <2>4. \A set, n : Naming(to, set, n) \subseteq Sayings(to, set)
    BY DEF Naming
  <2>5. QED
    BY <1>1, <2>3, <2>4
<1>3. ASSUME NEW headers, NEW set, Mirrors(headers, to, set) PROVE Mirrors(headers, to, set)'
  BY <1>1, <1>2, <1>3 DEF Mirrors
<1>4. ASSUME to = "request", NEW extra, Extras(extra) PROVE Extras(extra)'
  BY <1>1, <1>2, <1>4 DEF Extras
<1>5. QED
  BY <1>3, <1>4

\* A header or a member that is said joins those that were.
LEMMA JoinsSaid ==
  ASSUME said \in Seq(Utterances), NEW u \in Utterances, u.to # "questions", said' = Append(said, u)
  PROVE  /\ \A headers : Mirrors(headers, u.to, u.set) => Mirrors(Append(headers, u.value), u.to, u.set)'
         /\ \A headers, set : set # u.set /\ Mirrors(headers, u.to, set) => Mirrors(headers, u.to, set)'
         /\ u.to = "request" /\ u.set = "extra" =>
              \A extra : Extras(extra) => Extras(Upsert(extra, u.value))'
         /\ u.to = "request" /\ u.set # "extra" => \A extra : Extras(extra) => Extras(extra)'
<1>1. u.value \in Values
  BY Uttered
<1> DEFINE name == u.value.name
<1>2. /\ \A set, n : ~(set = u.set /\ n = name) => Naming(u.to, set, n)' = Naming(u.to, set, n)
      /\ \A i \in DOMAIN said : said'[i] = said[i]
      /\ Max(Naming(u.to, u.set, name)') \in Naming(u.to, u.set, name)'
      /\ said'[Max(Naming(u.to, u.set, name)')] = u
  BY Adds
<1>3. \A set, n : Naming(u.to, set, n) # {} =>
        said'[Max(Naming(u.to, set, n))] = said[Max(Naming(u.to, set, n))]
  <2>1. Len(said) \in Nat /\ DOMAIN said = 1..Len(said)
    BY LenProperties
  <2>2. \A set, n : Naming(u.to, set, n) \in SUBSET (1..Len(said))
    BY <2>1 DEF Naming, Sayings
  <2>3. \A set, n : Naming(u.to, set, n) # {} => Max(Naming(u.to, set, n)) \in 1..Len(said)
    BY <2>1, <2>2, Maxes
  <2>4. QED
    BY <1>2, <2>1, <2>3
<1> HIDE DEF name
<1>4. ASSUME NEW headers, Mirrors(headers, u.to, u.set)
      PROVE  Mirrors(Append(headers, u.value), u.to, u.set)'
  <2> DEFINE new == Append(headers, u.value)
             length == Len(headers)
  <2>1. headers \in Seq(Values)
    BY <1>4 DEF Mirrors
  <2>2. /\ length \in Nat /\ DOMAIN headers = 1..length
        /\ new \in Seq(Values) /\ DOMAIN new = 1..(length + 1)
        /\ \A i \in 1..length : new[i] = headers[i]
        /\ new[length + 1] = u.value
    <3>1. new \in Seq(Values) /\ Len(new) = length + 1
          /\ (\A i \in 1..length : new[i] = headers[i]) /\ new[length + 1] = u.value
      BY <1>1, <2>1, AppendProperties
    <3> HIDE DEF new
    <3>2. QED
      BY <2>1, <3>1, LenProperties
  <2> HIDE DEF new, length
  <2>3. /\ At(new, name) = At(headers, name) \cup {length + 1}
        /\ \A n : n # name => At(new, n) = At(headers, n)
        /\ \A n : At(headers, n) \in SUBSET (1..length)
    BY <2>2 DEF At, name
  <2>4. Max(At(new, name)) = length + 1
    BY <2>2, <2>3, Maxes
  <2>5. \A n : At(headers, n) # {} => Max(At(headers, n)) \in 1..length
    BY <2>2, <2>3, Maxes
  <2>6. ASSUME NEW n PROVE At(new, n) = {} <=> Naming(u.to, u.set, n)' = {}
    <3>1. CASE n = name
      BY <1>2, <2>3, <3>1
    <3>2. CASE n # name
      BY <1>2, <1>4, <2>3, <3>2 DEF Mirrors
    <3>3. QED
      BY <3>1, <3>2
  <2>7. ASSUME NEW n, At(new, n) # {}
        PROVE  new[Max(At(new, n))].value = said'[Max(Naming(u.to, u.set, n)')].value.value
    <3>1. CASE n = name
      BY <1>2, <2>2, <2>4, <3>1
    <3>2. CASE n # name
      <4>1. At(headers, n) # {} /\ At(new, n) = At(headers, n)
        BY <2>3, <2>7, <3>2
      <4>2. new[Max(At(new, n))] = headers[Max(At(headers, n))]
        BY <2>2, <2>5, <4>1
      <4>3. Naming(u.to, u.set, n) # {} /\ Naming(u.to, u.set, n)' = Naming(u.to, u.set, n)
        BY <1>2, <1>4, <3>2, <4>1 DEF Mirrors
      <4>4. headers[Max(At(headers, n))].value = said[Max(Naming(u.to, u.set, n))].value.value
        BY <1>4, <4>1 DEF Mirrors
      <4>5. QED
        BY <1>3, <4>2, <4>3, <4>4
    <3>3. QED
      BY <3>1, <3>2
  <2>8. Mirrors(new, u.to, u.set)'
    BY <2>2, <2>6, <2>7 DEF Mirrors
  <2>9. QED
    BY <2>8 DEF new
<1>5. ASSUME NEW headers, NEW set, set # u.set, Mirrors(headers, u.to, set)
      PROVE  Mirrors(headers, u.to, set)'
  <2>1. \A n : Naming(u.to, set, n)' = Naming(u.to, set, n)
    BY <1>2, <1>5
  <2>2. \A n : Naming(u.to, set, n) # {} =>
          said'[Max(Naming(u.to, set, n)')] = said[Max(Naming(u.to, set, n))]
    BY <1>3, <2>1
  <2>3. QED
    BY <1>5, <2>1, <2>2 DEF Mirrors
<1>6. ASSUME u.to = "request", u.set = "extra", NEW extra, Extras(extra)
      PROVE  Extras(Upsert(extra, u.value))'
  <2> DEFINE new == Upsert(extra, u.value)
  <2>1. extra \in Seq(Values) /\ Distinct(extra)
    BY <1>6 DEF Extras
  <2>2. /\ new \in Seq(Values) /\ Distinct(new)
        /\ \A n : Has(new, n) <=> n = name \/ Has(extra, n)
        /\ LastOf(new, name) = u.value.value
        /\ \A n : n # name /\ Has(extra, n) => LastOf(new, n) = LastOf(extra, n)
    BY <1>1, <2>1, Upserts DEF name
  <2> HIDE DEF new
  <2>3. ASSUME NEW n PROVE Has(new, n) <=> Naming("request", "extra", n)' # {}
    <3>1. CASE n = name
      BY <1>2, <1>6, <2>2, <3>1
    <3>2. CASE n # name
      BY <1>2, <1>6, <2>2, <3>2 DEF Extras
    <3>3. QED
      BY <3>1, <3>2
  <2>4. ASSUME NEW n, Has(new, n)
        PROVE  LastOf(new, n) = said'[Max(Naming("request", "extra", n)')].value.value
    <3>1. CASE n = name
      BY <1>2, <1>6, <2>2, <3>1
    <3>2. CASE n # name
      <4>1. Has(extra, n) /\ LastOf(new, n) = LastOf(extra, n)
        BY <2>2, <2>4, <3>2
      <4>2. /\ Naming("request", "extra", n) # {}
            /\ LastOf(extra, n) = said[Max(Naming("request", "extra", n))].value.value
        BY <1>6, <4>1 DEF Extras
      <4>3. Naming("request", "extra", n)' = Naming("request", "extra", n)
        BY <1>2, <1>6, <3>2
      <4>4. said'[Max(Naming("request", "extra", n))] = said[Max(Naming("request", "extra", n))]
        BY <1>3, <1>6, <4>2
      <4>5. QED
        BY <4>1, <4>2, <4>3, <4>4
    <3>3. QED
      BY <3>1, <3>2
  <2>5. Extras(new)'
    BY <2>2, <2>3, <2>4 DEF Extras
  <2>6. QED
    BY <2>5 DEF new
<1>7. ASSUME u.to = "request", u.set # "extra", NEW extra, Extras(extra) PROVE Extras(extra)'
  <2>1. \A n : Naming("request", "extra", n)' = Naming("request", "extra", n)
    BY <1>2, <1>7
  <2>2. \A n : Naming("request", "extra", n) # {} =>
          said'[Max(Naming("request", "extra", n)')] = said[Max(Naming("request", "extra", n))]
    BY <1>3, <1>7, <2>1
  <2>3. QED
    BY <1>7, <2>1, <2>2 DEF Extras
<1>8. QED
  BY <1>4, <1>5, <1>6, <1>7

-----------------------------------------------------------------------------
(* What is wanted, and checks that none fails. *)

\* Before anything is said, what goes for it is wanted.
LEMMA Nothing ==
  ASSUME said = <<>>
  PROVE  /\ \A to, set, otherwise : Wanted(to, set, otherwise) = otherwise
         /\ \A to, set : Mirrors(<<>>, to, set)
         /\ Extras(<<>>)
<1>1. DOMAIN <<>> = {} /\ <<>> \in Seq(Values)
  OBVIOUS
<1>2. \A to, set : Sayings(to, set) = {}
  BY <1>1 DEF Sayings
<1>3. \A to, set, n : Naming(to, set, n) = {}
  BY <1>2 DEF Naming
<1>4. \A n : At(<<>>, n) = {} /\ ~Has(<<>>, n)
  BY <1>1 DEF At, Has
<1>5. QED
  BY <1>1, <1>2, <1>3, <1>4 DEF Wanted, Mirrors, Extras, Distinct

\* A value that was set is the one wanted, whatever goes without it.
LEMMA OrWanted ==
  ASSUME said \in Seq(Utterances), NEW to \in {"client", "request"}, NEW set
  PROVE  /\ \A otherwise : Or(Wanted(to, set, None), otherwise) = Wanted(to, set, otherwise)
         /\ set = "retry" => Wanted(to, set, None) \in Nat \cup {None}
<1>1. CASE Sayings(to, set) = {}
  BY <1>1 DEF Wanted, Or
<1>2. CASE Sayings(to, set) # {}
  <2> DEFINE u == said[Max(Sayings(to, set))]
  <2>1. Len(said) \in Nat /\ DOMAIN said = 1..Len(said)
    BY LenProperties
  <2>2. Sayings(to, set) \in SUBSET (1..Len(said))
    BY <2>1 DEF Sayings
  <2>3. Max(Sayings(to, set)) \in Sayings(to, set)
    BY <1>2, <2>1, <2>2, Maxes
  <2>4. Max(Sayings(to, set)) \in 1..Len(said) /\ u.to = to /\ u.set = set
    BY <2>1, <2>3 DEF Sayings
  <2>5. u \in Utterances
    BY <2>4, ElementOfSeq
  <2> HIDE DEF u
  <2>6. u.value # None /\ (set = "retry" => u.value \in Nat)
    BY <2>4, <2>5, Valued
  <2>7. \A otherwise : Wanted(to, set, otherwise) = u.value
    BY <1>2 DEF Wanted, u
  <2>8. QED
    BY <2>6, <2>7 DEF Or
<1>3. QED
  BY <1>1, <1>2

\* A check as the code makes it: what is found, and what that means.
Reasons ==
  {"transport", "connect_timeout", "header", "utf-8", "no key", "key", "no base URL", "model",
   "timeout", "max_response_bytes", "extra member", "state", "content", "no model"}
  \cup {UrlRules[i] : i \in DOMAIN UrlRules} \cup {ProductRules[i] : i \in DOMAIN ProductRules}
Check == BOOLEAN \X Reasons

LEMMA CheckTyped ==
  ASSUME NEW found \in BOOLEAN, NEW why \in Reasons
  PROVE  <<found, why>> \in Check /\ <<found, why>>[1] = found
BY DEF Check

LEMMA BrokenChecks ==
  ASSUME NEW rules \in Seq(Reasons), NEW broken PROVE Broken(rules, broken) \in Seq(Check)
<1>1. Len(rules) \in Nat /\ DOMAIN rules = 1..Len(rules) /\ \A i \in DOMAIN rules : rules[i] \in Reasons
  BY LenProperties, ElementOfSeq
<1>2. ASSUME NEW i \in DOMAIN rules PROVE <<rules[i] \in broken, rules[i]>> \in Check
  <2> DEFINE found == rules[i] \in broken
  <2>1. found \in BOOLEAN
    OBVIOUS
  <2> HIDE DEF found
  <2>2. <<found, rules[i]>> \in Check
    BY <1>1, <2>1, CheckTyped
  <2>3. QED
    BY <2>2 DEF found
<1>3. DOMAIN Broken(rules, broken) = 1..Len(rules) /\ Broken(rules, broken) \in [1..Len(rules) -> Check]
  BY <1>1, <1>2, Zenon DEF Broken
<1>4. QED
  BY <1>1, <1>3

LEMMA Rules == UrlRules \in Seq(Reasons) /\ ProductRules \in Seq(Reasons)
<1>1. DOMAIN UrlRules = 1..7 /\ DOMAIN ProductRules = 1..10
  BY DEF UrlRules, ProductRules
<1>2. \A i \in DOMAIN UrlRules : UrlRules[i] \in Reasons
  BY DEF Reasons
<1>3. \A i \in DOMAIN ProductRules : ProductRules[i] \in Reasons
  BY DEF Reasons
<1>4. UrlRules = [i \in 1..7 |-> UrlRules[i]] /\ ProductRules = [i \in 1..10 |-> ProductRules[i]]
  BY DEF UrlRules, ProductRules
<1>5. UrlRules \in [1..7 -> Reasons] /\ ProductRules \in [1..10 -> Reasons]
  BY <1>1, <1>2, <1>3, <1>4
<1> HIDE DEF Reasons
<1>6. 7 \in Nat /\ 10 \in Nat
  OBVIOUS
<1>7. QED
  BY <1>5, <1>6, Sequences, Zenon

\* Lists of checks.
LEMMA Lists ==
  /\ <<>> \in Seq(Check)
  /\ \A a \in Check : <<a>> \in Seq(Check)
  /\ \A a, b \in Check : <<a, b>> \in Seq(Check)
  /\ \A a, b, c, d \in Check : <<a, b, c, d>> \in Seq(Check)
OBVIOUS

\* A client is built when its key and its address are there.
LEMMA Checked ==
  ASSUME NEW b, NEW transport, Failing(BuildChecks(b, transport)) = {}
  PROVE  /\ Or(Given(b.api_key, env.api_key), Plain("")).text # ""
         /\ Given(b.base_url, env.base_url) # None
<1> DEFINE service == IF transport = "service" THEN ServiceChecks(b) ELSE <<>>
           split == SplitChecks(b)
           utf == <<NeedsUtf8(b.api_key, env.api_key)>>
           key == KeyChecks(Or(Given(b.api_key, env.api_key), Plain("")))
           base == <<NeedsUtf8(b.base_url, env.base_url)>>
           url == UrlChecks(Given(b.base_url, env.base_url))
           rest == <<<<Or(b.default_model, Plain("model")).text = "", "model">>,
                     NeedsUtf8(b.default_model, env.default_model),
                     <<b.timeout = 0, "timeout">>,
                     <<b.max_response_bytes = 0, "max_response_bytes">>>>
           product == ProductChecks(b.user_agent_product)
<1>1. service \in Seq(Check) /\ split \in Seq(Check)
  <2> DEFINE given == <<b.extra_roots # <<>> \/ b.http_version # None \/ b.connect_timeout # None, "transport">>
             zero == <<b.connect_timeout = 0, "connect_timeout">>
             header == <<~Parses(b.default_headers), "header">>
  <2>1. given \in Check /\ zero \in Check /\ header \in Check
    BY DEF Check, Reasons
  <2>2. ServiceChecks(b) = <<given>> /\ split = <<zero, header>>
    BY DEF ServiceChecks, SplitChecks
  <2> HIDE DEF given, zero, header
  <2>3. QED
    BY <2>1, <2>2, Lists
<1>2. utf \in Seq(Check) /\ base \in Seq(Check) /\ rest \in Seq(Check)
  <2>1. \A explicit, variable : NeedsUtf8(explicit, variable) \in Check
    BY DEF NeedsUtf8, Check, Reasons
  <2> DEFINE blank == <<Or(b.default_model, Plain("model")).text = "", "model">>
             never == <<b.timeout = 0, "timeout">>
             none == <<b.max_response_bytes = 0, "max_response_bytes">>
  <2>2. blank \in Check /\ never \in Check /\ none \in Check
    BY DEF Check, Reasons
  <2>3. rest = <<blank, NeedsUtf8(b.default_model, env.default_model), never, none>>
    OBVIOUS
  <2> HIDE DEF blank, never, none, rest
  <2>4. QED
    BY <2>1, <2>2, <2>3, Lists
<1> DEFINE text == Or(Given(b.api_key, env.api_key), Plain("")).text
           blank == <<text = "", "no key">>
           odd == <<text = Unprintable, "key">>
<1>3. blank \in Check /\ odd \in Check /\ blank[1] = (text = "")
  BY DEF Check, Reasons
<1>4. key = <<blank, odd>>
  BY DEF KeyChecks
<1> DEFINE missing == <<TRUE, "no base URL">>
<1>6. missing \in Check /\ missing[1]
  BY DEF Check, Reasons
<1>7. Given(b.base_url, env.base_url) = None => url = <<missing>>
  BY DEF UrlChecks
<1> HIDE DEF text, blank, odd, missing
<1>8. url \in Seq(Check) /\ product \in Seq(Check)
  <2>1. UrlRules \in Seq(Reasons) /\ ProductRules \in Seq(Reasons)
    BY Rules
  <2>2. Given(b.base_url, env.base_url) # None =>
          \E broken : url = Broken(UrlRules, broken)
    BY DEF UrlChecks
  <2>3. product = <<>> \/ \E broken : product = Broken(ProductRules, broken)
    BY DEF ProductChecks
  <2>4. QED
    BY <1>6, <1>7, <2>1, <2>2, <2>3, BrokenChecks, Lists
<1>20. key \in Seq(Check)
  BY <1>3, <1>4, Lists
<1>5. BuildChecks(b, transport) = service \o split \o (utf \o key \o base \o url \o rest \o product)
  BY DEF BuildChecks, ResolveChecks
<1> HIDE DEF service, split, utf, key, base, url, rest, product
<1>9. /\ utf \o key \in Seq(Check) /\ utf \o key \o base \in Seq(Check)
      /\ utf \o key \o base \o url \in Seq(Check) /\ utf \o key \o base \o url \o rest \in Seq(Check)
      /\ utf \o key \o base \o url \o rest \o product \in Seq(Check)
      /\ service \o split \in Seq(Check)
  BY <1>1, <1>2, <1>8, <1>20, ConcatProperties
<1>21. \A s, t \in Seq(Check) : Failing(s \o t) = {} => Failing(s) = {} /\ Failing(t) = {}
  BY NoneFails
<1> DEFINE front == service \o split
           resolving == utf \o key \o base \o url \o rest \o product
<1>10. Failing(resolving) = {}
  <2>1. front \in Seq(Check) /\ resolving \in Seq(Check) /\ Failing(front \o resolving) = {}
    BY <1>5, <1>9
  <2> HIDE DEF front, resolving
  <2>2. QED
    BY <1>21, <2>1
<1>11. Failing(utf \o key \o base \o url) = {}
  <2>1. Failing(utf \o key \o base \o url \o rest) = {}
    BY <1>8, <1>9, <1>10, <1>21
  <2>2. QED
    BY <1>2, <1>9, <2>1, <1>21
<1>12. Failing(url) = {} /\ Failing(utf \o key \o base) = {}
  BY <1>8, <1>9, <1>11, <1>21
<1>13. Failing(key) = {}
  <2>1. Failing(utf \o key) = {}
    BY <1>2, <1>9, <1>12, <1>21
  <2>2. QED
    BY <1>2, <1>20, <2>1, <1>21
<1>14. text # ""
  <2>1. 1 \in DOMAIN key /\ key[1] = blank
    BY <1>4
  <2>2. ~blank[1]
    BY <1>13, <2>1 DEF Failing
  <2>3. QED
    BY <1>3, <2>2
<1>15. Given(b.base_url, env.base_url) # None
  <2>1. SUFFICES ASSUME url = <<missing>> PROVE FALSE
    BY <1>7
  <2>2. 1 \in DOMAIN url /\ url[1] = missing
    BY <2>1
  <2>3. QED
    BY <1>6, <1>12, <2>2 DEF Failing
<1>16. QED
  BY <1>14, <1>15 DEF text

\* The text of a variable that counts is the one it holds.
LEMMA Trims ==
  ASSUME NEW v, v = None \/ {"text", "pad"} \subseteq DOMAIN v, FromEnv(v) # None
  PROVE  v # None /\ FromEnv(v).text = v.text
BY DEF FromEnv

\* A client that is built is what its builder was told.
LEMMA Assembled ==
  ASSUME IInv, pc = "building", NEW transport, Failing(BuildChecks(settings, transport)) = {}
  PROVE  LET c == Assemble(settings, transport) IN
         /\ c.authorization = [key |-> Wanted("client", "api_key", env.api_key).text]
         /\ c.address = Wanted("client", "base_url", env.base_url).text
         /\ c.default_model = Wanted("client", "default_model", FromEnv(env.default_model))
         /\ c.timeout = Wanted("client", "timeout", DefaultTimeout)
         /\ c.max_response_bytes = Wanted("client", "max_response_bytes", DefaultMaxBytes)
         /\ c.user_agent = UserAgent(Wanted("client", "user_agent_product", None))
         /\ c.send_runtime_header = Wanted("client", "send_runtime_header", TRUE)
         /\ c.retry \in Nat
         /\ Mirrors(c.default_headers, "client", "default_headers")
<1>1. said \in Seq(Utterances) /\ env \in Environments
  BY DEF IInv
<1>2. /\ \A set \in BuilderSetters : settings[set] = Wanted("client", set, NewBuilder[set])
      /\ Mirrors(settings.default_headers, "client", "default_headers")
  BY DEF IInv, Configured
<1>3. /\ settings.api_key = Wanted("client", "api_key", None)
      /\ settings.base_url = Wanted("client", "base_url", None)
      /\ settings.default_model = Wanted("client", "default_model", None)
      /\ settings.timeout = Wanted("client", "timeout", None)
      /\ settings.max_response_bytes = Wanted("client", "max_response_bytes", None)
      /\ settings.user_agent_product = Wanted("client", "user_agent_product", None)
      /\ settings.send_runtime_header = Wanted("client", "send_runtime_header", TRUE)
      /\ settings.retry = Wanted("client", "retry", None)
  <2>1. /\ {"api_key", "base_url", "default_model", "timeout", "max_response_bytes",
            "user_agent_product", "send_runtime_header", "retry"} \subseteq BuilderSetters
    BY DEF BuilderSetters, Collected, NewBuilder
  <2>2. /\ NewBuilder.send_runtime_header
        /\ \A set \in {"api_key", "base_url", "default_model", "timeout", "max_response_bytes",
                      "user_agent_product", "retry"} : NewBuilder[set] = None
    BY DEF NewBuilder
  <2>3. NewBuilder["send_runtime_header"] = TRUE
    BY DEF NewBuilder
  <2>4. QED
    BY <1>2, <2>1, <2>2, <2>3
<1>4. \A explicit, variable : Given(explicit, variable) = Or(explicit, FromEnv(variable))
  BY DEF Given, Or
<1>5. \A v \in {env.api_key, env.base_url, env.default_model} : v = None \/ {"text", "pad"} \subseteq DOMAIN v
  BY <1>1, CallsAssumption
<1>6. /\ Given(settings.api_key, env.api_key) = Wanted("client", "api_key", FromEnv(env.api_key))
      /\ Given(settings.base_url, env.base_url) = Wanted("client", "base_url", FromEnv(env.base_url))
      /\ Given(settings.default_model, env.default_model)
           = Wanted("client", "default_model", FromEnv(env.default_model))
  BY <1>1, <1>3, <1>4, OrWanted
<1>7. Given(settings.api_key, env.api_key).text = Wanted("client", "api_key", env.api_key).text
  <2>1. CASE Sayings("client", "api_key") = {}
    <3>1. Given(settings.api_key, env.api_key) = FromEnv(env.api_key)
      BY <1>6, <2>1 DEF Wanted
    <3>2. Plain("").text = ""
      BY DEF Plain
    <3>3. Given(settings.api_key, env.api_key) # None
      BY <3>2, Checked DEF Or
    <3>4. QED
      BY <1>5, <2>1, <3>1, <3>3, Trims DEF Wanted
  <2>2. CASE Sayings("client", "api_key") # {}
    BY <1>6, <2>2 DEF Wanted
  <2>3. QED
    BY <2>1, <2>2
<1>8. Given(settings.base_url, env.base_url).text = Wanted("client", "base_url", env.base_url).text
  <2>1. CASE Sayings("client", "base_url") = {}
    <3>1. Given(settings.base_url, env.base_url) = FromEnv(env.base_url)
      BY <1>6, <2>1 DEF Wanted
    <3>2. Given(settings.base_url, env.base_url) # None
      BY Checked
    <3>3. QED
      BY <1>5, <2>1, <3>1, <3>2, Trims DEF Wanted
  <2>2. CASE Sayings("client", "base_url") # {}
    BY <1>6, <2>2 DEF Wanted
  <2>3. QED
    BY <2>1, <2>2
<1>9. /\ Or(settings.timeout, DefaultTimeout) = Wanted("client", "timeout", DefaultTimeout)
      /\ Or(settings.max_response_bytes, DefaultMaxBytes)
           = Wanted("client", "max_response_bytes", DefaultMaxBytes)
      /\ settings.retry \in Nat \cup {None}
  BY <1>1, <1>3, OrWanted
<1>10. Or(settings.retry, DefaultRetries) \in Nat
  BY <1>9, CallAssumption DEF Or
<1>11. QED
  BY <1>2, <1>3, <1>6, <1>7, <1>8, <1>9, <1>10 DEF Assemble, Bearer

-----------------------------------------------------------------------------
(* What a call is sent with.                                               *)

\* The checks before a call is sent are checks, of which the last is passed only
\* when there is a model.
LEMMA Passed ==
  ASSUME NEW state, Failing(EncodeChecks(state)) = {}
  PROVE  Has(request.extra, "model") \/ ModelNamed # None
<1> DEFINE member == <<\E i \in DOMAIN request.extra : request.extra[i].value = Unencodable, "extra member">>
           decided == <<~Has(request.extra, "state") /\ state = Unencodable, "state">>
           content == <<~Has(request.extra, "state") /\ state.json \notin {"string", "object", "array"}, "content">>
           none == <<~Has(request.extra, "model") /\ ModelNamed = None, "no model">>
<1>1. EncodeChecks(state) = <<member, decided, content, none>>
  BY DEF EncodeChecks
<1>2. none[1] = (~Has(request.extra, "model") /\ ModelNamed = None)
  OBVIOUS
<1> HIDE DEF member, decided, content, none
<1>3. 4 \in DOMAIN EncodeChecks(state) /\ EncodeChecks(state)[4] = none
  BY <1>1
<1>4. ~none[1]
  BY <1>3 DEF Failing
<1>5. QED
  BY <1>2, <1>4

LEMMA SendPassed ==
  ASSUME NEW state, Failing(SendChecks \o EncodeChecks(state)) = {}
  PROVE  Failing(EncodeChecks(state)) = {}
<1> DEFINE never == <<request.timeout = 0, "timeout">>
           header == <<~Parses(request.headers), "header">>
           member == <<\E i \in DOMAIN request.extra : request.extra[i].value = Unencodable, "extra member">>
           decided == <<~Has(request.extra, "state") /\ state = Unencodable, "state">>
           content == <<~Has(request.extra, "state") /\ state.json \notin {"string", "object", "array"}, "content">>
           none == <<~Has(request.extra, "model") /\ ModelNamed = None, "no model">>
<1>1. never \in Check /\ header \in Check
  BY DEF Check, Reasons
<1>2. member \in Check /\ decided \in Check
  BY DEF Check, Reasons
<1>3. content \in Check /\ none \in Check
  BY DEF Check, Reasons
<1>4. SendChecks = <<never, header>> /\ EncodeChecks(state) = <<member, decided, content, none>>
  BY DEF SendChecks, EncodeChecks
<1> HIDE DEF never, header, member, decided, content, none
<1>5. SendChecks \in Seq(Check) /\ EncodeChecks(state) \in Seq(Check)
  BY <1>1, <1>2, <1>3, <1>4, Lists
<1>6. QED
  BY <1>5, NoneFails

LEMMA Encoded ==
  ASSUME IInv, pc = "calling", NEW state, Failing(EncodeChecks(state)) = {}
  PROVE  BodyTells(Encode(state))
<1> DEFINE extra == request.extra
           OwnName == {"state", "model", "questions"}
           kept == {i \in DOMAIN extra : extra[i].name \notin OwnName}
           rest == Sift(extra, kept)
           decided == Member("state", Named(extra, "state", state))
           model == Member("model", Named(extra, "model", ModelNamed))
           questions == Member("questions", Named(extra, "questions", prepared.json))
           S == Values \cup {decided, model, questions}
           front == <<decided, model, questions>>
           ms == front \o rest
<1>1. /\ Extras(extra) /\ extra \in Seq(Values) /\ Distinct(extra)
      /\ said \in Seq(Utterances)
  BY DEF IInv, Requested, Extras
<1>2. Encode(state) = Object(ms)
  BY DEF Encode
<1>3. /\ decided.name = "state" /\ decided.value = Named(extra, "state", state)
      /\ model.name = "model" /\ model.value = Named(extra, "model", ModelNamed)
      /\ questions.name = "questions" /\ questions.value = Named(extra, "questions", prepared.json)
  BY DEF Member
<1>4. Len(extra) \in Nat /\ DOMAIN extra = 1..Len(extra)
  BY <1>1, LenProperties
<1> HIDE DEF extra, decided, model, questions
<1>5. extra \in Seq(S) /\ kept \in SUBSET DOMAIN extra
  BY <1>1
<1>6. PICK at \in [DOMAIN rest -> kept] :
        /\ rest \in Seq(S)
        /\ \A k \in DOMAIN rest : rest[k] = extra[at[k]]
        /\ \A j, k \in DOMAIN rest : j < k => at[j] < at[k]
        /\ \A i \in kept : \E k \in DOMAIN rest : at[k] = i
  <2>1. kept \subseteq DOMAIN extra
    BY <1>5
  <2> HIDE DEF S, kept
  <2>2. rest \in Seq(S) /\ Sifted(extra, kept, rest)
    BY <1>5, <2>1, Sifts
  <2> HIDE DEF rest
  <2>3. QED
    BY <2>2 DEF Sifted
<1>7. /\ kept \subseteq Nat /\ kept \subseteq DOMAIN extra
      /\ \A i \in DOMAIN extra : i \in kept <=> extra[i].name \notin OwnName
  BY <1>4
<1> HIDE DEF kept, rest
<1>8. front \in Seq(S) /\ Len(front) = 3
      /\ front[1] = decided /\ front[2] = model /\ front[3] = questions
  OBVIOUS
<1> HIDE DEF front, S
<1>9. Len(rest) \in Nat /\ DOMAIN rest = 1..Len(rest)
  BY <1>6, LenProperties
<1>10. /\ ms \in Seq(S) /\ DOMAIN ms = 1..(3 + Len(rest))
       /\ ms[1] = decided /\ ms[2] = model /\ ms[3] = questions
       /\ \A k \in 1..Len(rest) : 3 + k \in DOMAIN ms /\ ms[3 + k] = rest[k]
  <2>1. ms \in Seq(S) /\ Len(ms) = 3 + Len(rest)
        /\ \A i \in 1..(3 + Len(rest)) : ms[i] = IF i <= 3 THEN front[i] ELSE rest[i - 3]
    <3>1. rest \in Seq(S)
      BY <1>6
    <3>2. /\ ms \in Seq(S) /\ Len(ms) = Len(front) + Len(rest)
          /\ \A i \in 1..(Len(front) + Len(rest)) :
               ms[i] = IF i <= Len(front) THEN front[i] ELSE rest[i - Len(front)]
      BY <1>8, <3>1, ConcatProperties
    <3> HIDE DEF ms
    <3>3. QED
      BY <1>8, <3>2
  <2> HIDE DEF ms
  <2>2. DOMAIN ms = 1..(3 + Len(rest))
    BY <2>1, LenProperties
  <2>3. 1 \in 1..(3 + Len(rest)) /\ 2 \in 1..(3 + Len(rest)) /\ 3 \in 1..(3 + Len(rest))
    BY <1>9
  <2>4. ASSUME NEW k \in 1..Len(rest) PROVE 3 + k \in DOMAIN ms /\ ms[3 + k] = rest[k]
    <3>1. 3 + k \in 1..(3 + Len(rest)) /\ ~(3 + k <= 3) /\ (3 + k) - 3 = k
      BY <1>9
    <3>2. QED
      BY <2>1, <2>2, <3>1
  <2>5. QED
    BY <1>8, <2>1, <2>2, <2>3, <2>4
<1> HIDE DEF ms
<1>11. \A k \in DOMAIN rest : rest[k].name \notin OwnName
  BY <1>6, <1>7
<1>12. \A j, k \in DOMAIN rest : rest[j].name = rest[k].name => j = k
  <2>1. ASSUME NEW j \in DOMAIN rest, NEW k \in DOMAIN rest, rest[j].name = rest[k].name PROVE j = k
    <3>1. at[j] \in DOMAIN extra /\ at[k] \in DOMAIN extra
      BY <1>6, <1>7
    <3>2. at[j] = at[k]
      BY <1>1, <1>6, <2>1, <3>1 DEF Distinct
    <3>3. at[j] \in Nat /\ at[k] \in Nat
      BY <1>6, <1>7
    <3>4. ~(j < k) /\ ~(k < j)
      BY <1>6, <3>2, <3>3
    <3>5. QED
      BY <1>9, <3>4
  <2>2. QED
    BY <2>1
<1>13. Distinct(ms)
  <2>1. \A i \in DOMAIN ms : i \in {1, 2, 3} \/ \E k \in DOMAIN rest : i = 3 + k /\ ms[i] = rest[k]
    <3>1. ASSUME NEW i \in DOMAIN ms, i \notin {1, 2, 3}
          PROVE  \E k \in DOMAIN rest : i = 3 + k /\ ms[i] = rest[k]
      <4>1. i - 3 \in DOMAIN rest /\ i = 3 + (i - 3)
        BY <1>9, <1>10, <3>1
      <4>2. QED
        BY <1>9, <1>10, <4>1
    <3>2. QED
      BY <3>1
  <2>2. \A i \in {1, 2, 3} : ms[i].name \in OwnName
    BY <1>3, <1>10
  <2>3. \A i, j \in {1, 2, 3} : ms[i].name = ms[j].name => i = j
    BY <1>3, <1>10
  <2>4. ASSUME NEW i \in DOMAIN ms, NEW j \in DOMAIN ms, ms[i].name = ms[j].name PROVE i = j
    <3> HIDE DEF OwnName
    <3>1. CASE i \in {1, 2, 3}
      <4>1. j \in {1, 2, 3}
        BY <1>11, <2>1, <2>2, <2>4, <3>1
      <4>2. QED
        BY <2>3, <2>4, <3>1, <4>1
    <3>2. CASE i \notin {1, 2, 3}
      <4>1. j \notin {1, 2, 3}
        BY <1>11, <2>1, <2>2, <2>4, <3>2
      <4>2. PICK k \in DOMAIN rest : i = 3 + k /\ ms[i] = rest[k]
        BY <2>1, <3>2
      <4>3. PICK l \in DOMAIN rest : j = 3 + l /\ ms[j] = rest[l]
        BY <2>1, <4>1
      <4>4. k = l
        BY <1>12, <2>4, <4>2, <4>3
      <4>5. QED
        BY <4>2, <4>3, <4>4
    <3>3. QED
      BY <3>1, <3>2
  <2>5. QED
    BY <2>4 DEF Distinct
<1>14. \A i \in DOMAIN ms : Has(ms, ms[i].name) /\ LastOf(ms, ms[i].name) = ms[i].value
  BY <1>10, <1>13, LastOfDistinct DEF Has
<1>15. 1 \in DOMAIN ms /\ 2 \in DOMAIN ms /\ 3 \in DOMAIN ms
  BY <1>9, <1>10
<1>16. /\ Has(ms, "state") /\ LastOf(ms, "state") = Named(extra, "state", state)
       /\ Has(ms, "model") /\ LastOf(ms, "model") = Named(extra, "model", ModelNamed)
       /\ Has(ms, "questions") /\ LastOf(ms, "questions") = Named(extra, "questions", prepared.json)
  BY <1>3, <1>10, <1>14, <1>15
<1>17. \A n : n \in ExtraNames <=> Has(extra, n)
  <2>1. \A n : n \in ExtraNames <=> Naming("request", "extra", n) # {}
    BY DEF ExtraNames, Naming
  <2>2. QED
    BY <1>1, <2>1 DEF Extras
<1>18. ASSUME NEW n \in ExtraNames
       PROVE  /\ Has(ms, n)
              /\ LastOf(ms, n) = said[Max(Naming("request", "extra", n))].value.value
  <2>1. Has(extra, n) /\ LastOf(extra, n) = said[Max(Naming("request", "extra", n))].value.value
    BY <1>1, <1>17 DEF Extras
  <2>2. CASE n \in OwnName
    BY <1>16, <2>1, <2>2 DEF Named
  <2>3. CASE n \notin OwnName
    <3>1. PICK i \in DOMAIN extra : extra[i].name = n
      BY <2>1 DEF Has
    <3>2. LastOf(extra, n) = extra[i].value
      BY <1>1, <3>1, LastOfDistinct
    <3>3. i \in kept
      BY <1>7, <2>3, <3>1
    <3>4. PICK k \in DOMAIN rest : at[k] = i
      BY <1>6, <3>3
    <3>5. 3 + k \in DOMAIN ms /\ ms[3 + k] = extra[i]
      BY <1>6, <1>9, <1>10, <3>4
    <3>6. QED
      BY <1>14, <2>1, <3>1, <3>2, <3>5
  <2>4. QED
    BY <2>2, <2>3
<1>19. ASSUME "model" \notin ExtraNames PROVE LastOf(ms, "model").text = ModelWanted
  <2>1. ~Has(extra, "model")
    BY <1>17, <1>19
  <2>2. LastOf(ms, "model") = ModelNamed /\ ModelNamed # None
    BY <1>16, <2>1, Passed DEF Named, extra
  <2>3. ModelNamed.text = Or(request.model, client.default_model)
    BY <2>2 DEF ModelNamed, ModelText
  <2>4. request.model = Wanted("request", "model", None)
    <3>1. "model" \in RequestSetters
      BY DEF RequestSetters, NewRequest, Collected
    <3>2. QED
      BY <3>1 DEF IInv, Requested
  <2>5. client.default_model = Wanted("client", "default_model", FromEnv(env.default_model))
    BY DEF IInv, Built
  <2>6. Or(request.model, client.default_model) = ModelWanted
    BY <1>1, <2>4, <2>5, OrWanted DEF ModelWanted
  <2>7. QED
    BY <2>2, <2>3, <2>6
<1>20. ASSUME "questions" \notin ExtraNames PROVE LastOf(ms, "questions") = prepared.json
  BY <1>16, <1>17, <1>20 DEF Named
<1>21. Object(ms).json = "object" /\ Object(ms).members = ms
  BY DEF Object
<1>22. \A i, j \in DOMAIN ms : ms[i].name = ms[j].name => i = j
  BY <1>13 DEF Distinct
<1>23. BodyTells(Object(ms))
  <2> DEFINE body == Object(ms)
  <2> HIDE DEF body
  <2>1. body.json = "object" /\ body.members = ms
    BY <1>21 DEF body
  <2>2. BodyTells(body)
    BY <1>16, <1>18, <1>19, <1>20, <1>22, <2>1 DEF BodyTells
  <2>3. QED
    BY <2>2 DEF body
<1>24. QED
  BY <1>2, <1>23

-----------------------------------------------------------------------------
(* The invariant is inductive.                                             *)

\* A setter sets what it is named after, a collecting one adds to it.
LEMMA Applied ==
  ASSUME NEW b, NEW u, NEW call, u.set = call.set, u.value = call.value, u.set \in DOMAIN b
  PROVE  /\ DOMAIN Apply(b, call) = DOMAIN b
         /\ \A set \in DOMAIN b : set # u.set => Apply(b, call)[set] = b[set]
         /\ u.set \notin Collected => Apply(b, call)[u.set] = u.value
         /\ u.set = "extra" => Apply(b, call)[u.set] = Upsert(b[u.set], u.value)
         /\ u.set \in Collected \ {"extra"} => Apply(b, call)[u.set] = Append(b[u.set], u.value)
<1> DEFINE v == CASE call.set = "extra" -> Upsert(b[call.set], call.value)
                  [] call.set \in Collected \ {"extra"} -> Append(b[call.set], call.value)
                  [] OTHER -> call.value
<1>1. Apply(b, call) = [b EXCEPT ![call.set] = v]
  BY DEF Apply
<1>2. "extra" \in Collected
  BY DEF Collected
<1>3. /\ call.set \notin Collected => v = call.value
      /\ call.set = "extra" => v = Upsert(b[call.set], call.value)
      /\ call.set \in Collected \ {"extra"} => v = Append(b[call.set], call.value)
  BY <1>2
<1> HIDE DEF v
<1>4. QED
  BY <1>1, <1>3

\* Whoever is not spoken to holds what was said to it.
LEMMA Unsaid ==
  ASSUME said \in Seq(Utterances), said' = said
  PROVE  \A to : Silent(to)
<1>1. Len(said) \in Nat /\ DOMAIN said = 1..Len(said)
  BY LenProperties
<1>2. QED
  BY <1>1 DEF Silent

LEMMA RequestedStays ==
  ASSUME said \in Seq(Utterances), said' \in Seq(Utterances), Silent("request"), Requested,
         request' = request
  PROVE  Requested'
<1>1. PICK r : r = request
  OBVIOUS
<1>2. \A set : Wanted("request", set, None)' = Wanted("request", set, None)
  BY Keeps
<1>3. /\ Mirrors(r.headers, "request", "headers") => Mirrors(r.headers, "request", "headers")'
      /\ Extras(r.extra) => Extras(r.extra)'
  BY StaysSaid
<1>4. request' = r
  BY <1>1
<1>5. QED
  BY <1>1, <1>2, <1>3, <1>4 DEF Requested

LEMMA BuiltStays ==
  ASSUME said \in Seq(Utterances), said' \in Seq(Utterances), Silent("client"), Built,
         pc \in {"asking", "calling", "sending"}, client' = client, env' = env
  PROVE  Built'
<1>1. PICK c : c = client
  OBVIOUS
<1>2. PICK e : e = env
  OBVIOUS
<1>3. \A set, otherwise : Wanted("client", set, otherwise)' = Wanted("client", set, otherwise)
  BY Keeps
<1>4. Mirrors(c.default_headers, "client", "default_headers") =>
        Mirrors(c.default_headers, "client", "default_headers")'
  BY StaysSaid
<1>5. client' = c /\ env' = e
  BY <1>1, <1>2
<1>6. QED
  BY <1>1, <1>2, <1>3, <1>4, <1>5, ZenonT(60) DEF Built

\* A body tells the same of what was said as long as nothing more is said.
LEMMA BodyStays ==
  ASSUME said' = said, prepared' = prepared, env' = env
  PROVE  \A body : BodyTells(body)' = BodyTells(body)
<1>1. \A to, set : Sayings(to, set)' = Sayings(to, set)
  BY DEF Sayings
<1>2. \A to, set, n : Naming(to, set, n)' = Naming(to, set, n)
  BY <1>1 DEF Naming
<1>3. \A to, set, otherwise : Wanted(to, set, otherwise)' = Wanted(to, set, otherwise)
  BY <1>1 DEF Wanted
<1>4. ExtraNames' = ExtraNames
  BY <1>1 DEF ExtraNames
<1>5. ModelWanted' = ModelWanted
  BY <1>3 DEF ModelWanted
<1>6. QED
  BY <1>2, <1>4, <1>5 DEF BodyTells


LEMMA InitIInv == Init => IInv
<1> SUFFICES ASSUME Init PROVE IInv
  OBVIOUS
<1>1. /\ \A to, set, otherwise : Wanted(to, set, otherwise) = otherwise
      /\ \A to, set : Mirrors(<<>>, to, set)
      /\ Extras(<<>>)
  BY Nothing DEF Init
<1>2. said \in Seq(Utterances) /\ env \in Environments
  BY DEF Init
<1>3. settings = NewBuilder /\ request = NewRequest /\ sent = None /\ pc = "building"
  BY DEF Init
<1>4. Configured
  BY <1>1, <1>3 DEF Configured, NewBuilder
<1>5. /\ DOMAIN NewRequest = {"model", "timeout", "headers", "extra", "retry"}
      /\ NewRequest.headers = <<>> /\ NewRequest.extra = <<>>
      /\ NewRequest["model"] = None /\ NewRequest["timeout"] = None /\ NewRequest["retry"] = None
  BY DEF NewRequest
<1>6. \A set \in RequestSetters : NewRequest[set] = None
  BY <1>5 DEF RequestSetters, Collected
<1>7. Requested
  BY <1>1, <1>3, <1>5, <1>6 DEF Requested
<1>8. Built /\ Underway
  BY <1>3 DEF Built, Underway
<1>9. QED
  BY <1>2, <1>4, <1>7, <1>8 DEF IInv

\* What a call says is one of the things that can be said.
LEMMA SaysUtters ==
  ASSUME said \in Seq(Utterances), NEW to, NEW call, Says(to, call),
         \/ to = "client" /\ call \in BuilderCalls
         \/ to = "questions" /\ call \in QuestionCalls
         \/ to = "request" /\ call \in RequestCalls
  PROVE  \E u \in Utterances :
           /\ u.to = to /\ u.set = call.set /\ u.value = call.value
           /\ said' = Append(said, u)
<1> DEFINE u == Over([to |-> to], call)
<1>1. u \in Utterances
  BY DEF Utterances
<1>2. "set" \in DOMAIN call /\ "value" \in DOMAIN call
  BY CallsAssumption
<1>3. u.to = to /\ u.set = call.set /\ u.value = call.value
  BY <1>2, Spoken
<1>4. said' = Append(said, u)
  BY DEF Says
<1> HIDE DEF u
<1>5. QED
  BY <1>1, <1>3, <1>4

LEMMA ConfigureKeeps ==
  ASSUME IInv, NEW call \in BuilderCalls, Configure(call) PROVE IInv'
<1>1. /\ said \in Seq(Utterances) /\ env \in Environments
      /\ pc = "building" /\ pc' = "building" /\ sent = None /\ sent' = None /\ env' = env
      /\ settings' = Apply(settings, call) /\ request' = request /\ Says("client", call)
  BY DEF IInv, Underway, Configure
<1>2. PICK u \in Utterances :
        /\ u.to = "client" /\ u.set = call.set /\ u.value = call.value
        /\ said' = Append(said, u)
  BY <1>1, SaysUtters
<1>3. u.set \in DOMAIN NewBuilder /\ u.set # "extra"
  <2>1. u.set \in DOMAIN NewBuilder
    BY <1>2, CallsAssumption
  <2>2. QED
    BY <2>1 DEF NewBuilder
<1>4. /\ said' \in Seq(Utterances) /\ Silent("request")
      /\ \A set : set # u.set => \A otherwise :
           Wanted("client", set, otherwise)' = Wanted("client", set, otherwise)
      /\ \A otherwise : Wanted("client", u.set, otherwise)' = u.value
  BY <1>1, <1>2, Adds
<1>5. /\ DOMAIN settings = DOMAIN NewBuilder
      /\ \A set \in BuilderSetters : settings[set] = Wanted("client", set, NewBuilder[set])
      /\ Mirrors(settings.default_headers, "client", "default_headers")
  BY <1>1 DEF IInv, Configured
<1>6. PICK new : new = Apply(settings, call)
  OBVIOUS
<1>7. /\ DOMAIN new = DOMAIN NewBuilder
      /\ \A set \in DOMAIN NewBuilder : set # u.set => new[set] = settings[set]
      /\ u.set \notin Collected => new[u.set] = u.value
      /\ u.set \in Collected => new[u.set] = Append(settings[u.set], u.value)
  BY <1>2, <1>3, <1>5, <1>6, Applied, SMTT(60)
<1>8. ASSUME NEW set \in BuilderSetters
      PROVE  new[set] = Wanted("client", set, NewBuilder[set])'
  <2>1. set \in DOMAIN NewBuilder /\ set \notin Collected
    BY DEF BuilderSetters
  <2>2. NewBuilder' = NewBuilder
    BY DEF NewBuilder
  <2>3. PICK otherwise : otherwise = NewBuilder[set]
    OBVIOUS
  <2>4. CASE set = u.set
    BY <1>4, <1>7, <2>1, <2>3, <2>4
  <2>5. CASE set # u.set
    BY <1>4, <1>5, <1>7, <2>1, <2>3, <2>5
  <2>6. QED
    BY <2>4, <2>5
<1>9. Mirrors(new.default_headers, "client", "default_headers")'
  <2>1. PICK headers : headers = settings.default_headers
    OBVIOUS
  <2>2. /\ u.set = "default_headers" =>
              Mirrors(Append(headers, u.value), "client", "default_headers")'
        /\ u.set # "default_headers" => Mirrors(headers, "client", "default_headers")'
    BY <1>1, <1>2, <1>5, <2>1, JoinsSaid
  <2>3. "default_headers" \in DOMAIN NewBuilder /\ "default_headers" \in Collected
    BY DEF NewBuilder, Collected
  <2>4. PICK hs : hs = new.default_headers
    OBVIOUS
  <2>5. hs = IF u.set = "default_headers" THEN Append(headers, u.value) ELSE headers
    BY <1>7, <2>1, <2>3, <2>4
  <2>6. Mirrors(hs, "client", "default_headers")'
    BY <2>2, <2>5
  <2>7. QED
    BY <2>4, <2>6
<1>10. Configured'
  BY <1>1, <1>6, <1>7, <1>8, <1>9 DEF Configured
<1>11. Requested'
  BY <1>1, <1>4, RequestedStays DEF IInv
<1>12. Built' /\ Underway'
  BY <1>1 DEF Built, Underway
<1>13. QED
  BY <1>1, <1>4, <1>10, <1>11, <1>12 DEF IInv

LEMMA BuildKeeps ==
  ASSUME IInv, NEW transport, Build(transport) PROVE IInv'
<1>1. /\ said \in Seq(Utterances) /\ env \in Environments
      /\ pc = "building" /\ sent = None
      /\ sent' = sent /\ env' = env /\ said' = said /\ request' = request
      /\ \/ pc' = "done"
         \/ /\ pc' = "asking" /\ Failing(BuildChecks(settings, transport)) = {}
            /\ client' = Assemble(settings, transport)
  BY DEF IInv, Underway, Build
<1>2. Silent("client") /\ Silent("request") /\ said' \in Seq(Utterances)
  BY <1>1, Unsaid
<1>3. Requested'
  BY <1>1, <1>2, RequestedStays DEF IInv
<1>4. Configured' /\ Underway'
  BY <1>1 DEF Configured, Underway
<1>5. Built'
  <2>1. CASE pc' = "done"
    BY <2>1 DEF Built
  <2>2. CASE pc' = "asking" /\ Failing(BuildChecks(settings, transport)) = {}
             /\ client' = Assemble(settings, transport)
    <3>1. PICK c : c = Assemble(settings, transport)
      OBVIOUS
    <3>2. /\ c.authorization = [key |-> Wanted("client", "api_key", env.api_key).text]
          /\ c.address = Wanted("client", "base_url", env.base_url).text
          /\ c.default_model = Wanted("client", "default_model", FromEnv(env.default_model))
          /\ c.timeout = Wanted("client", "timeout", DefaultTimeout)
          /\ c.max_response_bytes = Wanted("client", "max_response_bytes", DefaultMaxBytes)
          /\ c.user_agent = UserAgent(Wanted("client", "user_agent_product", None))
          /\ c.send_runtime_header = Wanted("client", "send_runtime_header", TRUE)
          /\ c.retry \in Nat
          /\ Mirrors(c.default_headers, "client", "default_headers")
      BY <1>1, <2>2, <3>1, Assembled
    <3>3. \A set, otherwise : Wanted("client", set, otherwise)' = Wanted("client", set, otherwise)
      BY <1>1, <1>2, Keeps
    <3>4. PICK hs : hs = c.default_headers
      OBVIOUS
    <3>5. Mirrors(hs, "client", "default_headers")'
      BY <1>1, <1>2, <3>2, <3>4, StaysSaid
    <3>6. Mirrors(c.default_headers, "client", "default_headers")'
      BY <3>4, <3>5
    <3>7. client' = c
      BY <2>2, <3>1
    <3>8. PICK e : e = env
      OBVIOUS
    <3>9. env' = e
      BY <1>1, <3>8
    <3>10. QED
      BY <3>2, <3>3, <3>6, <3>7, <3>8, <3>9, ZenonT(60) DEF Built
  <2>3. QED
    BY <1>1, <2>1, <2>2
<1>6. QED
  BY <1>1, <1>2, <1>3, <1>4, <1>5 DEF IInv

LEMMA AskKeeps ==
  ASSUME IInv, NEW call \in QuestionCalls, Ask(call) PROVE IInv'
<1>1. /\ said \in Seq(Utterances) /\ env \in Environments
      /\ pc = "asking" /\ pc' \in {"asking", "done"} /\ sent = None
      /\ sent' = sent /\ env' = env /\ request' = request /\ client' = client
      /\ Says("questions", call)
  BY DEF IInv, Underway, Ask
<1>2. PICK u \in Utterances : u.to = "questions" /\ said' = Append(said, u)
  BY <1>1, SaysUtters
<1>3. Silent("client") /\ Silent("request") /\ said' \in Seq(Utterances)
  BY <1>1, <1>2, Adds
<1>4. Requested' /\ Built'
  BY <1>1, <1>3, RequestedStays, BuiltStays DEF IInv
<1>5. Configured' /\ Underway'
  BY <1>1 DEF Configured, Underway
<1>6. QED
  BY <1>1, <1>3, <1>4, <1>5 DEF IInv

LEMMA PrepareKeeps ==
  ASSUME IInv, PrepareQuestions PROVE IInv'
<1>1. /\ said \in Seq(Utterances) /\ env \in Environments
      /\ pc = "asking" /\ pc' \in {"calling", "done"} /\ sent = None
      /\ sent' = sent /\ env' = env /\ request' = request /\ client' = client /\ said' = said
  BY DEF IInv, Underway, PrepareQuestions
<1>2. Silent("client") /\ Silent("request") /\ said' \in Seq(Utterances)
  BY <1>1, Unsaid
<1>3. Requested' /\ Built'
  BY <1>1, <1>2, RequestedStays, BuiltStays DEF IInv
<1>4. Configured' /\ Underway'
  BY <1>1 DEF Configured, Underway
<1>5. QED
  BY <1>1, <1>2, <1>3, <1>4 DEF IInv

LEMMA DeclareKeeps ==
  ASSUME IInv, NEW struct \in Structs, Declare(struct) PROVE IInv'
<1> DEFINE meant == [i \in DOMAIN struct.fields |-> Means(struct.fields[i])]
<1>1. /\ said \in Seq(Utterances) /\ env \in Environments
      /\ pc = "asking" /\ pc' \in {"calling", "done"} /\ sent = None
      /\ sent' = sent /\ env' = env /\ request' = request /\ client' = client
      /\ said' = said \/ said' = said \o meant
  BY DEF IInv, Underway, Declare
<1>2. meant \in Seq(Utterances) /\ \A i \in DOMAIN meant : meant[i].to = "questions"
  <2>1. /\ Len(struct.fields) \in Nat /\ DOMAIN struct.fields = 1..Len(struct.fields)
        /\ \A i \in DOMAIN struct.fields : struct.fields[i] \in ToSet(struct.fields)
    <3>1. PICK S : S = ToSet(struct.fields)
      OBVIOUS
    <3>2. struct.fields \in Seq(S)
      BY <3>1, CallsAssumption
    <3>3. QED
      BY <3>1, <3>2, LenProperties, ElementOfSeq
  <2>2. \A i \in DOMAIN struct.fields : struct.fields[i] \in DeclaredFields
    BY <2>1 DEF DeclaredFields
  <2>3. \A i \in DOMAIN struct.fields : Means(struct.fields[i]) \in Utterances
    BY <2>2 DEF Utterances
  <2>4. \A field : Means(field).to = "questions"
    BY DEF Means
  <2>5. meant \in [1..Len(struct.fields) -> Utterances]
    BY <2>1, <2>3
  <2>6. QED
    BY <2>1, <2>4, <2>5, Sequences
<1> HIDE DEF meant
<1>3. Silent("client") /\ Silent("request") /\ said' \in Seq(Utterances)
  <2>1. CASE said' = said
    BY <1>1, <2>1, Unsaid
  <2>2. CASE said' = said \o meant
    <3>1. /\ Len(said) \in Nat /\ Len(meant) \in Nat /\ DOMAIN meant = 1..Len(meant)
          /\ said' \in Seq(Utterances) /\ Len(said') = Len(said) + Len(meant)
          /\ \A i \in 1..(Len(said) + Len(meant)) :
               said'[i] = IF i <= Len(said) THEN said[i] ELSE meant[i - Len(said)]
      BY <1>1, <1>2, <2>2, ConcatProperties, LenProperties
    <3>2. /\ Len(said) <= Len(said')
          /\ \A i \in 1..Len(said) : said'[i] = said[i]
      BY <3>1
    <3>3. ASSUME NEW i \in (Len(said) + 1)..Len(said') PROVE said'[i].to = "questions"
      <4>1. i \in 1..(Len(said) + Len(meant)) /\ ~(i <= Len(said)) /\ i - Len(said) \in DOMAIN meant
        BY <3>1
      <4>2. QED
        BY <1>2, <3>1, <4>1
    <3>4. QED
      BY <3>1, <3>2, <3>3 DEF Silent
  <2>3. QED
    BY <1>1, <2>1, <2>2
<1>4. Requested' /\ Built'
  BY <1>1, <1>3, RequestedStays, BuiltStays DEF IInv
<1>5. Configured' /\ Underway'
  BY <1>1 DEF Configured, Underway
<1>6. QED
  BY <1>1, <1>3, <1>4, <1>5 DEF IInv


LEMMA SetOptionKeeps ==
  ASSUME IInv, NEW call \in RequestCalls, SetOption(call) PROVE IInv'
<1>1. /\ said \in Seq(Utterances) /\ env \in Environments
      /\ pc = "calling" /\ pc' = "calling" /\ sent = None /\ sent' = None /\ env' = env
      /\ client' = client /\ request' = Apply(request, call) /\ Says("request", call)
  BY DEF IInv, Underway, SetOption
<1>2. PICK u \in Utterances :
        /\ u.to = "request" /\ u.set = call.set /\ u.value = call.value
        /\ said' = Append(said, u)
  BY <1>1, SaysUtters
<1>3. u.set \in DOMAIN NewRequest
  BY <1>2, CallsAssumption
<1>4. /\ said' \in Seq(Utterances) /\ Silent("client")
      /\ \A set : set # u.set => \A otherwise :
           Wanted("request", set, otherwise)' = Wanted("request", set, otherwise)
      /\ \A otherwise : Wanted("request", u.set, otherwise)' = u.value
  BY <1>1, <1>2, Adds
<1>5. /\ DOMAIN request = DOMAIN NewRequest
      /\ \A set \in RequestSetters : request[set] = Wanted("request", set, None)
      /\ Mirrors(request.headers, "request", "headers")
      /\ Extras(request.extra)
  BY <1>1 DEF IInv, Requested
<1>6. PICK new : new = Apply(request, call)
  OBVIOUS
<1>7. /\ DOMAIN new = DOMAIN NewRequest
      /\ \A set \in DOMAIN NewRequest : set # u.set => new[set] = request[set]
      /\ u.set \notin Collected => new[u.set] = u.value
      /\ u.set = "extra" => new[u.set] = Upsert(request[u.set], u.value)
      /\ u.set \in Collected \ {"extra"} => new[u.set] = Append(request[u.set], u.value)
  BY <1>2, <1>3, <1>5, <1>6, Applied
<1>8. ASSUME NEW set \in RequestSetters
      PROVE  new[set] = Wanted("request", set, None)'
  <2>1. set \in DOMAIN NewRequest /\ set \notin Collected
    BY DEF RequestSetters
  <2>2. CASE set = u.set
    BY <1>4, <1>7, <2>1, <2>2
  <2>3. CASE set # u.set
    BY <1>4, <1>5, <1>7, <2>1, <2>3
  <2>4. QED
    BY <2>2, <2>3
<1>9. Mirrors(new.headers, "request", "headers")'
  <2>1. PICK headers : headers = request.headers
    OBVIOUS
  <2>2. /\ u.set = "headers" => Mirrors(Append(headers, u.value), "request", "headers")'
        /\ u.set # "headers" => Mirrors(headers, "request", "headers")'
    BY <1>1, <1>2, <1>5, <2>1, JoinsSaid
  <2>3. "headers" \in DOMAIN NewRequest /\ "headers" \in Collected \ {"extra"}
    BY DEF NewRequest, Collected
  <2>4. PICK hs : hs = new.headers
    OBVIOUS
  <2>5. hs = IF u.set = "headers" THEN Append(headers, u.value) ELSE headers
    BY <1>7, <2>1, <2>3, <2>4
  <2>6. Mirrors(hs, "request", "headers")'
    BY <2>2, <2>5
  <2>7. QED
    BY <2>4, <2>6
<1>10. Extras(new.extra)'
  <2>1. PICK extra : extra = request.extra
    OBVIOUS
  <2>2. /\ u.set = "extra" => Extras(Upsert(extra, u.value))'
        /\ u.set # "extra" => Extras(extra)'
    BY <1>1, <1>2, <1>5, <2>1, JoinsSaid
  <2>3. "extra" \in DOMAIN NewRequest
    BY DEF NewRequest
  <2>4. PICK es : es = new.extra
    OBVIOUS
  <2>5. es = IF u.set = "extra" THEN Upsert(extra, u.value) ELSE extra
    BY <1>7, <2>1, <2>3, <2>4
  <2>6. Extras(es)'
    BY <2>2, <2>5
  <2>7. QED
    BY <2>4, <2>6
<1>11. Requested'
  BY <1>1, <1>6, <1>7, <1>8, <1>9, <1>10 DEF Requested
<1>12. Built'
  BY <1>1, <1>4, BuiltStays DEF IInv
<1>13. Configured' /\ Underway'
  BY <1>1 DEF Configured, Underway
<1>14. QED
  BY <1>1, <1>4, <1>11, <1>12, <1>13 DEF IInv

LEMMA StartKeeps ==
  ASSUME IInv, NEW checks, NEW withBody \in BOOLEAN, NEW body, Start(checks, withBody, body),
         withBody /\ Failing(SendChecks \o checks) = {} => BodyTells(body)
  PROVE  IInv'
<1> DEFINE retries == Or(request.retry, client.retry)
           x == [with_body |-> withBody, headers |-> request.headers,
                 deadline |-> Deadline, body |-> body, retry |-> 0,
                 retries |-> retries, retain |-> retries > 0]
<1>1. /\ said \in Seq(Utterances) /\ env \in Environments
      /\ pc = "calling" /\ sent = None
      /\ sent' = sent /\ env' = env /\ request' = request /\ client' = client
      /\ said' = said /\ prepared' = prepared
      /\ \/ pc' = "done"
         \/ pc' = "sending" /\ Failing(SendChecks \o checks) = {} /\ exchange' = x
  BY DEF IInv, Underway, Start
<1>2. Silent("client") /\ Silent("request") /\ said' \in Seq(Utterances)
  BY <1>1, Unsaid
<1>3. Requested' /\ Built'
  BY <1>1, <1>2, RequestedStays, BuiltStays DEF IInv
<1>4. Configured'
  BY <1>1 DEF Configured
<1>5. Underway'
  <2>1. CASE pc' = "done"
    BY <1>1, <2>1 DEF Underway
  <2>2. CASE pc' = "sending" /\ Failing(SendChecks \o checks) = {} /\ exchange' = x
    <3>1. retries \in Nat
      <4>1. request.retry = Wanted("request", "retry", None)
        <5>1. "retry" \in RequestSetters
          BY DEF RequestSetters, NewRequest, Collected
        <5>2. QED
          BY <5>1 DEF IInv, Requested
      <4>2. request.retry \in Nat \cup {None}
        BY <1>1, <4>1, OrWanted
      <4>3. client.retry \in Nat
        BY <1>1 DEF IInv, Built
      <4>4. QED
        BY <4>2, <4>3 DEF Or
    <3> HIDE DEF retries
    <3>2. /\ x.with_body = withBody /\ x.headers = request.headers /\ x.deadline = Deadline
          /\ x.body = body /\ x.retry = 0 /\ x.retries = retries /\ (retries > 0 => x.retain)
          /\ DOMAIN x = {"with_body", "headers", "deadline", "body", "retry", "retries", "retain"}
      OBVIOUS
    <3> HIDE DEF x
    <3>3. Deadline' = Deadline
      BY <1>1 DEF Deadline
    <3>4. withBody => BodyTells(body)'
      BY <1>1, <2>2, BodyStays
    <3>5. QED
      BY <1>1, <2>2, <3>1, <3>2, <3>3, <3>4 DEF Underway
  <2>3. QED
    BY <1>1, <2>1, <2>2
<1>6. QED
  BY <1>1, <1>2, <1>3, <1>4, <1>5 DEF IInv

LEMMA SendSystemOneKeeps ==
  ASSUME IInv, NEW state \in States, SendSystemOne(state) PROVE IInv'
<1>1. Start(EncodeChecks(state), TRUE, Encode(state)) /\ pc = "calling"
  BY DEF SendSystemOne, Start
<1>2. Failing(SendChecks \o EncodeChecks(state)) = {} => BodyTells(Encode(state))
  BY <1>1, SendPassed, Encoded
<1>3. QED
  BY <1>1, <1>2, StartKeeps

LEMMA SendListKeeps ==
  ASSUME IInv, SendList PROVE IInv'
BY StartKeeps DEF SendList

LEMMA AttemptKeeps ==
  ASSUME IInv, Attempt PROVE IInv'
<1> DEFINE x == [exchange EXCEPT !.retry = @ + 1,
                                 !.body = IF @ # None /\ Takes(exchange) THEN NoBytes ELSE @]
           s == [address |-> client.address, headers |-> HeadersAt(exchange.retry),
                 deadline |-> exchange.deadline, limit |-> client.max_response_bytes,
                 body |-> exchange.body]
<1>1. /\ said \in Seq(Utterances) /\ env \in Environments
      /\ pc = "sending" /\ pc' = "sending" /\ exchange.retry <= exchange.retries
      /\ env' = env /\ request' = request /\ client' = client
      /\ said' = said /\ prepared' = prepared
      /\ exchange' = x /\ sent' = s
  BY DEF IInv, Attempt, HeadersAt
<1>2. Silent("client") /\ Silent("request") /\ said' \in Seq(Utterances)
  BY <1>1, Unsaid
<1>3. Requested' /\ Built'
  BY <1>1, <1>2, RequestedStays, BuiltStays DEF IInv
<1>4. Configured'
  BY <1>1 DEF Configured
<1>5. /\ DOMAIN exchange = {"with_body", "headers", "deadline", "body", "retry", "retries", "retain"}
      /\ exchange.with_body \in BOOLEAN /\ exchange.headers = request.headers
      /\ exchange.deadline = Deadline
      /\ exchange.retry \in Nat /\ exchange.retries \in Nat
      /\ exchange.retries > 0 => exchange.retain
      /\ exchange.with_body /\ (exchange.retry = 0 \/ exchange.retain) => BodyTells(exchange.body)
  BY <1>1 DEF IInv, Underway
<1>6. /\ s.address = client.address /\ s.headers = HeadersAt(exchange.retry)
      /\ s.deadline = exchange.deadline /\ s.limit = client.max_response_bytes
      /\ s.body = exchange.body
  OBVIOUS
<1>7. /\ x.with_body = exchange.with_body /\ x.headers = exchange.headers
      /\ x.deadline = exchange.deadline /\ x.retries = exchange.retries
      /\ x.retain = exchange.retain
      /\ x.retry = exchange.retry + 1 /\ DOMAIN x = DOMAIN exchange
      /\ exchange.retain => x.body = exchange.body
  BY <1>5 DEF Takes
<1> HIDE DEF x, s
<1>8. \A body : BodyTells(body)' = BodyTells(body)
  BY <1>1, BodyStays
<1>9. PICK body : body = exchange.body
  OBVIOUS
<1>10. exchange.with_body => BodyTells(body)
  <2>1. exchange.retry = 0 \/ exchange.retries > 0
    BY <1>1, <1>5
  <2>2. QED
    BY <1>5, <1>9, <2>1, Zenon
<1>11. exchange.with_body => BodyTells(body)'
  BY <1>8, <1>10
<1>12. Deadline' = Deadline
  BY <1>1 DEF Deadline
<1>13. PICK n : n = exchange.retry
  OBVIOUS
<1>14. HeadersAt(n)' = HeadersAt(n)
  BY <1>1, <1>7 DEF HeadersAt, Callers, BaseHeaders, OwnHeaders
<1>15. exchange'.retry - 1 = n /\ exchange'.retry > 0 /\ exchange'.retry \in Nat
  BY <1>1, <1>5, <1>7, <1>13
<1>16. sent'.headers = HeadersAt(n)'
  BY <1>1, <1>6, <1>13, <1>14
<1>17. Underway'
  <2>1. /\ DOMAIN exchange' = {"with_body", "headers", "deadline", "body", "retry", "retries", "retain"}
        /\ exchange'.with_body \in BOOLEAN /\ exchange'.headers = request'.headers
        /\ exchange'.deadline = Deadline'
        /\ exchange'.retry \in Nat /\ exchange'.retries \in Nat
        /\ exchange'.retries > 0 => exchange'.retain
    BY <1>1, <1>5, <1>7, <1>12, <1>15
  <2>2. exchange'.with_body /\ (exchange'.retry = 0 \/ exchange'.retain) => BodyTells(exchange.body)'
    <3>1. PICK b : b = exchange'.body
      OBVIOUS
    <3>2. exchange'.with_body /\ (exchange'.retry = 0 \/ exchange'.retain) => b = body /\ exchange.with_body
      BY <1>1, <1>7, <1>9, <1>15, <3>1
    <3>3. exchange'.with_body /\ (exchange'.retry = 0 \/ exchange'.retain) => BodyTells(b)'
      BY <1>11, <3>2
    <3>4. QED
      BY <3>1, <3>3
  <2>3. /\ pc' = "sending" /\ exchange'.retry > 0
        /\ sent'.address = client'.address /\ sent'.limit = client'.max_response_bytes
        /\ sent'.deadline = exchange'.deadline
    BY <1>1, <1>6, <1>7, <1>15
  <2>4. exchange'.with_body => BodyTells(sent.body)'
    BY <1>1, <1>6, <1>7, <1>9, <1>11
  <2>5. sent'.headers = HeadersAt(exchange.retry - 1)'
    BY <1>15, <1>16
  <2>6. QED
    BY <2>1, <2>2, <2>3, <2>4, <2>5 DEF Underway
<1>18. QED
  BY <1>1, <1>2, <1>3, <1>4, <1>17 DEF IInv

LEMMA FailKeeps ==
  ASSUME IInv, NEW failure, Fail(failure) PROVE IInv'
<1>1. /\ said' = <<>> /\ env \in Environments /\ env' = env /\ pc' = "failed" /\ sent' = None
      /\ request' = NewRequest
  BY DEF IInv, Fail
<1>2. said' \in Seq(Utterances) /\ DOMAIN said' = {}
  BY <1>1
<1>3. \A to, set : Sayings(to, set)' = {}
  BY <1>2 DEF Sayings
<1>4. \A to, set, n : Naming(to, set, n)' = {}
  BY <1>3 DEF Naming
<1>5. DOMAIN <<>> = {} /\ <<>> \in Seq(Values) /\ \A n : At(<<>>, n) = {} /\ ~Has(<<>>, n)
  BY DEF At, Has
<1>6. /\ \A to, set, otherwise : Wanted(to, set, otherwise)' = otherwise
      /\ \A to, set : Mirrors(<<>>, to, set)'
      /\ Extras(<<>>)'
  BY <1>3, <1>4, <1>5 DEF Wanted, Mirrors, Extras, Distinct
<1>7. /\ DOMAIN NewRequest = {"model", "timeout", "headers", "extra", "retry"}
      /\ NewRequest.headers = <<>> /\ NewRequest.extra = <<>>
      /\ NewRequest["model"] = None /\ NewRequest["timeout"] = None /\ NewRequest["retry"] = None
  BY DEF NewRequest
<1>8. \A set \in RequestSetters : NewRequest[set] = None
  BY <1>7 DEF RequestSetters, Collected
<1>9. Requested'
  BY <1>1, <1>6, <1>7, <1>8 DEF Requested
<1>10. Configured' /\ Built' /\ Underway'
  BY <1>1 DEF Configured, Built, Underway
<1>11. QED
  BY <1>1, <1>2, <1>9, <1>10 DEF IInv

LEMMA TellKeeps ==
  ASSUME IInv, Tell PROVE IInv'
<1>1. /\ said \in Seq(Utterances) /\ env \in Environments
      /\ pc = "failed" /\ pc' = "done" /\ sent = None
      /\ sent' = sent /\ env' = env /\ request' = request /\ said' = said
  BY DEF IInv, Underway, Tell
<1>2. Silent("request") /\ said' \in Seq(Utterances)
  BY <1>1, Unsaid
<1>3. Requested'
  BY <1>1, <1>2, RequestedStays DEF IInv
<1>4. Configured' /\ Built' /\ Underway'
  BY <1>1 DEF Configured, Built, Underway
<1>5. QED
  BY <1>1, <1>2, <1>3, <1>4 DEF IInv


LEMMA NextKeeps ==
  ASSUME IInv, [Next]_vars PROVE IInv'
<1>1. ASSUME NEW call \in BuilderCalls, Configure(call) PROVE IInv'
  BY <1>1, ConfigureKeeps
<1>2. ASSUME NEW transport \in {"hyper", "service"}, Build(transport) PROVE IInv'
  BY <1>2, BuildKeeps
<1>3. ASSUME NEW call \in QuestionCalls, Ask(call) PROVE IInv'
  BY <1>3, AskKeeps
<1>4. CASE PrepareQuestions
  BY <1>4, PrepareKeeps
<1>5. ASSUME NEW struct \in Structs, Declare(struct) PROVE IInv'
  BY <1>5, DeclareKeeps
<1>6. ASSUME NEW call \in RequestCalls, SetOption(call) PROVE IInv'
  BY <1>6, SetOptionKeeps
<1>7. ASSUME NEW state \in States, SendSystemOne(state) PROVE IInv'
  BY <1>7, SendSystemOneKeeps
<1>8. CASE SendList
  BY <1>8, SendListKeeps
<1>9. CASE Attempt
  BY <1>9, AttemptKeeps
<1>10. ASSUME NEW failure \in Failures, Fail(failure) PROVE IInv'
  BY <1>10, FailKeeps
<1>11. CASE Tell
  BY <1>11, TellKeeps
<1>12. CASE UNCHANGED vars
  <2>1. /\ pc' = pc /\ env' = env /\ said' = said /\ settings' = settings /\ client' = client
        /\ prepared' = prepared /\ request' = request /\ exchange' = exchange /\ sent' = sent
    BY <1>12 DEF vars
  <2>2. /\ \A to, set : Sayings(to, set)' = Sayings(to, set)
    BY <2>1 DEF Sayings
  <2>3. /\ \A to, set, n : Naming(to, set, n)' = Naming(to, set, n)
        /\ \A to, set, otherwise : Wanted(to, set, otherwise)' = Wanted(to, set, otherwise)
    BY <2>1, <2>2 DEF Naming, Wanted
  <2>4. \A headers, to, set : Mirrors(headers, to, set) => Mirrors(headers, to, set)'
    BY <2>1, <2>3 DEF Mirrors
  <2>5. said \in Seq(Utterances) /\ said' \in Seq(Utterances) /\ Silent("client") /\ Silent("request")
    BY <2>1, Unsaid DEF IInv
  <2>6. Requested'
    BY <2>1, <2>5, RequestedStays DEF IInv
  <2>7. Built'
    <3>1. CASE pc \in {"asking", "calling", "sending"}
      BY <2>1, <2>5, <3>1, BuiltStays DEF IInv
    <3>2. CASE pc \notin {"asking", "calling", "sending"}
      BY <2>1, <3>2 DEF Built
    <3>3. QED
      BY <3>1, <3>2
  <2>8. Configured'
    <3>1. PICK b : b = settings
      OBVIOUS
    <3>2. PICK hs : hs = b.default_headers
      OBVIOUS
    <3>3. settings' = b /\ NewBuilder' = NewBuilder /\ BuilderSetters' = BuilderSetters
      BY <2>1, <3>1 DEF NewBuilder, BuilderSetters, Collected
    <3>4. pc = "building" =>
            /\ DOMAIN b = DOMAIN NewBuilder
            /\ \A set \in BuilderSetters : b[set] = Wanted("client", set, NewBuilder[set])
            /\ Mirrors(hs, "client", "default_headers")
      BY <3>1, <3>2 DEF IInv, Configured
    <3>5. pc = "building" => Mirrors(hs, "client", "default_headers")'
      BY <2>4, <3>4
    <3>6. QED
      BY <2>1, <2>3, <3>2, <3>3, <3>4, <3>5 DEF Configured
  <2>9. Underway'
    <3>1. \A body : BodyTells(body)' = BodyTells(body)
      BY <2>1, BodyStays
    <3>2. PICK x : x = exchange
      OBVIOUS
    <3>3. PICK s : s = sent
      OBVIOUS
    <3>4. exchange' = x /\ sent' = s
      BY <2>1, <3>2, <3>3
    <3>5. PICK n : n = x.retry - 1
      OBVIOUS
    <3>6. HeadersAt(n)' = HeadersAt(n) /\ Deadline' = Deadline
      BY <2>1 DEF HeadersAt, Callers, BaseHeaders, OwnHeaders, Deadline
    <3>7. Underway
      BY DEF IInv
    <3>8. QED
      BY <2>1, <3>1, <3>2, <3>3, <3>4, <3>5, <3>6, <3>7 DEF Underway
  <2>10. QED
    BY <2>1, <2>5, <2>6, <2>7, <2>8, <2>9 DEF IInv
<1>13. QED
  BY <1>1, <1>2, <1>3, <1>4, <1>5, <1>6, <1>7, <1>8, <1>9, <1>10, <1>11, <1>12 DEF Next

LEMMA Invariance == Spec => []IInv
<1>1. Init => IInv
  BY InitIInv
<1>2. IInv /\ [Next]_vars => IInv'
  BY NextKeeps
<1>3. QED
  BY <1>1, <1>2, PTL DEF Spec

-----------------------------------------------------------------------------
(* What the invariant means for a request that is sent. *)

\* A caller's headers are those the SDK does not own, with the values set last.
LEMMA CallersOf ==
  ASSUME NEW headers \in Seq(Values), NEW post
  PROVE  /\ \A n : n \in DOMAIN Callers(headers, post) <=> ~IsSdkOwned(n, post) /\ At(headers, n) # {}
         /\ \A n \in DOMAIN Callers(headers, post) :
              Callers(headers, post)[n] = headers[Max(At(headers, n))].value
<1> DEFINE theirs == {i \in DOMAIN headers : ~IsSdkOwned(headers[i].name, post)}
           c == [n \in {headers[i].name : i \in theirs} |->
                   headers[Max({i \in theirs : headers[i].name = n})].value]
<1>1. Callers(headers, post) = c
  BY DEF Callers
<1>2. \A n : ~IsSdkOwned(n, post) => {i \in theirs : headers[i].name = n} = At(headers, n)
  BY DEF At
<1>3. \A n : n \in DOMAIN c <=> ~IsSdkOwned(n, post) /\ At(headers, n) # {}
  BY DEF At
<1>4. ASSUME NEW n \in DOMAIN c PROVE c[n] = headers[Max(At(headers, n))].value
  <2>1. {i \in theirs : headers[i].name = n} = At(headers, n)
    BY <1>2, <1>3
  <2>2. c[n] = headers[Max({i \in theirs : headers[i].name = n})].value
    BY <1>4
  <2>3. QED
    BY <2>1, <2>2
<1> HIDE DEF c
<1>5. QED
  BY <1>1, <1>3, <1>4

LEMMA IdentityHeld == IInv => IdentityKept
<1> SUFFICES ASSUME IInv, sent # None PROVE IdentityKept
  BY DEF IdentityKept
<1> DEFINE headers == sent.headers
           post == exchange.with_body
           count == exchange.retry - 1
           mark == [n \in (IF count > 0 THEN {RetryCount} ELSE {}) |-> Count(count)]
           theirs == Callers(exchange.headers, post)
           own == OwnHeaders(client, post)
           defaults == Callers(client.default_headers, post)
           base == Over(own, defaults)
           rest == Over(theirs, base)
           product == Wanted("client", "user_agent_product", None)
           key == Wanted("client", "api_key", env.api_key)
           runtime == Wanted("client", "send_runtime_header", TRUE)
           Carries(name, value) == name \in DOMAIN headers /\ headers[name] = value
<1>1. /\ said \in Seq(Utterances) /\ pc = "sending" /\ post \in BOOLEAN
      /\ exchange.retry \in Nat /\ exchange.retry > 0
      /\ exchange.headers = request.headers
      /\ headers = HeadersAt(count)
      /\ Mirrors(request.headers, "request", "headers")
      /\ Mirrors(client.default_headers, "client", "default_headers")
      /\ client.authorization = [key |-> key.text]
      /\ client.user_agent = UserAgent(product)
      /\ client.send_runtime_header = runtime
  BY DEF IInv, Underway, Built, Requested
<1>2. headers = Over(mark, rest) /\ count \in Nat
  BY <1>1 DEF HeadersAt, BaseHeaders
<1>3. /\ DOMAIN headers = DOMAIN mark \cup DOMAIN theirs \cup DOMAIN own \cup DOMAIN defaults
      /\ \A n \in DOMAIN mark : headers[n] = mark[n]
      /\ \A n \in DOMAIN theirs \ DOMAIN mark : headers[n] = theirs[n]
      /\ \A n \in DOMAIN own \ (DOMAIN mark \cup DOMAIN theirs) : headers[n] = own[n]
      /\ \A n \in DOMAIN defaults \ (DOMAIN mark \cup DOMAIN theirs \cup DOMAIN own) :
           headers[n] = defaults[n]
  <2> HIDE DEF headers, mark, theirs, own, defaults, base, rest
  <2>1. /\ DOMAIN base = DOMAIN own \cup DOMAIN defaults
        /\ \A n \in DOMAIN own : base[n] = own[n]
        /\ \A n \in DOMAIN defaults \ DOMAIN own : base[n] = defaults[n]
    BY Overs DEF base
  <2>2. /\ DOMAIN rest = DOMAIN theirs \cup DOMAIN base
        /\ \A n \in DOMAIN theirs : rest[n] = theirs[n]
        /\ \A n \in DOMAIN base \ DOMAIN theirs : rest[n] = base[n]
    BY Overs DEF rest
  <2>3. /\ DOMAIN headers = DOMAIN mark \cup DOMAIN rest
        /\ \A n \in DOMAIN mark : headers[n] = mark[n]
        /\ \A n \in DOMAIN rest \ DOMAIN mark : headers[n] = rest[n]
    <3>1. /\ DOMAIN Over(mark, rest) = DOMAIN mark \cup DOMAIN rest
          /\ \A n \in DOMAIN mark : Over(mark, rest)[n] = mark[n]
          /\ \A n \in DOMAIN rest \ DOMAIN mark : Over(mark, rest)[n] = rest[n]
      BY Overs
    <3>2. QED
      BY <1>2, <3>1
  <2>4. QED
    BY <2>1, <2>2, <2>3
<1>4. /\ DOMAIN mark = IF count > 0 THEN {RetryCount} ELSE {}
      /\ \A n \in DOMAIN mark : mark[n] = Count(count)
  OBVIOUS
<1>5. /\ DOMAIN own = (Protected \ IF client.send_runtime_header THEN {} ELSE {"x-typesafe-runtime"})
                      \cup (IF post THEN {"content-type"} ELSE {})
      /\ "authorization" \in DOMAIN own => own["authorization"] = client.authorization
      /\ "accept" \in DOMAIN own => own["accept"] = Sdk("json")
      /\ "content-type" \in DOMAIN own => own["content-type"] = Sdk("json")
      /\ "user-agent" \in DOMAIN own => own["user-agent"] = client.user_agent
      /\ "x-typesafe-sdk" \in DOMAIN own => own["x-typesafe-sdk"] = Sdk("name")
      /\ "x-typesafe-runtime" \in DOMAIN own => own["x-typesafe-runtime"] = Sdk("runtime")
  BY DEF OwnHeaders
<1>6. /\ \A n : n \in DOMAIN theirs <=> ~IsSdkOwned(n, post) /\ At(request.headers, n) # {}
      /\ \A n \in DOMAIN theirs : theirs[n] = request.headers[Max(At(request.headers, n))].value
      /\ \A n : n \in DOMAIN defaults <=> ~IsSdkOwned(n, post) /\ At(client.default_headers, n) # {}
      /\ \A n \in DOMAIN defaults :
           defaults[n] = client.default_headers[Max(At(client.default_headers, n))].value
  BY <1>1, CallersOf DEF Mirrors
<1>7. /\ \A n \in Protected \cup TransportHeaders : IsSdkOwned(n, post)
      /\ IsSdkOwned(RetryCount, post)
      /\ post => IsSdkOwned("content-type", post)
      /\ \A n \in DOMAIN own : IsSdkOwned(n, post)
  BY <1>5 DEF IsSdkOwned
<1>8. /\ RetryCount \notin Protected /\ RetryCount # "content-type"
      /\ Protected \cap TransportHeaders = {} /\ RetryCount \notin TransportHeaders
      /\ "content-type" \notin TransportHeaders /\ "content-type" \notin Protected
      /\ {"authorization", "accept", "user-agent", "x-typesafe-sdk", "x-typesafe-runtime"} = Protected
      /\ "x-typesafe-runtime" \notin {"authorization", "accept", "user-agent", "x-typesafe-sdk"}
  BY DEF Protected, RetryCount, TransportHeaders
<1> HIDE DEF headers, mark, theirs, own, defaults, base, rest, count, key, product, post, runtime
<1>9. \A n \in DOMAIN own : Carries(n, own[n])
  BY <1>3, <1>4, <1>5, <1>6, <1>7, <1>8
<1>10. /\ Carries("authorization", [key |-> key.text])
       /\ Carries("accept", Sdk("json"))
       /\ Carries("x-typesafe-sdk", Sdk("name"))
       /\ Carries("user-agent", UserAgent(product))
       /\ post => Carries("content-type", Sdk("json"))
  <2>1. {"authorization", "accept", "x-typesafe-sdk", "user-agent"} \subseteq DOMAIN own
    BY <1>5, <1>8
  <2>2. post => "content-type" \in DOMAIN own
    BY <1>5
  <2>3. QED
    BY <1>1, <1>5, <1>9, <2>1, <2>2
<1>11. IF runtime THEN Carries("x-typesafe-runtime", Sdk("runtime"))
                  ELSE "x-typesafe-runtime" \notin DOMAIN headers
  <2>1. CASE runtime
    BY <1>1, <1>5, <1>8, <1>9, <2>1
  <2>2. CASE ~runtime
    <3>1. "x-typesafe-runtime" \notin DOMAIN own /\ "x-typesafe-runtime" \in Protected
      BY <1>1, <1>5, <1>8, <2>2
    <3>2. QED
      BY <1>3, <1>4, <1>6, <1>7, <1>8, <2>2, <3>1
  <2>3. QED
    BY <2>1, <2>2
<1>12. IF count = 0 THEN RetryCount \notin DOMAIN headers ELSE Carries(RetryCount, Count(count))
  <2>1. RetryCount \notin DOMAIN own
    BY <1>5, <1>8
  <2>2. QED
    BY <1>2, <1>3, <1>4, <1>6, <1>7, <2>1
<1>13. DOMAIN headers \cap TransportHeaders = {}
  BY <1>3, <1>4, <1>5, <1>6, <1>7, <1>8
<1>14. ASSUME NEW i \in DOMAIN said, said[i].set \in {"headers", "default_headers"},
              ~IsSdkOwned(said[i].value.name, post)
       PROVE  Carries(said[i].value.name, Wished(said[i].value.name))
  <2> DEFINE name == said[i].value.name
  <2>1. said[i] \in Utterances
    BY <1>1, ElementOfSeq, LenProperties
  <2>2. DOMAIN NewBuilder \cap {"headers"} = {} /\ DOMAIN NewRequest \cap {"default_headers"} = {}
    BY DEF NewBuilder, NewRequest
  <2>3. \/ said[i].set = "headers" /\ said[i].to = "request"
        \/ said[i].set = "default_headers" /\ said[i].to = "client"
    BY <1>14, <2>1, <2>2, Uttered
  <2>4. i \in Naming("request", "headers", name) \/ i \in Naming("client", "default_headers", name)
    BY <2>3 DEF Naming, Sayings
  <2>5. name \notin DOMAIN own /\ name \notin DOMAIN mark
    BY <1>4, <1>7, <1>14
  <2> HIDE DEF name
  <2>6. CASE Naming("request", "headers", name) # {}
    <3>1. At(request.headers, name) # {}
          /\ request.headers[Max(At(request.headers, name))].value
               = said[Max(Naming("request", "headers", name))].value.value
      BY <1>1, <2>6 DEF Mirrors
    <3>2. Carries(name, request.headers[Max(At(request.headers, name))].value)
      BY <1>3, <1>6, <1>14, <2>5, <3>1 DEF name
    <3>3. Wished(name) = said[Max(Naming("request", "headers", name))].value.value
      BY <2>6 DEF Wished
    <3>4. QED
      BY <3>1, <3>2, <3>3 DEF name
  <2>7. CASE Naming("request", "headers", name) = {}
    <3>1. At(request.headers, name) = {} /\ At(client.default_headers, name) # {}
          /\ client.default_headers[Max(At(client.default_headers, name))].value
               = said[Max(Naming("client", "default_headers", name))].value.value
      BY <1>1, <2>4, <2>7 DEF Mirrors
    <3>2. name \notin DOMAIN theirs /\ name \in DOMAIN defaults
      BY <1>6, <1>14, <3>1 DEF name
    <3>3. Carries(name, client.default_headers[Max(At(client.default_headers, name))].value)
      BY <1>3, <1>6, <2>5, <3>2
    <3>4. Wished(name) = said[Max(Naming("client", "default_headers", name))].value.value
      BY <2>7 DEF Wished
    <3>5. QED
      BY <3>1, <3>3, <3>4 DEF name
  <2>8. QED
    BY <2>6, <2>7
<1>15. UserAgent(product) = [product |-> IF product = None THEN None ELSE product.name]
  BY DEF UserAgent
<1>16. QED
  BY <1>10, <1>11, <1>12, <1>13, <1>14, <1>15
     DEF IdentityKept, headers, post, product, key, count, runtime


LEMMA SettingsHeld == IInv => SettingsTell
<1> SUFFICES ASSUME IInv, sent # None PROVE SettingsTell
  BY DEF SettingsTell
<1> DEFINE clientModel == Wanted("client", "default_model", FromEnv(env.default_model))
           model == Wanted("request", "model", clientModel)
           extras == {said[i].value.name : i \in Sayings("request", "extra")}
           LastExtra(n) == said[Max(Naming("request", "extra", n))].value.value
<1>1. /\ said \in Seq(Utterances) /\ pc = "sending"
      /\ exchange.deadline = Deadline /\ sent.deadline = exchange.deadline
      /\ sent.address = client.address /\ sent.limit = client.max_response_bytes
      /\ exchange.with_body => BodyTells(sent.body)
      /\ client.address = Wanted("client", "base_url", env.base_url).text
      /\ client.timeout = Wanted("client", "timeout", DefaultTimeout)
      /\ client.max_response_bytes = Wanted("client", "max_response_bytes", DefaultMaxBytes)
  BY DEF IInv, Underway, Built
<1>2. request.timeout = Wanted("request", "timeout", None)
  <2>1. "timeout" \in RequestSetters
    BY DEF RequestSetters, NewRequest, Collected
  <2>2. QED
    BY <2>1 DEF IInv, Requested
<1>3. Deadline = Wanted("request", "timeout", Wanted("client", "timeout", DefaultTimeout))
  BY <1>1, <1>2, OrWanted DEF Deadline
<1>4. extras = ExtraNames /\ model = ModelWanted
  BY DEF ExtraNames, ModelWanted
<1> HIDE DEF clientModel, model, extras
<1>5. ASSUME exchange.with_body
      PROVE  /\ sent.body.json = "object"
             /\ LET members == sent.body.members IN
                /\ \A i, j \in DOMAIN members : members[i].name = members[j].name => i = j
                /\ \A n \in extras : Has(members, n) /\ LastOf(members, n) = LastExtra(n)
                /\ Has(members, "model")
                /\ "model" \in extras \/ LastOf(members, "model").text = model
                /\ "questions" \in extras \/ LastOf(members, "questions") = prepared.json
  BY <1>1, <1>4, <1>5 DEF BodyTells
<1>6. QED
  BY <1>1, <1>3, <1>5 DEF SettingsTell, extras, model, clientModel

\* Whatever its caller says, and in whatever order, every attempt of a call tells
\* truthfully which SDK sends it, with which key, and which attempt it is, carries
\* no header that is the transport's, and carries each header of the caller with
\* the value that was set last, on the call before the client
\* (transport/mod.rs:210-287).
THEOREM IdentityIsKept == Spec => []IdentityKept
BY Invariance, IdentityHeld, PTL

\* Whatever its caller says, and in whatever order, every attempt of a call, the
\* retries included, is sent where, for how long and with the body that was last
\* asked for: the call's own setting before the client's, the client's before the
\* environment's and the defaults (request.rs:264-384, config.rs:77-166).
THEOREM SettingsAreTold == Spec => []SettingsTell
BY Invariance, SettingsHeld, PTL

-----------------------------------------------------------------------------
(* Lists of sequences in one. *)

\* Two sequences in one, place by place.
LEMMA Concat ==
  ASSUME NEW S, NEW s \in Seq(S), NEW t \in Seq(S)
  PROVE  /\ s \o t \in Seq(S) /\ Len(s) \in Nat /\ Len(t) \in Nat
         /\ Len(s \o t) = Len(s) + Len(t) /\ DOMAIN (s \o t) = 1..(Len(s) + Len(t))
         /\ \A i \in 1..Len(s) : (s \o t)[i] = s[i]
         /\ \A i \in 1..Len(t) : (s \o t)[Len(s) + i] = t[i]
<1> DEFINE u == s \o t
<1>1. /\ Len(s) \in Nat /\ Len(t) \in Nat /\ u \in Seq(S) /\ Len(u) = Len(s) + Len(t)
      /\ \A m \in 1..(Len(s) + Len(t)) : u[m] = IF m <= Len(s) THEN s[m] ELSE t[m - Len(s)]
  BY ConcatProperties, LenProperties
<1>2. DOMAIN u = 1..Len(u)
  BY <1>1, LenProperties
<1> HIDE DEF u
<1>3. ASSUME NEW i \in 1..Len(t) PROVE u[Len(s) + i] = t[i]
  <2>1. Len(s) + i \in 1..(Len(s) + Len(t)) /\ ~(Len(s) + i <= Len(s)) /\ (Len(s) + i) - Len(s) = i
    BY <1>1
  <2>2. QED
    BY <1>1, <2>1
<1>4. QED
  BY <1>1, <1>2, <1>3 DEF u

\* Flattening goes with appending.
LEMMA FlatAppend ==
  ASSUME NEW S, NEW seqs \in Seq(Seq(S)), NEW x \in Seq(S)
  PROVE  Append(seqs, x) \in Seq(Seq(S)) /\ Flat(Append(seqs, x)) = Flat(seqs) \o x
<1> DEFINE m == Len(seqs)
           more == Append(seqs, x)
<1>0. \A a, b, c \in Seq(S) : (a \o b) \o c = a \o (b \o c)
  BY ConcatAssociative
<1>1. /\ more \in Seq(Seq(S)) /\ m \in Nat /\ Len(more) = m + 1 /\ more[m + 1] = x
      /\ \A i \in 1..m : more[i] = seqs[i] /\ seqs[i] \in Seq(S)
  BY AppendProperties, LenProperties, ElementOfSeq
<1> HIDE DEF more
<1>2. PICK f \in [0..m -> Seq(S)] :
        /\ Flat(seqs) = f[m] /\ f[0] = <<>>
        /\ \A n \in 1..m : f[n] = seqs[m + 1 - n] \o f[n - 1]
  BY FlatUnfolds
<1>3. PICK g \in [0..(m + 1) -> Seq(S)] :
        /\ Flat(more) = g[m + 1] /\ g[0] = <<>>
        /\ \A n \in 1..(m + 1) : g[n] = more[m + 2 - n] \o g[n - 1]
  <2>1. PICK g \in [0..Len(more) -> Seq(S)] :
          /\ Flat(more) = g[Len(more)] /\ g[0] = <<>>
          /\ \A n \in 1..Len(more) : g[n] = more[Len(more) + 1 - n] \o g[n - 1]
    BY <1>1, FlatUnfolds
  <2>2. \A n \in 1..(m + 1) : Len(more) + 1 - n = m + 2 - n
    BY <1>1
  <2>3. QED
    BY <1>1, <2>1, <2>2
<1> HIDE DEF m
<1> DEFINE good == {n \in Nat : n <= m => g[n + 1] = f[n] \o x}
<1>4. 0 \in good
  <2>1. 1 \in 1..(m + 1) /\ m + 2 - 1 = m + 1 /\ 1 - 1 = 0 /\ 0 + 1 = 1
    BY <1>1
  <2>2. g[1] = x \o <<>>
    BY <1>1, <1>3, <2>1
  <2>3. g[1] = <<>> \o x
    BY <2>2, ConcatEmptySeq
  <2>4. QED
    BY <1>2, <2>1, <2>3
<1>5. ASSUME NEW n \in Nat, n \in good PROVE n + 1 \in good
  <2>1. SUFFICES ASSUME n + 1 <= m PROVE g[(n + 1) + 1] = f[n + 1] \o x
    OBVIOUS
  <2>2. /\ n + 1 \in 1..m /\ (n + 1) + 1 \in 1..(m + 1) /\ (n + 1) - 1 = n /\ n \in 0..m
        /\ ((n + 1) + 1) - 1 = n + 1 /\ m + 2 - ((n + 1) + 1) = m + 1 - (n + 1)
        /\ m + 1 - (n + 1) \in 1..m
    BY <1>1, <2>1
  <2> DEFINE y == seqs[m + 1 - (n + 1)]
  <2>3. y \in Seq(S) /\ more[m + 1 - (n + 1)] = y /\ f[n] \in Seq(S)
    BY <1>1, <1>2, <2>2
  <2>4. f[n + 1] = y \o f[n] /\ g[(n + 1) + 1] = y \o g[n + 1]
    BY <1>2, <1>3, <2>2, <2>3
  <2>5. g[n + 1] = f[n] \o x
    BY <1>5, <2>2
  <2> HIDE DEF y
  <2>6. (y \o f[n]) \o x = y \o (f[n] \o x)
    <3>1. QED
      BY <1>0, <2>3
  <2>7. QED
    BY <2>4, <2>5, <2>6
<1> HIDE DEF good
<1>6. m \in good
  BY <1>1, <1>4, <1>5, NatSetInduction
<1>7. g[m + 1] = f[m] \o x
  BY <1>1, <1>6 DEF good
<1>8. QED
  BY <1>1, <1>2, <1>3, <1>7 DEF more

\* What is flattened is a sequence, and nothing is flattened to nothing.
LEMMA FlatTyped ==
  ASSUME NEW S, NEW seqs \in Seq(Seq(S))
  PROVE  Flat(seqs) \in Seq(S) /\ Flat(<<>>) = <<>>
<1>1. PICK f \in [0..Len(seqs) -> Seq(S)] : Flat(seqs) = f[Len(seqs)]
  BY FlatUnfolds
<1>2. Flat(seqs) \in Seq(S)
  BY <1>1, LenProperties
<1>3. <<>> \in Seq(Seq(S)) /\ Len(<<>>) = 0
  BY EmptySeq
<1>4. PICK g \in [0..Len(<<>>) -> Seq(S)] : Flat(<<>>) = g[Len(<<>>)] /\ g[0] = <<>>
  BY <1>3, FlatUnfolds
<1>5. QED
  BY <1>2, <1>3, <1>4

\* Flattening goes with joining.
LEMMA FlatConcat ==
  ASSUME NEW S, NEW s \in Seq(Seq(S)), NEW t \in Seq(Seq(S))
  PROVE  s \o t \in Seq(Seq(S)) /\ Flat(s \o t) = Flat(s) \o Flat(t)
<1> DEFINE good == {u \in Seq(Seq(S)) : Flat(s \o u) = Flat(s) \o Flat(u)}
<1>1. <<>> \in good
  <2>1. <<>> \in Seq(Seq(S)) /\ s \o <<>> = s /\ Flat(s) \in Seq(S) /\ Flat(<<>>) = <<>>
    BY ConcatEmptySeq, FlatTyped, EmptySeq
  <2>2. Flat(s) \o <<>> = Flat(s)
    BY <2>1, ConcatEmptySeq
  <2>3. QED
    BY <2>1, <2>2
<1>2. ASSUME NEW u \in Seq(Seq(S)), NEW x \in Seq(S), u \in good PROVE Append(u, x) \in good
  <2>1. s \o Append(u, x) = Append(s \o u, x)
    BY AppendOfConcat
  <2>2. s \o u \in Seq(Seq(S))
    BY ConcatProperties
  <2>3. Flat(Append(s \o u, x)) = Flat(s \o u) \o x
    BY <2>2, FlatAppend
  <2>4. Append(u, x) \in Seq(Seq(S)) /\ Flat(Append(u, x)) = Flat(u) \o x
    BY FlatAppend
  <2>5. Flat(s) \in Seq(S) /\ Flat(u) \in Seq(S) /\ Flat(s \o u) = Flat(s) \o Flat(u)
    BY <1>2, FlatTyped
  <2>6. (Flat(s) \o Flat(u)) \o x = Flat(s) \o (Flat(u) \o x)
    BY <2>5, ConcatAssociative
  <2>7. QED
    BY <2>1, <2>3, <2>4, <2>5, <2>6
<1> HIDE DEF good
<1>3. Seq(Seq(S)) \subseteq good
  BY <1>1, <1>2, ListInduction
<1>4. QED
  BY <1>3, ConcatProperties DEF good

-----------------------------------------------------------------------------
(* The search for credentials: what is found, and where. *)

\* What a search for the forms in a text may find.
Findings(forms, text) == {LongestAt(forms, text, i) : i \in 1..Len(text)}
\* What is found up to a place, from what is found before it.
FindsAt(forms, text, i, before) ==
  IF FormsAt(forms, text, i) = {} \/ \E m \in before : Covers(m, i) THEN before
  ELSE before \cup {LongestAt(forms, text, i)}

\* A function that finds the matches, place by place.
MatchedBy(f, forms, text) ==
  /\ f \in [0..Len(text) -> SUBSET Findings(forms, text)]
  /\ Matches(forms, text) = f[Len(text)] /\ f[0] = {}
  /\ \A i \in 1..Len(text) : f[i] = FindsAt(forms, text, i, f[i - 1])

\* The search goes through a text from the left.
LEMMA MatchesUnfold ==
  ASSUME NEW forms, NEW text, Len(text) \in Nat
  PROVE  \E f : MatchedBy(f, forms, text)
<1> DEFINE length == Len(text)
           S == SUBSET Findings(forms, text)
           step == [p \in Nat \X S |->
                      IF p[1] \in 1..length THEN FindsAt(forms, text, p[1], p[2]) ELSE p[2]]
           Is(f) == f = [i \in 0..length |->
                           IF i = 0 THEN {}
                           ELSE IF FormsAt(forms, text, i) = {} \/ \E m \in f[i - 1] : Covers(m, i)
                             THEN f[i - 1]
                           ELSE f[i - 1] \cup {LongestAt(forms, text, i)}]
           upto == CHOOSE f : Is(f)
<1>1. length \in Nat
  OBVIOUS
<1>2. Matches(forms, text) = upto[length]
  BY DEF Matches
<1>3. {} \in S
  OBVIOUS
<1>4. step \in [(Nat \X S) -> S]
  <2>1. ASSUME NEW i \in 1..length, NEW t \in S PROVE FindsAt(forms, text, i, t) \in S
    BY DEF FindsAt, Findings
  <2> HIDE DEF length, S
  <2>2. \A p \in Nat \X S : p[1] \in Nat /\ p[2] \in S
    OBVIOUS
  <2>3. QED
    BY <2>1, <2>2
<1> HIDE DEF length, S
<1>5. PICK g \in [0..length -> S] : Recursive(g, 0..length, {}, step)
  <2> HIDE DEF step
  <2>1. QED
    BY <1>1, <1>3, <1>4, RecursionUpTo
<1>6. g[0] = {} /\ \A i \in 1..length : g[i] = FindsAt(forms, text, i, g[i - 1])
  <2>1. \A i \in 1..length : i \in (0..length) \ {0} /\ i \in Nat /\ i - 1 \in 0..length
    BY <1>1
  <2>2. \A i \in 1..length : g[i - 1] \in S
    BY <1>5, <2>1
  <2>3. \A i \in 1..length : g[i] = step[<<i, g[i - 1]>>]
    BY <1>5, <2>1, Zenon DEF Recursive
  <2>4. g[0] = {}
    BY <1>5 DEF Recursive
  <2>5. \A i \in 1..length : <<i, g[i - 1]>> \in Nat \X S
    BY <2>1, <2>2
  <2>6. QED
    BY <2>3, <2>4, <2>5
<1>7. Is(g)
  <2>1. \A i \in 0..length : i # 0 => i \in 1..length
    BY <1>1
  <2>2. g = [i \in 0..length |-> g[i]]
    BY <1>5
  <2>3. QED
    BY <1>6, <2>1, <2>2 DEF FindsAt
<1> HIDE DEF step
<1>8. Is(upto)
  <2> HIDE DEF Is
  <2>1. QED
    BY <1>7
<1>9. upto[0] = {} /\ \A i \in 1..length : upto[i] = FindsAt(forms, text, i, upto[i - 1])
  <2> HIDE DEF upto
  <2>1. \A i \in 0..length : upto[i] = IF i = 0 THEN {} ELSE FindsAt(forms, text, i, upto[i - 1])
    BY <1>8 DEF FindsAt
  <2>2. 0 \in 0..length /\ \A i \in 1..length : i \in 0..length /\ i # 0
    BY <1>1
  <2>3. QED
    BY <2>1, <2>2
<1> HIDE DEF upto, Is
<1> DEFINE alike == {i \in Nat : i <= length => upto[i] = g[i]}
<1>10. 0 \in alike
  BY <1>6, <1>9
<1>11. ASSUME NEW i \in Nat, i \in alike PROVE i + 1 \in alike
  <2>1. SUFFICES ASSUME i + 1 <= length PROVE upto[i + 1] = g[i + 1]
    OBVIOUS
  <2>2. i + 1 \in 1..length /\ (i + 1) - 1 = i /\ upto[i] = g[i]
    BY <1>1, <1>11, <2>1
  <2>3. QED
    BY <1>6, <1>9, <2>2
<1> HIDE DEF alike
<1>12. length \in alike
  BY <1>1, <1>10, <1>11, NatSetInduction
<1>13. Matches(forms, text) = g[length]
  BY <1>1, <1>2, <1>12 DEF alike
<1>14. QED
  BY <1>5, <1>6, <1>13 DEF MatchedBy, length, S

\* What is looked for: texts that are not empty.
AreForms(forms) == forms \subseteq Seq(Characters) \ {<<>>}

\* A form at a place, and the longest of those there, lies within the text.
LEMMA OccursWithin ==
  ASSUME NEW form \in Seq(Characters), NEW text \in Seq(Characters), NEW i \in 1..Len(text),
         OccursAt(form, text, i)
  PROVE  /\ Len(form) \in Nat /\ Len(text) \in Nat /\ i + Len(form) <= Len(text) + 1
         /\ \A k \in 1..Len(form) : text[i + k - 1] = form[k]
  BY LenProperties DEF OccursAt

\* The longest form at a place begins there and ends in the text.
LEMMA LongestIs ==
  ASSUME NEW forms, AreForms(forms), NEW text \in Seq(Characters), NEW i \in 1..Len(text),
         FormsAt(forms, text, i) # {}
  PROVE  LET m == LongestAt(forms, text, i) IN
         /\ m.first = i /\ m.last \in i..Len(text)
         /\ \E form \in forms : OccursAt(form, text, i)
<1> DEFINE at == FormsAt(forms, text, i)
           lengths == {Len(form) : form \in at}
<1>1. Len(text) \in Nat /\ i \in Nat
  BY LenProperties
<1>2. ASSUME NEW form \in at
      PROVE  /\ form \in forms /\ OccursAt(form, text, i)
             /\ Len(form) \in 1..Len(text) /\ i + Len(form) <= Len(text) + 1
  <2>1. form \in Seq(Characters) /\ form # <<>> /\ OccursAt(form, text, i) /\ form \in forms
    BY DEF AreForms, FormsAt
  <2>2. Len(form) \in Nat /\ Len(form) # 0 /\ i + Len(form) <= Len(text) + 1
    BY <2>1, OccursWithin, EmptySeq
  <2>3. QED
    BY <1>1, <2>1, <2>2
<1>3. lengths \in SUBSET (0..Len(text)) /\ lengths # {}
  <2>1. \A form \in at : Len(form) \in 0..Len(text)
    BY <1>1, <1>2
  <2>2. QED
    BY <2>1
<1> HIDE DEF at
<1>4. \E m \in lengths : \A k \in lengths : k <= m
  BY <1>1, <1>3, Greatest
<1>5. Max(lengths) \in lengths
  <2>1. \E m \in lengths : \A k \in lengths : m >= k
    BY <1>3, <1>4
  <2> HIDE DEF lengths
  <2>2. QED
    BY <2>1 DEF Max
<1>6. PICK form \in at : Max(lengths) = Len(form)
  BY <1>5
<1>7. LongestAt(forms, text, i) = [first |-> i, last |-> i - 1 + Max(lengths)]
  BY DEF LongestAt, at
<1> HIDE DEF lengths
<1>8. QED
  BY <1>1, <1>2, <1>6, <1>7

\* A match is one of a form, and every place of a form is in a match.
LEMMA MatchesAre ==
  ASSUME NEW forms, AreForms(forms), NEW text \in Seq(Characters)
  PROVE  /\ \A m \in Matches(forms, text) :
              /\ m.first \in 1..Len(text) /\ m.last \in (m.first)..Len(text)
              /\ \E form \in forms : OccursAt(form, text, m.first)
         /\ \A form \in forms, i \in 1..Len(text) :
              OccursAt(form, text, i) => \E m \in Matches(forms, text) : Covers(m, i)
<1> DEFINE length == Len(text)
           Found(m) == /\ m.first \in 1..length /\ m.last \in (m.first)..length
                       /\ \E form \in forms : OccursAt(form, text, m.first)
<1>1. length \in Nat
  BY LenProperties
<1>a. PICK f : MatchedBy(f, forms, text)
  <2>1. Len(text) \in Nat
    BY <1>1
  <2>2. QED
    BY <2>1, MatchesUnfold
<1>2. /\ Matches(forms, text) = f[length] /\ f[0] = {}
      /\ \A i \in 1..length : f[i] = FindsAt(forms, text, i, f[i - 1])
  BY <1>a DEF MatchedBy
<1> DEFINE good == {n \in Nat : n <= length =>
                      /\ \A m \in f[n] : Found(m)
                      /\ \A i \in 1..n : FormsAt(forms, text, i) # {} => \E m \in f[n] : Covers(m, i)}
<1>3. 0 \in good
  BY <1>2
<1>4. ASSUME NEW n \in Nat, n \in good PROVE n + 1 \in good
  <2>1. SUFFICES ASSUME n + 1 <= length
                 PROVE  /\ \A m \in f[n + 1] : Found(m)
                        /\ \A i \in 1..(n + 1) :
                             FormsAt(forms, text, i) # {} => \E m \in f[n + 1] : Covers(m, i)
    OBVIOUS
  <2>2. n + 1 \in 1..length /\ (n + 1) - 1 = n /\ n <= length
    BY <1>1, <2>1
  <2>3. f[n + 1] = FindsAt(forms, text, n + 1, f[n])
    BY <1>2, <2>2
  <2>4. /\ \A m \in f[n] : Found(m)
        /\ \A i \in 1..n : FormsAt(forms, text, i) # {} => \E m \in f[n] : Covers(m, i)
    BY <1>4, <2>2
  <2> HIDE DEF Found, good
  <2>5. \A i \in 1..(n + 1) : i \in 1..n \/ i = n + 1
    BY <1>4
  <2>6. CASE FormsAt(forms, text, n + 1) = {}
    <3>1. f[n + 1] = f[n]
      BY <2>3, <2>6 DEF FindsAt
    <3>2. QED
      BY <2>4, <2>5, <2>6, <3>1
  <2>7. CASE \E m \in f[n] : Covers(m, n + 1)
    <3>1. f[n + 1] = f[n]
      BY <2>3, <2>7 DEF FindsAt
    <3>2. QED
      BY <2>4, <2>5, <2>7, <3>1
  <2>8. CASE FormsAt(forms, text, n + 1) # {} /\ ~\E m \in f[n] : Covers(m, n + 1)
    <3> DEFINE new == LongestAt(forms, text, n + 1)
    <3>1. f[n + 1] = f[n] \cup {new}
      BY <2>3, <2>8 DEF FindsAt
    <3>2. new.first = n + 1 /\ new.last \in (n + 1)..length /\ \E form \in forms : OccursAt(form, text, n + 1)
      BY <2>2, <2>8, LongestIs
    <3> HIDE DEF new
    <3>3. Found(new)
      BY <2>2, <3>2 DEF Found
    <3>4. Covers(new, n + 1)
      BY <1>1, <1>4, <3>2 DEF Covers
    <3>5. QED
      BY <2>4, <2>5, <3>1, <3>3, <3>4
  <2>9. QED
    BY <2>6, <2>7, <2>8
<1> HIDE DEF good
<1>5. length \in good
  BY <1>1, <1>3, <1>4, NatSetInduction
<1>6. /\ \A m \in f[length] : Found(m)
      /\ \A i \in 1..length : FormsAt(forms, text, i) # {} => \E m \in f[length] : Covers(m, i)
  BY <1>1, <1>5 DEF good
<1>7. QED
  BY <1>2, <1>6 DEF FormsAt

-----------------------------------------------------------------------------
(* What is shown of a text in pieces. *)

\* One sequence flattened.
LEMMA FlatOne ==
  ASSUME NEW S, NEW x \in Seq(S)
  PROVE  <<x>> \in Seq(Seq(S)) /\ Flat(<<x>>) = x
<1>1. <<>> \in Seq(Seq(S)) /\ Append(<<>>, x) = <<x>>
  OBVIOUS
<1>2. Append(<<>>, x) \in Seq(Seq(S)) /\ Flat(Append(<<>>, x)) = Flat(<<>>) \o x
  BY <1>1, FlatAppend
<1>3. Flat(<<>>) = <<>> /\ <<>> \o x = x
  BY <1>1, FlatTyped, ConcatEmptySeq
<1>4. QED
  BY <1>1, <1>2, <1>3

\* The first sequences of a list, in one.
First(seqs, n) == Flat(SubSeq(seqs, 1, n))

\* The first sequences grow by one at a time, up to all of them.
LEMMA FirstGrows ==
  ASSUME NEW S, NEW seqs \in Seq(Seq(S))
  PROVE  /\ First(seqs, 0) = <<>> /\ First(seqs, Len(seqs)) = Flat(seqs) /\ Len(seqs) \in Nat
         /\ \A n \in 0..Len(seqs) : SubSeq(seqs, 1, n) \in Seq(Seq(S)) /\ First(seqs, n) \in Seq(S)
         /\ \A n \in 1..Len(seqs) : seqs[n] \in Seq(S) /\ First(seqs, n) = First(seqs, n - 1) \o seqs[n]
<1>1. Len(seqs) \in Nat /\ \A n \in 1..Len(seqs) : seqs[n] \in Seq(S)
  BY LenProperties, ElementOfSeq
<1>2. First(seqs, Len(seqs)) = Flat(seqs)
  BY SubSeqFull DEF First
<1>3. SubSeq(seqs, 1, 0) = <<>>
  BY SubSeqEmpty
<1>4. First(seqs, 0) = <<>>
  BY <1>3, FlatTyped DEF First
<1>5. ASSUME NEW n \in 0..Len(seqs) PROVE SubSeq(seqs, 1, n) \in Seq(Seq(S))
  <2>1. \A i \in 1..n : seqs[i] \in Seq(S)
    BY <1>1
  <2>2. QED
    BY <2>1, SubSeqProperties
<1>6. \A n \in 0..Len(seqs) : First(seqs, n) \in Seq(S)
  BY <1>5, FlatTyped DEF First
<1>7. ASSUME NEW n \in 1..Len(seqs) PROVE First(seqs, n) = First(seqs, n - 1) \o seqs[n]
  <2>1. n - 1 \in Nat /\ (n - 1) + 1 = n /\ n - 1 \in 0..Len(seqs)
    BY <1>1
  <2>2. SubSeq(seqs, 1, n) = Append(SubSeq(seqs, 1, n - 1), seqs[n])
    BY <2>1, SubSeqAppend
  <2>3. Flat(Append(SubSeq(seqs, 1, n - 1), seqs[n])) = Flat(SubSeq(seqs, 1, n - 1)) \o seqs[n]
    BY <1>1, <1>5, <2>1, FlatAppend
  <2>4. QED
    BY <2>2, <2>3 DEF First
<1>8. QED
  BY <1>1, <1>2, <1>4, <1>5, <1>6, <1>7

\* The whole is its first sequences and what comes after them.
LEMMA FirstBegins ==
  ASSUME NEW S, NEW seqs \in Seq(Seq(S)), NEW n \in 0..Len(seqs)
  PROVE  \E rest \in Seq(S) : Flat(seqs) = First(seqs, n) \o rest
<1>1. Len(seqs) \in Nat
  BY LenProperties
<1>2. SubSeq(seqs, 1, n) \in Seq(Seq(S)) /\ SubSeq(seqs, n + 1, Len(seqs)) \in Seq(Seq(S))
  <2>1. \A i \in 1..Len(seqs) : seqs[i] \in Seq(S)
    BY ElementOfSeq
  <2>2. (\A i \in 1..n : seqs[i] \in Seq(S)) /\ \A i \in (n + 1)..Len(seqs) : seqs[i] \in Seq(S)
    BY <1>1, <2>1
  <2>3. n \in Int /\ n + 1 \in Int /\ Len(seqs) \in Int
    BY <1>1
  <2>4. QED
    BY <2>2, <2>3, SubSeqProperties
<1> DEFINE s == SubSeq(seqs, 1, n)
           t == SubSeq(seqs, n + 1, Len(seqs))
<1>3. s \o t = seqs
  <2>1. s \in Seq(Seq(S)) /\ t \in Seq(Seq(S)) /\ Len(s) = n /\ Len(t) = Len(seqs) - n
        /\ \A i \in 1..n : s[i] = seqs[i]
    <3>1. \A i \in 1..Len(seqs) : seqs[i] \in Seq(S)
      BY ElementOfSeq
    <3>2. (\A i \in 1..n : seqs[i] \in Seq(S)) /\ \A i \in (n + 1)..Len(seqs) : seqs[i] \in Seq(S)
      BY <1>1, <3>1
    <3>3. n \in Int /\ n + 1 \in Int /\ Len(seqs) \in Int
      BY <1>1
    <3>4. Len(s) = n /\ \A i \in 1..n : s[i] = seqs[i]
      BY <1>1, <3>2, <3>3, SubSeqProperties
    <3>5. Len(t) = Len(seqs) - n
      BY <1>1, <3>2, <3>3, SubSeqProperties
    <3>6. QED
      BY <1>2, <3>4, <3>5
  <2>2. \A i \in 1..(Len(seqs) - n) : t[i] = seqs[n + i]
    <3>1. \A i \in (n + 1)..Len(seqs) : seqs[i] \in Seq(S)
      <4>1. \A i \in 1..Len(seqs) : seqs[i] \in Seq(S)
        BY ElementOfSeq
      <4>2. QED
        BY <1>1, <4>1
    <3>2. \A i \in 1..(Len(seqs) - (n + 1) + 1) : t[i] = seqs[(n + 1) + i - 1]
      BY <1>1, <3>1, SubSeqProperties
    <3>3. QED
      BY <1>1, <3>2
  <2> HIDE DEF s, t
  <2>3. /\ s \o t \in Seq(Seq(S)) /\ Len(s \o t) = Len(seqs)
        /\ \A i \in 1..n : (s \o t)[i] = s[i]
        /\ \A i \in 1..(Len(seqs) - n) : (s \o t)[n + i] = t[i]
    <3>1. /\ s \o t \in Seq(Seq(S)) /\ Len(s \o t) = Len(s) + Len(t)
          /\ \A i \in 1..Len(s) : (s \o t)[i] = s[i]
          /\ \A i \in 1..Len(t) : (s \o t)[Len(s) + i] = t[i]
      <4>1. s \in Seq(Seq(S)) /\ t \in Seq(Seq(S))
        BY <2>1
      <4>2. QED
        BY <4>1, Concat
    <3>2. n + (Len(seqs) - n) = Len(seqs)
      BY <1>1
    <3>3. QED
      BY <2>1, <3>1, <3>2
  <2>4. ASSUME NEW i \in 1..Len(seqs) PROVE (s \o t)[i] = seqs[i]
    <3>1. CASE i <= n
      BY <2>1, <2>3, <3>1
    <3>2. CASE i > n
      <4>1. i - n \in 1..(Len(seqs) - n) /\ n + (i - n) = i
        BY <1>1, <3>2
      <4>2. QED
        BY <2>2, <2>3, <4>1
    <3>3. i <= n \/ i > n
      BY <1>1
    <3>4. QED
      BY <3>1, <3>2, <3>3
  <2>5. QED
    BY <2>3, <2>4, SeqEqual
<1> HIDE DEF s, t
<1>4. Flat(s \o t) = Flat(s) \o Flat(t) /\ Flat(t) \in Seq(S)
  BY <1>2, FlatConcat, FlatTyped DEF s, t
<1>5. QED
  BY <1>3, <1>4 DEF First, s

-----------------------------------------------------------------------------
(* What is redacted. *)

\* Where a piece ends, the matches that touch it, whether it is part of what the
\* piece before it is, and what is shown of it.
Ends(pieces, i) == Len(First(pieces, i))
Touching(forms, pieces, i) ==
  {m \in Matches(forms, Flat(pieces)) :
     m.first <= Ends(pieces, i) /\ m.last > Ends(pieces, i) - Len(pieces[i])}
Joined(forms, pieces, i) ==
  i > 1 /\ Touching(forms, pieces, i - 1) \cap Touching(forms, pieces, i) # {}
Part(forms, pieces, i) ==
  IF Touching(forms, pieces, i) = {} THEN <<pieces[i]>>
  ELSE IF Joined(forms, pieces, i) THEN <<>> ELSE <<Stars>>
Parts(forms, pieces) == [i \in DOMAIN pieces |-> Part(forms, pieces, i)]

\* Texts in pieces, none of them empty.
InPieces == Seq(Seq(Characters) \ {<<>>})

\* What is shown of a text in pieces, piece by piece.
LEMMA RedactIs ==
  ASSUME NEW forms, NEW pieces \in InPieces
  PROVE  RedactPieces(forms, pieces) = Flat(Parts(forms, pieces))
<1> DEFINE last == [i \in DOMAIN pieces |-> Len(Flat(SubSeq(pieces, 1, i)))]
           touching == [i \in DOMAIN pieces |->
                          {m \in Matches(forms, Flat(pieces)) :
                             m.first <= last[i] /\ m.last > last[i] - Len(pieces[i])}]
           Joins(i) == i > 1 /\ touching[i - 1] \cap touching[i] # {}
           parts == [i \in DOMAIN pieces |->
                       IF touching[i] = {} THEN <<pieces[i]>>
                       ELSE IF Joins(i) THEN <<>> ELSE <<Stars>>]
<1>1. RedactPieces(forms, pieces) = Flat(parts)
  BY DEF RedactPieces
<1>2. DOMAIN pieces = 1..Len(pieces) /\ Len(pieces) \in Nat
  BY LenProperties DEF InPieces
<1>3. ASSUME NEW i \in DOMAIN pieces PROVE touching[i] = Touching(forms, pieces, i)
  BY DEF Touching, Ends, First
<1> HIDE DEF touching
<1>4. ASSUME NEW i \in DOMAIN pieces PROVE Joins(i) <=> Joined(forms, pieces, i)
  <2>1. i > 1 => i - 1 \in DOMAIN pieces
    BY <1>2
  <2>2. QED
    BY <1>3, <2>1 DEF Joined
<1> HIDE DEF Joins
<1>5. parts = Parts(forms, pieces)
  BY <1>3, <1>4 DEF Parts, Part
<1>6. QED
  BY <1>1, <1>5

-----------------------------------------------------------------------------
(* What is redacted hides every form: between stars, it is the text where no *)
(* match is, in which no form begins.                                        *)

\* Every stretch of t without a star stands in the text, where no match covers
\* it; and one at the end of t at the place e.
Clear(found, p) == ~\E m \in found : Covers(m, p)
StandsAt(t, a, b, text, found, p, e) ==
  /\ p + (b - a) <= e
  /\ \A k \in 0..(b - a) : t[a + k] = text[p + k] /\ Clear(found, p + k)
  /\ b = Len(t) => p + (b - a) = e
Stretches(t, text, found, e) ==
  \A a, b \in 1..Len(t) : a <= b /\ (\A k \in a..b : t[k] # "*") =>
    \E p \in 1..e : StandsAt(t, a, b, text, found, p, e)

\* A piece that no match touches keeps its place.
LEMMA StretchKept ==
  ASSUME NEW t \in Seq(Characters), NEW piece \in Seq(Characters) \ {<<>>}, NEW text, NEW found,
         NEW e \in Nat, Stretches(t, text, found, e),
         \A k \in 1..Len(piece) : text[e + k] = piece[k] /\ Clear(found, e + k)
  PROVE  Stretches(t \o piece, text, found, e + Len(piece))
<1> DEFINE u == t \o piece
           n == Len(t)
           l == Len(piece)
<1>1. /\ n \in Nat /\ l \in Nat \ {0} /\ Len(u) = n + l
      /\ \A i \in 1..n : u[i] = t[i]
      /\ \A i \in 1..l : u[n + i] = piece[i]
  <2>1. l # 0
    BY EmptySeq
  <2>2. QED
    BY <2>1, Concat
<1>2. \A k \in 1..l : text[e + k] = piece[k] /\ Clear(found, e + k)
  OBVIOUS
<1> HIDE DEF u, l
<1>3. SUFFICES ASSUME NEW a \in 1..(n + l), NEW b \in 1..(n + l), a <= b,
                      \A k \in a..b : u[k] # "*"
               PROVE  \E p \in 1..(e + l) : StandsAt(u, a, b, text, found, p, e + l)
  BY <1>1 DEF Stretches, u, l
<1>4. CASE b <= n
  <2>1. a \in 1..n /\ b \in 1..n /\ \A k \in a..b : k \in 1..n
    BY <1>1, <1>3, <1>4
  <2>2. \A k \in a..b : t[k] # "*"
    BY <1>1, <1>3, <2>1
  <2>3. PICK p \in 1..e : StandsAt(t, a, b, text, found, p, e)
    BY <1>3, <2>1, <2>2 DEF Stretches
  <2>4. p \in 1..(e + l) /\ p + (b - a) <= e + l /\ b # Len(u)
    BY <1>1, <1>3, <1>4, <2>3 DEF StandsAt
  <2>5. \A k \in 0..(b - a) : u[a + k] = t[a + k]
    BY <1>1, <1>3, <2>1
  <2>6. StandsAt(u, a, b, text, found, p, e + l)
    BY <2>3, <2>4, <2>5 DEF StandsAt
  <2>7. QED
    BY <2>4, <2>6
<1>5. CASE a > n
  <2> DEFINE p == e + (a - n)
  <2>1. p \in 1..(e + l) /\ p + (b - a) <= e + l /\ (b = n + l => p + (b - a) = e + l)
    <3>1. a \in Nat /\ b \in Nat /\ n \in Nat /\ l \in Nat /\ a <= n + l /\ b <= n + l /\ n < a
      BY <1>1, <1>3, <1>5
    <3>2. p + (b - a) = e + (b - n) /\ p >= 1 /\ p <= e + l /\ p \in Int
      BY <3>1
    <3> HIDE DEF p
    <3>3. p \in 1..(e + l)
      BY <3>1, <3>2
    <3>4. p + (b - a) <= e + l
      BY <3>1, <3>2
    <3>5. QED
      BY <3>1, <3>2, <3>3, <3>4
  <2>2. ASSUME NEW k \in 0..(b - a) PROVE u[a + k] = text[p + k] /\ Clear(found, p + k)
    <3> DEFINE i == (a - n) + k
    <3>1. i \in 1..l /\ n + i = a + k /\ p + k = e + i
      BY <1>1, <1>3, <1>5
    <3> HIDE DEF i, p
    <3>2. u[a + k] = piece[i] /\ text[p + k] = piece[i] /\ Clear(found, p + k)
      BY <1>1, <1>2, <3>1
    <3>3. QED
      BY <3>2
  <2> HIDE DEF p
  <2>3. StandsAt(u, a, b, text, found, p, e + l)
    BY <1>1, <2>1, <2>2 DEF StandsAt
  <2>4. QED
    BY <2>1, <2>3
<1>6. CASE a <= n /\ b > n
  <2>1. a \in 1..n /\ n \in 1..n /\ \A k \in a..n : k \in a..b /\ k \in 1..n
    BY <1>1, <1>3, <1>6
  <2>2. \A k \in a..n : t[k] # "*"
    BY <1>1, <1>3, <2>1
  <2>3. PICK p \in 1..e : StandsAt(t, a, n, text, found, p, e)
    BY <1>3, <1>6, <2>1, <2>2 DEF Stretches
  <2>4. /\ p + (n - a) = e
        /\ \A k \in 0..(n - a) : t[a + k] = text[p + k] /\ Clear(found, p + k)
    BY <2>3 DEF StandsAt
  <2>5. p \in 1..(e + l) /\ p + (b - a) <= e + l /\ (b = n + l => p + (b - a) = e + l)
    BY <1>1, <1>3, <1>6, <2>4
  <2>6. ASSUME NEW k \in 0..(b - a) PROVE u[a + k] = text[p + k] /\ Clear(found, p + k)
    <3>1. CASE k <= n - a
      <4>1. k \in 0..(n - a) /\ a + k \in 1..n
        BY <1>1, <2>1, <3>1
      <4>2. QED
        BY <1>1, <2>4, <4>1
    <3>2. CASE k > n - a
      <4> DEFINE i == (a + k) - n
      <4>1. i \in 1..l /\ n + i = a + k /\ p + k = e + i
        <5>1. /\ a \in Nat /\ b \in Nat /\ n \in Nat /\ l \in Nat /\ k \in Nat /\ p \in Nat
              /\ b <= n + l /\ a + k <= b /\ n < a + k /\ p = e - (n - a)
          BY <1>1, <1>3, <2>4, <3>2
        <5>2. QED
          BY <5>1
      <4> HIDE DEF i
      <4>2. u[a + k] = piece[i] /\ text[p + k] = piece[i] /\ Clear(found, p + k)
        BY <1>1, <1>2, <4>1
      <4>3. QED
        BY <4>2
    <3>3. k <= n - a \/ k > n - a
      BY <1>1, <1>3
    <3>4. QED
      BY <3>1, <3>2, <3>3
  <2>7. StandsAt(u, a, b, text, found, p, e + l)
    BY <1>1, <2>5, <2>6 DEF StandsAt
  <2>8. QED
    BY <2>5, <2>7
<1>7. b <= n \/ a > n \/ (a <= n /\ b > n)
  BY <1>1, <1>3
<1>8. QED
  BY <1>4, <1>5, <1>6, <1>7

\* Three stars.
LEMMA StarsAre == Stars \in Seq(Characters) /\ Len(Stars) = 3 /\ \A i \in 1..3 : Stars[i] = "*"
<1>1. Stars \in Seq(Characters)
  <2>1. "*" \in Characters
    BY RedactAssumption
  <2>2. QED
    BY <2>1 DEF Stars
<1>2. Len(Stars) = 3
  BY DEF Stars
<1>3. Stars[1] = "*" /\ Stars[2] = "*" /\ Stars[3] = "*"
  BY DEF Stars
<1>4. \A i \in 1..3 : i = 1 \/ i = 2 \/ i = 3
  OBVIOUS
<1>5. QED
  BY <1>1, <1>2, <1>3, <1>4

\* Stars begin a stretch anew, wherever the text goes on.
LEMMA StretchStarred ==
  ASSUME NEW t \in Seq(Characters), NEW text, NEW found, NEW e \in Nat, NEW l \in Nat,
         Stretches(t, text, found, e)
  PROVE  Stretches(t \o Stars, text, found, e + l)
<1> DEFINE u == t \o Stars
           n == Len(t)
<1>1. Stars \in Seq(Characters) /\ Len(Stars) = 3 /\ \A i \in 1..3 : Stars[i] = "*"
  BY StarsAre
<1>2. /\ n \in Nat /\ Len(u) = n + 3
      /\ \A i \in 1..n : u[i] = t[i]
      /\ \A i \in 1..3 : u[n + i] = "*"
  <2> HIDE DEF n, u
  <2>1. /\ Len(t) \in Nat /\ Len(t \o Stars) = Len(t) + Len(Stars)
        /\ \A i \in 1..Len(t) : (t \o Stars)[i] = t[i]
        /\ \A i \in 1..Len(Stars) : (t \o Stars)[Len(t) + i] = Stars[i]
    <3>1. Stars \in Seq(Characters)
      BY <1>1
    <3>2. QED
      BY <3>1, Concat
  <2>2. QED
    BY <1>1, <2>1 DEF n, u
<1> HIDE DEF u
<1>3. SUFFICES ASSUME NEW a \in 1..(n + 3), NEW b \in 1..(n + 3), a <= b,
                      \A k \in a..b : u[k] # "*"
               PROVE  \E p \in 1..(e + l) : StandsAt(u, a, b, text, found, p, e + l)
  BY <1>2 DEF Stretches, u
<1>4. b <= n
  <2>1. SUFFICES ASSUME b > n PROVE FALSE
    BY <1>2
  <2>2. b - n \in 1..3 /\ n + (b - n) = b /\ b \in a..b
    BY <1>2, <1>3, <2>1
  <2>3. u[b] = "*"
    BY <1>2, <2>2
  <2>4. QED
    BY <1>3, <2>2, <2>3
<1>5. a \in 1..n /\ b \in 1..n /\ \A k \in a..b : k \in 1..n
  BY <1>2, <1>3, <1>4
<1>6. \A k \in a..b : t[k] # "*"
  BY <1>2, <1>3, <1>5
<1>7. PICK p \in 1..e : StandsAt(t, a, b, text, found, p, e)
  BY <1>3, <1>5, <1>6 DEF Stretches
<1>8. p \in 1..(e + l) /\ p + (b - a) <= e + l /\ b # Len(u)
  BY <1>2, <1>3, <1>4, <1>7 DEF StandsAt
<1>9. \A k \in 0..(b - a) : u[a + k] = t[a + k]
  BY <1>2, <1>3, <1>5
<1>10. StandsAt(u, a, b, text, found, p, e + l)
  BY <1>7, <1>8, <1>9 DEF StandsAt
<1>11. QED
  BY <1>8, <1>10

\* A piece that the stars before it stand for adds nothing.
LEMMA StretchJoined ==
  ASSUME NEW t \in Seq(Characters), NEW text, NEW found, NEW e \in Nat, NEW l \in Nat,
         Stretches(t, text, found, e), t[Len(t)] = "*"
  PROVE  Stretches(t, text, found, e + l)
<1>1. SUFFICES ASSUME NEW a \in 1..Len(t), NEW b \in 1..Len(t), a <= b,
                      \A k \in a..b : t[k] # "*"
               PROVE  \E p \in 1..(e + l) : StandsAt(t, a, b, text, found, p, e + l)
  BY DEF Stretches
<1>2. PICK p \in 1..e : StandsAt(t, a, b, text, found, p, e)
  BY <1>1 DEF Stretches
<1>3. b # Len(t)
  BY <1>1
<1>4. p \in 1..(e + l) /\ p + (b - a) <= e + l
  BY <1>1, <1>2 DEF StandsAt
<1>5. StandsAt(t, a, b, text, found, p, e + l)
  BY <1>2, <1>3, <1>4 DEF StandsAt
<1>6. QED
  BY <1>4, <1>5

\* The length of a sequence that is given place by place.
LEMMA LenOf ==
  ASSUME NEW T, NEW n \in Nat, NEW seq \in [1..n -> T]
  PROVE  Len(seq) = n
OBVIOUS

\* A text in pieces is a text.
LEMMA PiecesAre ==
  ASSUME NEW pieces \in InPieces
  PROVE  /\ pieces \in Seq(Seq(Characters)) /\ Flat(pieces) \in Seq(Characters)
         /\ Len(pieces) \in Nat /\ DOMAIN pieces = 1..Len(pieces)
         /\ Len(Flat(pieces)) \in Nat
         /\ Ends(pieces, 0) = 0 /\ Ends(pieces, Len(pieces)) = Len(Flat(pieces))
         /\ \A n \in 0..Len(pieces) : Ends(pieces, n) \in Nat
<1>1. pieces \in Seq(Seq(Characters))
  BY SeqMonotonic DEF InPieces
<1>2. Flat(pieces) \in Seq(Characters) /\ Len(pieces) \in Nat /\ DOMAIN pieces = 1..Len(pieces)
  BY <1>1, FlatTyped, LenProperties
<1>3. /\ First(pieces, 0) = <<>> /\ First(pieces, Len(pieces)) = Flat(pieces)
      /\ \A n \in 0..Len(pieces) : First(pieces, n) \in Seq(Characters)
  BY <1>1, FirstGrows
<1>4. \A n \in 0..Len(pieces) : Len(First(pieces, n)) \in Nat
  BY <1>3, LenProperties
<1>5. Len(First(pieces, 0)) = 0 /\ Len(Flat(pieces)) \in Nat
  BY <1>2, <1>3, EmptySeq, LenProperties
<1>6. QED
  BY <1>1, <1>2, <1>3, <1>4, <1>5 DEF Ends

\* Where a piece stands in the whole.
LEMMA PieceAt ==
  ASSUME NEW pieces \in InPieces, NEW n \in 1..Len(pieces)
  PROVE  /\ pieces[n] \in Seq(Characters) \ {<<>>} /\ Len(pieces[n]) \in Nat \ {0}
         /\ n - 1 \in 0..Len(pieces) /\ n \in 0..Len(pieces)
         /\ Ends(pieces, n) = Ends(pieces, n - 1) + Len(pieces[n])
         /\ Ends(pieces, n) <= Len(Flat(pieces))
         /\ \A k \in 1..Len(pieces[n]) : Flat(pieces)[Ends(pieces, n - 1) + k] = pieces[n][k]
<1> DEFINE s == First(pieces, n - 1)
           t == First(pieces, n)
           piece == pieces[n]
<1>1. /\ pieces \in Seq(Seq(Characters)) /\ Len(pieces) \in Nat
      /\ n - 1 \in 0..Len(pieces) /\ n \in 0..Len(pieces)
  BY PiecesAre
<1>2. piece \in Seq(Characters) \ {<<>>} /\ Len(piece) \in Nat \ {0}
  <2>1. piece \in Seq(Characters) \ {<<>>}
    BY ElementOfSeq DEF InPieces
  <2>2. QED
    BY <2>1, EmptySeq
<1>3. s \in Seq(Characters) /\ t \in Seq(Characters) /\ t = s \o piece
  BY <1>1, FirstGrows
<1>4. PICK rest \in Seq(Characters) : Flat(pieces) = t \o rest
  BY <1>1, FirstBegins
<1> HIDE DEF s, t, piece
<1>5. /\ Len(s) \in Nat /\ Len(t) = Len(s) + Len(piece)
      /\ \A k \in 1..Len(piece) : t[Len(s) + k] = piece[k]
  BY <1>2, <1>3, Concat
<1>6. /\ Len(rest) \in Nat /\ Len(Flat(pieces)) = Len(t) + Len(rest)
      /\ \A k \in 1..Len(t) : Flat(pieces)[k] = t[k]
  BY <1>3, <1>4, Concat
<1>7. ASSUME NEW k \in 1..Len(piece) PROVE Flat(pieces)[Len(s) + k] = piece[k]
  <2>1. Len(s) + k \in 1..Len(t)
    BY <1>2, <1>5
  <2>2. QED
    BY <1>5, <1>6, <2>1
<1>8. Len(t) <= Len(Flat(pieces))
  BY <1>2, <1>5, <1>6
<1>9. QED
  BY <1>1, <1>2, <1>5, <1>7, <1>8 DEF Ends, s, t, piece

\* What is shown of the first pieces.
ShownOf(forms, pieces, n) == Flat(First(Parts(forms, pieces), n))

\* What is shown grows piece by piece: by the piece, by stars, or by nothing.
LEMMA ShownGrows ==
  ASSUME NEW forms, NEW pieces \in InPieces
  PROVE  /\ RedactPieces(forms, pieces) \in Seq(Seq(Characters))
         /\ ShownOf(forms, pieces, 0) = <<>>
         /\ ShownOf(forms, pieces, Len(pieces)) = Flat(RedactPieces(forms, pieces))
         /\ \A n \in 0..Len(pieces) :
              /\ ShownOf(forms, pieces, n) \in Seq(Characters)
              /\ \E rest \in Seq(Characters) :
                   Flat(RedactPieces(forms, pieces)) = ShownOf(forms, pieces, n) \o rest
         /\ \A n \in 1..Len(pieces) :
              LET before == ShownOf(forms, pieces, n - 1)
                  here == Touching(forms, pieces, n)
                  joined == Joined(forms, pieces, n)
              IN /\ here = {} => ShownOf(forms, pieces, n) = before \o pieces[n]
                 /\ here # {} /\ ~joined => ShownOf(forms, pieces, n) = before \o Stars
                 /\ here # {} /\ joined => ShownOf(forms, pieces, n) = before
<1> DEFINE parts == Parts(forms, pieces)
           N == Len(pieces)
<1>1. N \in Nat /\ DOMAIN pieces = 1..N /\ \A n \in 1..N : pieces[n] \in Seq(Characters)
  BY PiecesAre, PieceAt
<1>2. Stars \in Seq(Characters)
  BY StarsAre
<1>3. ASSUME NEW n \in 1..N
      PROVE  /\ Part(forms, pieces, n) \in Seq(Seq(Characters))
             /\ Touching(forms, pieces, n) = {} => Flat(Part(forms, pieces, n)) = pieces[n]
             /\ Touching(forms, pieces, n) # {} /\ ~Joined(forms, pieces, n) =>
                  Flat(Part(forms, pieces, n)) = Stars
             /\ Touching(forms, pieces, n) # {} /\ Joined(forms, pieces, n) =>
                  Flat(Part(forms, pieces, n)) = <<>>
  <2>1. <<pieces[n]>> \in Seq(Seq(Characters)) /\ Flat(<<pieces[n]>>) = pieces[n]
    BY <1>1, FlatOne
  <2>2. <<Stars>> \in Seq(Seq(Characters)) /\ Flat(<<Stars>>) = Stars
    BY <1>2, FlatOne
  <2>3. <<>> \in Seq(Seq(Characters)) /\ Flat(<<>>) = <<>>
    BY FlatTyped, EmptySeq
  <2>4. QED
    BY <2>1, <2>2, <2>3 DEF Part
<1>4. parts \in Seq(Seq(Seq(Characters))) /\ Len(parts) = N /\ \A n \in 1..N : parts[n] = Part(forms, pieces, n)
  <2>1. parts \in [1..N -> Seq(Seq(Characters))]
    BY <1>1, <1>3 DEF Parts
  <2>2. parts \in Seq(Seq(Seq(Characters)))
    BY <1>1, <2>1, Sequences
  <2>3. Len(parts) = N
    BY <1>1, <2>1, LenOf
  <2>4. QED
    BY <1>1, <2>2, <2>3 DEF Parts
<1>5. RedactPieces(forms, pieces) = Flat(parts)
  BY RedactIs
<1> HIDE DEF parts
<1>6. /\ First(parts, 0) = <<>> /\ First(parts, N) = Flat(parts)
      /\ \A n \in 0..N : First(parts, n) \in Seq(Seq(Characters))
      /\ \A n \in 1..N : First(parts, n) = First(parts, n - 1) \o parts[n]
  BY <1>4, FirstGrows
<1>7. Flat(parts) \in Seq(Seq(Characters))
  BY <1>4, FlatTyped
<1>8. ASSUME NEW n \in 0..N PROVE Flat(First(parts, n)) \in Seq(Characters)
  BY <1>6, FlatTyped
<1>9. ASSUME NEW n \in 1..N
      PROVE  /\ Flat(First(parts, n)) = Flat(First(parts, n - 1)) \o Flat(parts[n])
             /\ Flat(First(parts, n - 1)) \in Seq(Characters)
  <2>1. n - 1 \in 0..N /\ First(parts, n - 1) \in Seq(Seq(Characters)) /\ parts[n] \in Seq(Seq(Characters))
    BY <1>1, <1>3, <1>4, <1>6
  <2>2. Flat(First(parts, n - 1) \o parts[n]) = Flat(First(parts, n - 1)) \o Flat(parts[n])
    BY <2>1, FlatConcat
  <2>3. QED
    BY <1>6, <1>8, <2>1, <2>2
<1>10. ASSUME NEW n \in 1..N, Flat(parts[n]) = <<>>
       PROVE  Flat(First(parts, n)) = Flat(First(parts, n - 1))
  BY <1>9, <1>10, ConcatEmptySeq
<1>11. Flat(First(parts, 0)) = <<>>
  <2>1. <<>> \in Seq(Seq(Characters))
    BY EmptySeq
  <2>2. QED
    BY <1>6, <2>1, FlatTyped
<1>12. ASSUME NEW n \in 0..N
       PROVE  \E rest \in Seq(Characters) : Flat(Flat(parts)) = Flat(First(parts, n)) \o rest
  <2>1. PICK more \in Seq(Seq(Characters)) : Flat(parts) = First(parts, n) \o more
    BY <1>4, FirstBegins
  <2>2. Flat(First(parts, n) \o more) = Flat(First(parts, n)) \o Flat(more) /\ Flat(more) \in Seq(Characters)
    BY <1>6, FlatConcat, FlatTyped
  <2>3. QED
    BY <2>1, <2>2
<1>13. QED
  BY <1>3, <1>4, <1>5, <1>6, <1>7, <1>8, <1>9, <1>10, <1>11, <1>12 DEF ShownOf, parts

\* What ends in stars ends in a star.
LEMMA StarredEnds ==
  ASSUME NEW t \in Seq(Characters)
  PROVE  /\ t \o Stars \in Seq(Characters) /\ Len(t \o Stars) = Len(t) + 3 /\ Len(t) \in Nat
         /\ (t \o Stars)[Len(t) + 1] = "*" /\ (t \o Stars)[Len(t \o Stars)] = "*"
<1>1. Stars \in Seq(Characters) /\ Len(Stars) = 3 /\ Stars[1] = "*" /\ Stars[3] = "*"
  BY StarsAre
<1>2. /\ t \o Stars \in Seq(Characters) /\ Len(t) \in Nat
      /\ Len(t \o Stars) = Len(t) + Len(Stars)
      /\ \A i \in 1..Len(Stars) : (t \o Stars)[Len(t) + i] = Stars[i]
  <2>1. Stars \in Seq(Characters)
    BY <1>1
  <2>2. QED
    BY <2>1, Concat
<1>3. QED
  BY <1>1, <1>2

\* What is shown of the first pieces stands where it stood, but for stars.
LEMMA Walked ==
  ASSUME NEW forms, AreForms(forms), NEW pieces \in InPieces
  PROVE  Stretches(Flat(RedactPieces(forms, pieces)), Flat(pieces), Matches(forms, Flat(pieces)),
                   Len(Flat(pieces)))
<1> DEFINE T == Flat(pieces)
           M == Matches(forms, T)
           N == Len(pieces)
           E(n) == Ends(pieces, n)
           Shown(n) == ShownOf(forms, pieces, n)
           Here(n) == Touching(forms, pieces, n)
           good == {n \in Nat : n <= N =>
                      /\ Stretches(Shown(n), T, M, E(n))
                      /\ n > 0 /\ Here(n) # {} => Shown(n)[Len(Shown(n))] = "*"}
<1>1. N \in Nat /\ E(0) = 0 /\ E(N) = Len(T) /\ \A n \in 0..N : E(n) \in Nat
  BY PiecesAre
<1>2. /\ Shown(0) = <<>> /\ Shown(N) = Flat(RedactPieces(forms, pieces))
      /\ \A n \in 0..N : Shown(n) \in Seq(Characters)
  BY ShownGrows
<1>3. ASSUME NEW n \in 1..N
      PROVE  /\ Here(n) = {} => Shown(n) = Shown(n - 1) \o pieces[n]
             /\ Here(n) # {} /\ ~Joined(forms, pieces, n) => Shown(n) = Shown(n - 1) \o Stars
             /\ Here(n) # {} /\ Joined(forms, pieces, n) => Shown(n) = Shown(n - 1)
  BY ShownGrows
<1>4. ASSUME NEW n \in 1..N
      PROVE  /\ pieces[n] \in Seq(Characters) \ {<<>>} /\ Len(pieces[n]) \in Nat \ {0}
             /\ n - 1 \in 0..N /\ E(n) = E(n - 1) + Len(pieces[n])
             /\ \A k \in 1..Len(pieces[n]) : T[E(n - 1) + k] = pieces[n][k]
  BY PieceAt
<1>5. \A n : /\ Here(n) = {m \in M : m.first <= E(n) /\ m.last > E(n) - Len(pieces[n])}
             /\ Joined(forms, pieces, n) => n > 1 /\ Here(n - 1) # {}
  BY DEF Touching, Joined
<1>a. \A x \in M : x.first \in Nat /\ x.last \in Nat
  <2>1. T \in Seq(Characters) /\ Len(T) \in Nat
    BY PiecesAre
  <2> HIDE DEF T
  <2>2. \A x \in M : x.first \in 1..Len(T) /\ x.last \in (x.first)..Len(T)
    BY <2>1, MatchesAre
  <2>3. QED
    BY <2>1, <2>2
<1> HIDE DEF T, M, N, E, Shown, Here
<1>6. 0 \in good
  <2>1. Len(Shown(0)) = 0
    BY <1>2, EmptySeq
  <2>2. QED
    BY <2>1 DEF Stretches
<1>7. ASSUME NEW m \in Nat, m \in good PROVE m + 1 \in good
  <2> DEFINE n == m + 1
             piece == pieces[n]
  <2>1. SUFFICES ASSUME n <= N
                 PROVE  /\ Stretches(Shown(n), T, M, E(n))
                        /\ Here(n) # {} => Shown(n)[Len(Shown(n))] = "*"
    OBVIOUS
  <2>2. n \in 1..N /\ n - 1 = m /\ m \in 0..N /\ m <= N
    BY <1>1, <2>1
  <2>3. /\ Stretches(Shown(m), T, M, E(m)) /\ Shown(m) \in Seq(Characters) /\ E(m) \in Nat
        /\ m > 0 /\ Here(m) # {} => Shown(m)[Len(Shown(m))] = "*"
    BY <1>1, <1>2, <1>7, <2>2
  <2>4. /\ piece \in Seq(Characters) \ {<<>>} /\ Len(piece) \in Nat \ {0} /\ E(n) = E(m) + Len(piece)
        /\ \A k \in 1..Len(piece) : T[E(m) + k] = piece[k]
    BY <1>4, <2>2
  <2>5. CASE Here(n) = {}
    <3>1. Shown(n) = Shown(m) \o piece
      BY <1>3, <2>2, <2>5
    <3>2. ASSUME NEW k \in 1..Len(piece) PROVE Clear(M, E(m) + k)
      <4>1. SUFFICES ASSUME NEW x \in M, Covers(x, E(m) + k) PROVE FALSE
        BY DEF Clear
      <4>2. x.first <= E(m) + k /\ E(m) + k <= x.last
        BY <4>1 DEF Covers
      <4>3. x.first <= E(n) /\ x.last > E(n) - Len(piece)
        <5>1. QED
          BY <1>a, <2>3, <2>4, <4>1, <4>2
      <4>4. QED
        BY <1>5, <2>5, <4>1, <4>3
    <3>3. \A k \in 1..Len(piece) : T[E(m) + k] = piece[k] /\ Clear(M, E(m) + k)
      BY <2>4, <3>2
    <3> HIDE DEF n, piece
    <3>4. Stretches(Shown(m) \o piece, T, M, E(m) + Len(piece))
      BY <2>3, <2>4, <3>3, StretchKept
    <3>5. QED
      BY <2>4, <2>5, <3>1, <3>4
  <2>6. CASE Here(n) # {} /\ ~Joined(forms, pieces, n)
    <3>1. Shown(n) = Shown(m) \o Stars
      BY <1>3, <2>2, <2>6
    <3> HIDE DEF n, piece
    <3>2. Stretches(Shown(m) \o Stars, T, M, E(m) + Len(piece))
      BY <2>3, <2>4, StretchStarred
    <3>3. (Shown(m) \o Stars)[Len(Shown(m) \o Stars)] = "*"
      BY <2>3, StarredEnds
    <3>4. QED
      BY <2>4, <3>1, <3>2, <3>3
  <2>7. CASE Here(n) # {} /\ Joined(forms, pieces, n)
    <3>1. Shown(n) = Shown(m)
      BY <1>3, <2>2, <2>7
    <3>2. m > 0 /\ Here(m) # {}
      BY <1>5, <2>2, <2>7
    <3> HIDE DEF n, piece
    <3>3. Shown(m)[Len(Shown(m))] = "*"
      BY <2>3, <3>2
    <3>4. Stretches(Shown(m), T, M, E(m) + Len(piece))
      BY <2>3, <2>4, <3>3, StretchJoined
    <3>5. QED
      BY <2>4, <3>1, <3>3, <3>4
  <2>8. QED
    BY <2>5, <2>6, <2>7
<1> HIDE DEF good
<1>8. N \in good
  BY <1>1, <1>6, <1>7, NatSetInduction
<1>9. Stretches(Shown(N), T, M, E(N))
  BY <1>1, <1>8 DEF good
<1>10. QED
  BY <1>1, <1>2, <1>9 DEF T, M

\* What is looked for, of characters that neither the SDK puts into a message
\* nor HTTP allows in a header.
Written == Seq(Characters \ {"*", "...", "withheld", "newline"}) \ {<<>>}

\* A written text is not empty and has no mark in it.
LEMMA WrittenAre ==
  ASSUME NEW form \in Written
  PROVE  /\ form \in Seq(Characters) \ {<<>>} /\ Len(form) \in Nat \ {0} /\ DOMAIN form = 1..Len(form)
         /\ \A k \in 1..Len(form) : form[k] \in Characters \ {"*", "...", "withheld", "newline"}
<1> DEFINE S == Characters \ {"*", "...", "withheld", "newline"}
<1>1. form \in Seq(S) /\ form # <<>>
  BY DEF Written
<1>2. S \subseteq Characters
  OBVIOUS
<1> HIDE DEF S
<1>3. form \in Seq(Characters)
  BY <1>1, <1>2, SeqMonotonic
<1>4. Len(form) \in Nat \ {0} /\ DOMAIN form = 1..Len(form) /\ \A k \in 1..Len(form) : form[k] \in S
  BY <1>1, EmptySeq, LenProperties, ElementOfSeq
<1>5. QED
  BY <1>1, <1>3, <1>4 DEF S

\* What is written can be looked for.
LEMMA WrittenForms == ASSUME NEW forms, forms \subseteq Written PROVE AreForms(forms)
BY WrittenAre DEF AreForms

\* No form of a secret is in what is redacted.
LEMMA RedactedHides ==
  ASSUME NEW forms, forms \subseteq Written, NEW pieces \in InPieces
  PROVE  ~OccurIn(forms, Flat(RedactPieces(forms, pieces)))
<1> DEFINE T == Flat(pieces)
           u == Flat(RedactPieces(forms, pieces))
           M == Matches(forms, T)
<1>1. T \in Seq(Characters) /\ Len(T) \in Nat /\ DOMAIN T = 1..Len(T)
  BY PiecesAre, LenProperties
<1>2. AreForms(forms)
  BY WrittenForms
<1>3. Stretches(u, T, M, Len(T))
  BY <1>2, Walked
<1>4. u \in Seq(Characters) /\ Len(u) \in Nat /\ DOMAIN u = 1..Len(u)
  <2>1. RedactPieces(forms, pieces) \in Seq(Seq(Characters))
    BY ShownGrows
  <2>2. QED
    BY <2>1, FlatTyped, LenProperties
<1> HIDE DEF T, u
<1>5. \A form \in forms, i \in 1..Len(T) : OccursAt(form, T, i) => \E m \in M : Covers(m, i)
  BY <1>1, <1>2, MatchesAre
<1> HIDE DEF M
<1>6. ASSUME NEW form \in forms, NEW i \in 1..Len(u), OccursAt(form, u, i) PROVE FALSE
  <2> DEFINE l == Len(form)
             b == i + l - 1
  <2>1. form \in Seq(Characters) /\ l \in Nat \ {0} /\ DOMAIN form = 1..l /\ \A k \in 1..l : form[k] # "*"
    BY WrittenAre
  <2>2. i + l <= Len(u) + 1 /\ \A k \in 1..l : u[i + k - 1] = form[k]
    BY <1>6, <2>1 DEF OccursAt
  <2>3. b \in 1..Len(u) /\ i <= b /\ b - i = l - 1
    BY <1>4, <2>1, <2>2
  <2>4. \A k \in i..b : u[k] # "*"
    <3>1. ASSUME NEW k \in i..b PROVE u[k] # "*"
      <4>1. (k - i) + 1 \in 1..l /\ i + ((k - i) + 1) - 1 = k
        BY <2>1, <2>3
      <4>2. QED
        BY <2>1, <2>2, <4>1
    <3>2. QED
      BY <3>1
  <2> HIDE DEF b
  <2>5. PICK p \in 1..Len(T) : StandsAt(u, i, b, T, M, p, Len(T))
    BY <1>3, <2>3, <2>4 DEF Stretches
  <2>6. p + (l - 1) <= Len(T) /\ \A k \in 0..(l - 1) : u[i + k] = T[p + k] /\ Clear(M, p + k)
    BY <2>3, <2>5 DEF StandsAt
  <2>7. OccursAt(form, T, p)
    <3>1. ASSUME NEW k \in 1..l PROVE T[p + k - 1] = form[k]
      <4>1. k - 1 \in 0..(l - 1) /\ i + (k - 1) = i + k - 1 /\ p + (k - 1) = p + k - 1
        BY <2>1, <1>4
      <4>2. QED
        BY <2>2, <2>6, <4>1
    <3>2. p + l <= Len(T) + 1
      BY <1>1, <2>1, <2>6
    <3>3. QED
      BY <2>1, <3>1, <3>2 DEF OccursAt
  <2>8. Clear(M, p)
    <3>1. 0 \in 0..(l - 1) /\ p + 0 = p
      BY <2>1
    <3>2. QED
      BY <2>6, <3>1
  <2>9. QED
    BY <1>5, <2>7, <2>8 DEF Clear
<1>7. QED
  BY <1>4, <1>6 DEF OccurIn, u

-----------------------------------------------------------------------------
(* What is redacted begins as the text does, up to the first secret. *)

\* Pieces end one after another.
LEMMA EndsGrow ==
  ASSUME NEW pieces \in InPieces, NEW i \in 0..Len(pieces), NEW j \in i..Len(pieces)
  PROVE  Ends(pieces, i) <= Ends(pieces, j)
<1> DEFINE E(n) == Ends(pieces, n)
           N == Len(pieces)
           good == {n \in Nat : i + n <= N => E(i) <= E(i + n)}
<1>1. N \in Nat /\ \A n \in 0..N : E(n) \in Nat
  BY PiecesAre
<1>2. \A n \in 1..N : Len(pieces[n]) \in Nat /\ E(n) = E(n - 1) + Len(pieces[n])
  BY PieceAt
<1> HIDE DEF E, N
<1>3. 0 \in good
  BY <1>1 DEF N
<1>4. ASSUME NEW n \in Nat, n \in good PROVE n + 1 \in good
  <2>1. SUFFICES ASSUME i + (n + 1) <= N PROVE E(i) <= E(i + (n + 1))
    OBVIOUS
  <2> DEFINE k == i + (n + 1)
  <2>2. i \in Nat /\ k \in 1..N /\ k - 1 = i + n /\ i + n \in 0..N /\ i \in 0..N /\ i + n <= N
    BY <1>1, <2>1 DEF N
  <2> HIDE DEF k
  <2>3. E(k) = E(k - 1) + Len(pieces[k]) /\ Len(pieces[k]) \in Nat
    BY <1>2, <2>2
  <2>4. E(i) <= E(i + n) /\ E(i) \in Nat /\ E(i + n) \in Nat
    BY <1>1, <1>4, <2>2
  <2>5. QED
    BY <2>2, <2>3, <2>4 DEF k
<1> HIDE DEF good
<1>5. j - i \in Nat /\ i + (j - i) = j /\ j <= N
  BY <1>1 DEF N
<1>6. j - i \in good
  BY <1>3, <1>4, <1>5, NatSetInduction
<1>7. QED
  BY <1>5, <1>6 DEF good, E

\* Every place of a text is in a piece, which a match that covers the place touches.
LEMMA Touched ==
  ASSUME NEW forms, AreForms(forms), NEW pieces \in InPieces, NEW p \in 1..Len(Flat(pieces)),
         NEW m \in Matches(forms, Flat(pieces)), Covers(m, p)
  PROVE  \E i \in 1..Len(pieces) : Ends(pieces, i - 1) < p /\ m \in Touching(forms, pieces, i)
<1> DEFINE E(n) == Ends(pieces, n)
           N == Len(pieces)
           T == Flat(pieces)
           reached == {n \in 0..N : p <= E(n)}
<1>1. /\ N \in Nat /\ \A n \in 0..N : E(n) \in Nat
      /\ E(0) = 0 /\ E(N) = Len(T) /\ T \in Seq(Characters) /\ Len(T) \in Nat
  BY PiecesAre
<1>2. \A n \in 1..N : Len(pieces[n]) \in Nat /\ E(n) = E(n - 1) + Len(pieces[n])
  BY PieceAt
<1>3. m.first \in 1..Len(T) /\ m.last \in (m.first)..Len(T)
  BY <1>1, MatchesAre
<1>4. m.first <= p /\ p <= m.last
  BY DEF Covers
<1> HIDE DEF E, N, T
<1>5. p \in 1..Len(T)
  BY DEF T
<1>6. reached \in SUBSET Nat /\ N \in reached /\ 0 \notin reached
  BY <1>1, <1>5
<1>7. PICK i \in reached : \A k \in reached : i <= k
  <2> HIDE DEF reached
  <2>1. QED
    BY <1>6, Least
<1>8. i \in 1..N /\ i - 1 \in 0..N /\ i - 1 \notin reached
  BY <1>1, <1>6, <1>7
<1>9. E(i - 1) < p /\ p <= E(i)
  BY <1>1, <1>5, <1>7, <1>8
<1>10. m.first <= E(i) /\ m.last > E(i) - Len(pieces[i])
  <2>1. m.first \in Nat /\ m.last \in Nat /\ E(i) - Len(pieces[i]) = E(i - 1) /\ E(i) \in Nat /\ E(i - 1) \in Nat
    BY <1>1, <1>2, <1>3, <1>8, SMTT(60)
  <2>2. QED
    BY <1>4, <1>5, <1>9, <2>1
<1>11. m \in Touching(forms, pieces, i)
  BY <1>10 DEF Touching, E
<1>12. QED
  BY <1>8, <1>9, <1>11 DEF E, N

\* Pieces that no match touches are shown as they are.
LEMMA Untouched ==
  ASSUME NEW forms, NEW pieces \in InPieces, NEW n \in 0..Len(pieces),
         \A k \in 1..n : Touching(forms, pieces, k) = {}
  PROVE  ShownOf(forms, pieces, n) = First(pieces, n)
<1> DEFINE N == Len(pieces)
           good == {k \in Nat : k <= n => ShownOf(forms, pieces, k) = First(pieces, k)}
<1>1. N \in Nat /\ pieces \in Seq(Seq(Characters))
  BY PiecesAre
<1>2. /\ First(pieces, 0) = <<>>
      /\ \A k \in 1..N : First(pieces, k) = First(pieces, k - 1) \o pieces[k]
  BY <1>1, FirstGrows
<1>3. ShownOf(forms, pieces, 0) = <<>>
  BY ShownGrows
<1>4. ASSUME NEW k \in 1..N, Touching(forms, pieces, k) = {}
      PROVE  ShownOf(forms, pieces, k) = ShownOf(forms, pieces, k - 1) \o pieces[k]
  BY <1>4, ShownGrows
<1> HIDE DEF N
<1>5. 0 \in good
  BY <1>2, <1>3
<1>6. ASSUME NEW k \in Nat, k \in good PROVE k + 1 \in good
  <2>1. SUFFICES ASSUME k + 1 <= n PROVE ShownOf(forms, pieces, k + 1) = First(pieces, k + 1)
    OBVIOUS
  <2>2. k + 1 \in 1..N /\ k + 1 \in 1..n /\ (k + 1) - 1 = k /\ k <= n
    BY <1>1, <2>1 DEF N
  <2>3. QED
    BY <1>2, <1>4, <1>6, <2>2
<1> HIDE DEF good
<1>7. n \in good
  BY <1>5, <1>6, NatSetInduction
<1>8. QED
  BY <1>7 DEF good

\* What is redacted begins as the text does, up to the first secret.
Begins(u, T, forms, s) ==
  /\ s <= Len(u) /\ u[s] = "*" /\ T[s] # "*"
  /\ \A p \in 1..(s - 1) : u[p] = T[p]
  /\ \A p \in 1..(s - 1), form \in forms : ~OccursAt(form, T, p)

\* What is redacted is the text, which spells no form, or begins as the text
\* does, up to a star before which no form begins.
LEMMA RedactBegins ==
  ASSUME NEW forms, forms \subseteq Written, NEW pieces \in InPieces,
         \A i \in 1..Len(pieces) : Len(pieces[i]) > 1 => pieces[i][1] # "*"
  PROVE  LET u == Flat(RedactPieces(forms, pieces))
             T == Flat(pieces)
         IN \/ u = T /\ ~OccurIn(forms, T)
            \/ \E s \in 1..Len(T) : Begins(u, T, forms, s)
<1> DEFINE T == Flat(pieces)
           u == Flat(RedactPieces(forms, pieces))
           M == Matches(forms, T)
           N == Len(pieces)
           E(n) == Ends(pieces, n)
           Here(n) == Touching(forms, pieces, n)
           Shown(n) == ShownOf(forms, pieces, n)
           touched == {n \in 1..N : Here(n) # {}}
<1>1. /\ N \in Nat /\ \A n \in 0..N : E(n) \in Nat
      /\ E(0) = 0 /\ E(N) = Len(T) /\ T \in Seq(Characters) /\ Len(T) \in Nat
      /\ pieces \in Seq(Seq(Characters)) /\ DOMAIN T = 1..Len(T)
  BY PiecesAre, LenProperties
<1>2. AreForms(forms)
  BY WrittenForms
<1>3. /\ Shown(N) = u
      /\ \A n \in 0..N : Shown(n) \in Seq(Characters) /\ \E rest \in Seq(Characters) : u = Shown(n) \o rest
  BY ShownGrows
<1>4. /\ First(pieces, N) = T
      /\ \A n \in 0..N : First(pieces, n) \in Seq(Characters) /\ \E rest \in Seq(Characters) : T = First(pieces, n) \o rest
  BY <1>1, FirstGrows, FirstBegins
<1>5. \A m \in M : /\ m.first \in 1..Len(T) /\ m.last \in (m.first)..Len(T)
                   /\ \E form \in forms : OccursAt(form, T, m.first)
  BY <1>1, <1>2, MatchesAre
<1>6. \A form \in forms, p \in 1..Len(T) : OccursAt(form, T, p) => \E m \in M : Covers(m, p)
  BY <1>1, <1>2, MatchesAre
<1>7. ASSUME NEW m \in M, NEW p \in 1..Len(T), Covers(m, p)
      PROVE  \E i \in 1..N : E(i - 1) < p /\ Here(i) # {}
  BY <1>2, <1>7, Touched
<1>8. \A n : Here(n) = {m \in M : m.first <= E(n) /\ m.last > E(n) - Len(pieces[n])}
  BY DEF Touching
<1>9. ASSUME NEW n \in 0..N, \A k \in 1..n : Here(k) = {} PROVE Shown(n) = First(pieces, n)
  BY <1>9, Untouched
<1>10. ASSUME NEW i \in 1..N
       PROVE  /\ i - 1 \in 0..N /\ E(i) = E(i - 1) + Len(pieces[i]) /\ Len(pieces[i]) \in Nat \ {0}
              /\ E(i) <= Len(T) /\ \A k \in 1..Len(pieces[i]) : T[E(i - 1) + k] = pieces[i][k]
  BY PieceAt
<1>11. \A n : E(n) = Len(First(pieces, n))
  BY DEF Ends
<1>12. ASSUME NEW i \in 0..N, NEW j \in i..N PROVE E(i) <= E(j)
  BY EndsGrow
<1>13. ASSUME NEW i \in 1..N, Here(i) # {}, i > 1 => Here(i - 1) = {}
       PROVE  Shown(i) = Shown(i - 1) \o Stars
  <2>1. ~Joined(forms, pieces, i)
    BY <1>13 DEF Joined
  <2>2. QED
    BY <1>13, <2>1, ShownGrows
<1> HIDE DEF u, T, M, N, E, Here, Shown
<1>14. CASE touched = {}
  <2>1. u = T
    <3>1. N \in 0..N /\ \A k \in 1..N : Here(k) = {}
      BY <1>1, <1>14, SMTT(60)
    <3>2. QED
      BY <1>3, <1>4, <1>9, <3>1
  <2>2. ASSUME NEW form \in forms, NEW p \in 1..Len(T), OccursAt(form, T, p) PROVE FALSE
    <3>1. PICK m \in M : Covers(m, p)
      BY <1>6, <2>2
    <3>2. PICK i \in 1..N : Here(i) # {}
      BY <1>7, <3>1
    <3>3. QED
      BY <1>14, <3>2
  <2>3. ~OccurIn(forms, T)
    BY <1>1, <2>2 DEF OccurIn
  <2>4. QED
    BY <2>1, <2>3 DEF u, T
<1>15. CASE touched # {}
  <2>1. PICK i \in touched : \A k \in touched : i <= k
    <3>1. touched \in SUBSET Nat
      BY <1>1
    <3> HIDE DEF touched
    <3>2. QED
      BY <1>15, <3>1, Least
  <2>2. i \in 1..N /\ Here(i) # {} /\ i - 1 \in 0..N /\ \A k \in 1..(i - 1) : Here(k) = {}
    <3>1. i \in 1..N /\ Here(i) # {} /\ i - 1 \in 0..N
      BY <1>1, <2>1
    <3>2. ASSUME NEW k \in 1..(i - 1) PROVE Here(k) = {}
      <4>1. k \in 1..N /\ ~(i <= k)
        BY <1>1, <3>1
      <4>2. QED
        BY <2>1, <4>1
    <3>3. QED
      BY <3>1, <3>2
  <2> DEFINE f == First(pieces, i - 1)
             s == E(i - 1) + 1
             piece == pieces[i]
  <2>3. /\ E(i - 1) \in Nat /\ E(i) = E(i - 1) + Len(piece) /\ Len(piece) \in Nat \ {0}
        /\ E(i) <= Len(T) /\ \A k \in 1..Len(piece) : T[E(i - 1) + k] = piece[k]
    BY <1>1, <1>10, <2>2
  <2>4. f \in Seq(Characters) /\ Len(f) = E(i - 1) /\ Shown(i) = f \o Stars
    <3>1. Shown(i - 1) = f
      BY <1>9, <2>2
    <3>2. i > 1 => Here(i - 1) = {}
      BY <2>2
    <3>3. Shown(i) = Shown(i - 1) \o Stars
      BY <1>13, <2>2, <3>2
    <3>4. QED
      BY <1>4, <1>11, <2>2, <3>1, <3>3
  <2>5. PICK rest \in Seq(Characters) : T = f \o rest
    BY <1>4, <2>2
  <2>6. PICK tail \in Seq(Characters) : u = (f \o Stars) \o tail
    <3>1. i \in 0..N
      BY <1>1, <2>2
    <3>2. \E tail \in Seq(Characters) : u = Shown(i) \o tail
      BY <1>3, <3>1
    <3> HIDE DEF f
    <3>3. QED
      BY <2>4, <3>2
  <2> HIDE DEF f
  <2>7. f \o Stars \in Seq(Characters) /\ Len(f \o Stars) = s + 2 /\ (f \o Stars)[s] = "*"
    <3>1. /\ f \o Stars \in Seq(Characters) /\ Len(f \o Stars) = Len(f) + 3
          /\ (f \o Stars)[Len(f) + 1] = "*"
      BY <2>4, StarredEnds
    <3>2. QED
      BY <2>3, <2>4, <3>1
  <2>8. /\ Len(u) = Len(f \o Stars) + Len(tail) /\ Len(tail) \in Nat
        /\ \A k \in 1..Len(f \o Stars) : u[k] = (f \o Stars)[k]
    BY <2>6, <2>7, Concat
  <2>9. s \in 1..Len(T) /\ s <= Len(u) /\ u[s] = "*" /\ s \in Nat
    <3>1. s \in Nat /\ s \in 1..Len(T)
      <4>1. E(i - 1) \in Nat /\ E(i - 1) + 1 <= E(i) /\ E(i) <= Len(T) /\ Len(T) \in Nat
        <5>1. PICK l \in Nat \ {0} : E(i) = E(i - 1) + l
          BY <2>3
        <5>2. QED
          BY <1>1, <2>3, <5>1
      <4>2. E(i) \in Nat
        BY <1>1, <2>2
      <4>3. QED
        BY <4>1, <4>2
    <3> HIDE DEF s
    <3>2. s \in 1..Len(f \o Stars) /\ s <= Len(u)
      BY <2>7, <2>8, <3>1
    <3>3. QED
      BY <2>7, <2>8, <3>1, <3>2
  <2>10. ASSUME NEW p \in 1..(s - 1) PROVE u[p] = T[p]
    <3>1. p \in 1..Len(f) /\ p \in 1..Len(f \o Stars)
      BY <2>3, <2>4, <2>7
    <3>2. T[p] = f[p]
      BY <2>4, <2>5, <3>1, Concat
    <3>3. (f \o Stars)[p] = f[p]
      <4>1. Stars \in Seq(Characters)
        BY StarsAre
      <4>2. QED
        BY <2>4, <3>1, <4>1, Concat
    <3>4. QED
      BY <2>8, <3>1, <3>2, <3>3
  <2>11. ASSUME NEW m \in M, NEW p \in 1..Len(T), Covers(m, p) PROVE s <= p
    <3>1. PICK j \in 1..N : E(j - 1) < p /\ Here(j) # {}
      BY <1>7, <2>11
    <3>2. i <= j
      BY <2>1, <3>1
    <3>3. i - 1 \in 0..N /\ j - 1 \in (i - 1)..N /\ j - 1 \in 0..N
      BY <1>1, <2>2, <3>1, <3>2
    <3>4. E(i - 1) <= E(j - 1) /\ E(j - 1) \in Nat
      BY <1>1, <1>12, <3>3
    <3>5. QED
      BY <2>3, <3>1, <3>4
  <2>12. ASSUME NEW p \in 1..(s - 1), NEW form \in forms, OccursAt(form, T, p) PROVE FALSE
    <3>1. p \in 1..Len(T) /\ ~(s <= p)
      BY <1>1, <2>9
    <3>2. PICK m \in M : Covers(m, p)
      BY <1>6, <2>12, <3>1
    <3>3. QED
      BY <2>11, <3>1, <3>2
  <2>13. T[s] = piece[1]
    BY <2>3
  <2>14. T[s] # "*"
    <3>1. CASE Len(piece) > 1
      <4>1. piece[1] # "*"
        BY <2>2, <3>1 DEF N
      <4>2. QED
        BY <2>13, <4>1
    <3>2. CASE Len(piece) = 1
      <4>1. PICK m \in M : m.first <= E(i) /\ m.last > E(i) - Len(piece)
        BY <1>8, <2>2
      <4>2. PICK form \in forms : OccursAt(form, T, m.first)
        BY <1>5, <4>1
      <4>3. m.first \in 1..Len(T) /\ m.last \in (m.first)..Len(T)
        BY <1>5, <4>1
      <4>4. Covers(m, m.first)
        BY <4>3 DEF Covers
      <4>5. s <= m.first
        BY <2>11, <4>3, <4>4
      <4>6. m.first = s
        BY <2>3, <3>2, <4>1, <4>3, <4>5
      <4>7. Len(form) \in Nat \ {0} /\ DOMAIN form = 1..Len(form) /\ \A k \in 1..Len(form) : form[k] # "*"
        BY WrittenAre
      <4>8. 1 \in 1..Len(form) /\ s + 1 - 1 = s
        BY <2>9, <4>7
      <4>9. T[s] = form[1]
        BY <4>2, <4>6, <4>7, <4>8 DEF OccursAt
      <4>10. QED
        BY <4>7, <4>8, <4>9
    <3>3. Len(piece) > 1 \/ Len(piece) = 1
      <4>1. PICK l \in Nat \ {0} : Len(piece) = l
        BY <2>3
      <4>2. l > 1 \/ l = 1
        OBVIOUS
      <4>3. QED
        BY <4>1, <4>2
    <3>4. QED
      BY <3>1, <3>2, <3>3
  <2>15. Begins(u, T, forms, s)
    BY <2>9, <2>10, <2>12, <2>14 DEF Begins
  <2>16. QED
    BY <2>9, <2>15 DEF u, T
<1>16. QED
  BY <1>14, <1>15

-----------------------------------------------------------------------------
(* Escapes. *)

\* What is escaped and what escapes are made of.
Escapable == DOMAIN Escape
Signs == {"backslash", "t", "n", "quote", "apostrophe"}
\* The piece that a character becomes.
PieceOf(c, escaped) == IF c \in escaped THEN Escape[c] ELSE <<c>>
PiecedBy(pieces, text, escaped) == \A i \in 1..Len(text) : pieces[i] = PieceOf(text[i], escaped)

\* What can be escaped, and what is escaped in each place.
LEMMA EscapeIs ==
  /\ Escapable = {"tab", "newline", "backslash", "quote", "apostrophe"}
  /\ ByDebug \subseteq Escapable /\ ByChar \subseteq Escapable /\ ByHeader \subseteq Escapable
  /\ ByMessage \subseteq Escapable /\ {} \subseteq Escapable
BY DEF Escapable, Escape, ByDebug, ByChar, ByHeader, ByMessage

\* An escape is a backslash and one more character.
LEMMA EscapeOf ==
  ASSUME NEW S, Signs \subseteq S, NEW c \in Escapable
  PROVE  Escape[c] \in Seq(S) /\ Len(Escape[c]) = 2 /\ Escape[c][1] = "backslash"
<1>1. c \in {"tab", "newline", "backslash", "quote", "apostrophe"}
  BY EscapeIs
<1>2. \A x, y \in S : <<x, y>> \in Seq(S) /\ Len(<<x, y>>) = 2 /\ <<x, y>>[1] = x
  OBVIOUS
<1>3. \E y \in S : Escape[c] = <<"backslash", y>>
  BY <1>1 DEF Escape, Signs
<1>4. "backslash" \in S
  BY DEF Signs
<1>5. QED
  BY <1>2, <1>3, <1>4

\* A character is one piece, the character or its escape.
LEMMA PieceOfIs ==
  ASSUME NEW S, Signs \subseteq S, NEW c \in S, NEW e \in SUBSET Escapable
  PROVE  /\ PieceOf(c, e) \in Seq(S) /\ PieceOf(c, e) # <<>> /\ Len(PieceOf(c, e)) \in Nat \ {0}
         /\ c \in e => PieceOf(c, e)[1] = "backslash"
         /\ c \notin e => PieceOf(c, e) = <<c>> /\ PieceOf(c, e)[1] = c /\ Len(PieceOf(c, e)) = 1
<1>1. CASE c \in e
  <2>1. Escape[c] \in Seq(S) /\ Len(Escape[c]) = 2 /\ Escape[c][1] = "backslash"
    BY <1>1, EscapeOf
  <2>2. Escape[c] # <<>>
    BY <2>1, EmptySeq
  <2>3. QED
    BY <1>1, <2>1, <2>2 DEF PieceOf
<1>2. CASE c \notin e
  <2>1. <<c>> \in Seq(S) /\ <<c>> # <<>> /\ Len(<<c>>) = 1 /\ <<c>>[1] = c
    OBVIOUS
  <2>2. QED
    BY <1>2, <2>1 DEF PieceOf
<1>3. QED
  BY <1>1, <1>2

\* A text is as many pieces as it has characters, and no piece is empty.
LEMMA PiecesOf ==
  ASSUME NEW S, Signs \subseteq S, NEW text \in Seq(S), NEW e \in SUBSET Escapable
  PROVE  /\ Pieces(text, e) \in Seq(Seq(S) \ {<<>>}) /\ Pieces(text, e) \in Seq(Seq(S))
         /\ Len(Pieces(text, e)) = Len(text) /\ Len(text) \in Nat
         /\ \A i \in 1..Len(text) : text[i] \in S
         /\ PiecedBy(Pieces(text, e), text, e)
         /\ Escaped(text, e) \in Seq(S) /\ Escaped(text, e) = Flat(Pieces(text, e))
<1> DEFINE pieces == Pieces(text, e)
           n == Len(text)
<1>1. n \in Nat /\ DOMAIN text = 1..n /\ \A i \in 1..n : text[i] \in S
  BY LenProperties, ElementOfSeq
<1>2. pieces = [i \in 1..n |-> PieceOf(text[i], e)]
  BY <1>1 DEF Pieces, PieceOf
<1>3. \A i \in 1..n : PieceOf(text[i], e) \in Seq(S) \ {<<>>}
  BY <1>1, PieceOfIs
<1> HIDE DEF pieces, n
<1>4. pieces \in [1..n -> Seq(S) \ {<<>>}] /\ \A i \in 1..n : pieces[i] = PieceOf(text[i], e)
  BY <1>2, <1>3
<1>5. pieces \in Seq(Seq(S) \ {<<>>}) /\ Len(pieces) = n
  BY <1>1, <1>4, Sequences, LenOf
<1>6. pieces \in Seq(Seq(S))
  BY <1>5, SeqMonotonic
<1>7. Flat(pieces) \in Seq(S)
  BY <1>6, FlatTyped
<1>8. QED
  BY <1>1, <1>4, <1>5, <1>6, <1>7 DEF Escaped, PiecedBy, pieces, n

\* Nothing is escaped to nothing.
LEMMA EscapedNothing ==
  ASSUME NEW e
  PROVE  Escaped(<<>>, e) = <<>> /\ Pieces(<<>>, e) = <<>>
<1>1. Pieces(<<>>, e) = <<>>
  BY DEF Pieces
<1>2. <<>> \in Seq(Seq({}))
  OBVIOUS
<1>3. Flat(<<>>) = <<>>
  BY <1>2, FlatTyped
<1>4. QED
  BY <1>1, <1>3 DEF Escaped

\* A text is escaped character by character.
LEMMA EscapedAppend ==
  ASSUME NEW S, Signs \subseteq S, NEW text \in Seq(S), NEW c \in S, NEW e \in SUBSET Escapable
  PROVE  /\ Append(text, c) \in Seq(S)
         /\ Pieces(Append(text, c), e) = Append(Pieces(text, e), PieceOf(c, e))
         /\ Escaped(Append(text, c), e) = Escaped(text, e) \o PieceOf(c, e)
<1> DEFINE n == Len(text)
           more == Append(text, c)
           piece == PieceOf(c, e)
<1>1. more \in Seq(S) /\ n \in Nat /\ Len(more) = n + 1 /\ more[n + 1] = c /\ \A i \in 1..n : more[i] = text[i]
  BY AppendProperties, LenProperties
<1>2. piece \in Seq(S)
  BY PieceOfIs
<1>3. /\ Pieces(text, e) \in Seq(Seq(S)) /\ Len(Pieces(text, e)) = n
      /\ \A i \in 1..n : Pieces(text, e)[i] = PieceOf(text[i], e)
  <2>1. /\ Pieces(text, e) \in Seq(Seq(S)) /\ Len(Pieces(text, e)) = Len(text)
        /\ PiecedBy(Pieces(text, e), text, e)
    BY PiecesOf
  <2>2. QED
    BY <2>1 DEF PiecedBy
<1> HIDE DEF more, n
<1>4. /\ Pieces(more, e) \in Seq(Seq(S)) /\ Len(Pieces(more, e)) = n + 1
      /\ \A i \in 1..(n + 1) : Pieces(more, e)[i] = PieceOf(more[i], e)
  <2>1. /\ Pieces(more, e) \in Seq(Seq(S)) /\ Len(Pieces(more, e)) = Len(more)
        /\ PiecedBy(Pieces(more, e), more, e)
    BY <1>1, PiecesOf
  <2>2. QED
    BY <1>1, <2>1 DEF PiecedBy
<1> HIDE DEF piece
<1> DEFINE both == Append(Pieces(text, e), piece)
<1>5. /\ both \in Seq(Seq(S)) /\ Len(both) = n + 1 /\ both[n + 1] = piece
      /\ \A i \in 1..n : both[i] = Pieces(text, e)[i]
  BY <1>2, <1>3, AppendProperties
<1>6. Flat(both) = Flat(Pieces(text, e)) \o piece
  BY <1>2, <1>3, FlatAppend
<1> HIDE DEF both
<1>7. Pieces(more, e) = both
  <2>1. ASSUME NEW i \in 1..(n + 1) PROVE Pieces(more, e)[i] = both[i]
    <3>1. i \in 1..n \/ i = n + 1
      BY <1>1
    <3>2. QED
      BY <1>1, <1>3, <1>4, <1>5, <3>1 DEF piece
  <2>2. QED
    BY <1>4, <1>5, <2>1, SeqEqual
<1>8. QED
  BY <1>1, <1>6, <1>7 DEF Escaped, both, piece, more

\* Escaping goes with joining.
LEMMA EscapedConcat ==
  ASSUME NEW S, Signs \subseteq S, NEW s \in Seq(S), NEW t \in Seq(S), NEW e \in SUBSET Escapable
  PROVE  s \o t \in Seq(S) /\ Escaped(s \o t, e) = Escaped(s, e) \o Escaped(t, e)
<1> DEFINE good == {u \in Seq(S) : Escaped(s \o u, e) = Escaped(s, e) \o Escaped(u, e)}
<1>0. Escaped(s, e) \in Seq(S) /\ \A u \in Seq(S) : Escaped(u, e) \in Seq(S)
  BY PiecesOf
<1>a. \A a, b, c \in Seq(S) : (a \o b) \o c = a \o (b \o c)
  BY ConcatAssociative
<1>1. <<>> \in good
  <2>1. s \o <<>> = s /\ <<>> \in Seq(S) /\ Escaped(<<>>, e) = <<>>
    BY ConcatEmptySeq, EscapedNothing, EmptySeq
  <2>2. Escaped(s, e) \o <<>> = Escaped(s, e)
    BY <1>0, ConcatEmptySeq
  <2>3. QED
    BY <2>1, <2>2
<1>2. ASSUME NEW u \in Seq(S), NEW x \in S, u \in good PROVE Append(u, x) \in good
  <2>1. s \o Append(u, x) = Append(s \o u, x) /\ s \o u \in Seq(S)
    BY AppendOfConcat, ConcatProperties
  <2>2. Escaped(Append(s \o u, x), e) = Escaped(s \o u, e) \o PieceOf(x, e)
    BY <2>1, EscapedAppend
  <2>3. Append(u, x) \in Seq(S) /\ Escaped(Append(u, x), e) = Escaped(u, e) \o PieceOf(x, e)
    BY EscapedAppend
  <2>4. PieceOf(x, e) \in Seq(S)
    BY PieceOfIs
  <2>5. (Escaped(s, e) \o Escaped(u, e)) \o PieceOf(x, e) = Escaped(s, e) \o (Escaped(u, e) \o PieceOf(x, e))
    <3>1. Escaped(s, e) \in Seq(S) /\ Escaped(u, e) \in Seq(S)
      BY <1>0
    <3>2. QED
      BY <1>a, <2>4, <3>1, SMTT(60)
  <2>6. QED
    BY <1>2, <2>1, <2>2, <2>3, <2>5
<1> HIDE DEF good
<1>3. Seq(S) \subseteq good
  BY <1>1, <1>2, ListInduction
<1>4. QED
  BY <1>3, ConcatProperties DEF good

\* Nothing is escaped when nothing is to be.
LEMMA EscapedNot ==
  ASSUME NEW S, Signs \subseteq S, NEW text \in Seq(S)
  PROVE  Escaped(text, {}) = text
<1> DEFINE good == {t \in Seq(S) : Escaped(t, {}) = t}
<1>1. <<>> \in good
  BY EscapedNothing, EmptySeq
<1>2. ASSUME NEW t \in Seq(S), NEW x \in S, t \in good PROVE Append(t, x) \in good
  <2>1. Escaped(Append(t, x), {}) = Escaped(t, {}) \o PieceOf(x, {}) /\ Append(t, x) \in Seq(S)
    BY EscapedAppend
  <2>2. PieceOf(x, {}) = <<x>>
    BY DEF PieceOf
  <2>3. t \o <<x>> = Append(t, x)
    BY AppendIsConcat
  <2>4. QED
    BY <1>2, <2>1, <2>2, <2>3
<1> HIDE DEF good
<1>3. Seq(S) \subseteq good
  BY <1>1, <1>2, ListInduction
<1>4. QED
  BY <1>3 DEF good

\* What is escaped begins with what the text begins with, or with a backslash.
LEMMA EscapedBegins ==
  ASSUME NEW S, Signs \subseteq S, NEW text \in Seq(S), text # <<>>, NEW e \in SUBSET Escapable
  PROVE  /\ Escaped(text, e) # <<>> /\ Escaped(text, e) \in Seq(S)
         /\ Escaped(text, e)[1] \in {text[1], "backslash"}
<1>0. text[1] \in S /\ Len(text) \in Nat \ {0}
  BY EmptySeq, ElementOfSeq
<1> DEFINE piece == PieceOf(text[1], e)
           head == <<text[1]>>
           rest == SubSeq(text, 2, Len(text))
<1>1. /\ piece \in Seq(S) /\ Len(piece) \in Nat \ {0} /\ piece[1] \in {text[1], "backslash"}
  <2>1. /\ piece \in Seq(S) /\ Len(piece) \in Nat \ {0}
        /\ text[1] \in e => piece[1] = "backslash"
        /\ text[1] \notin e => piece[1] = text[1]
    BY <1>0, PieceOfIs
  <2>2. QED
    BY <2>1
<1>2. head \in Seq(S) /\ rest \in Seq(S) /\ text = head \o rest
  <2>1. \A i \in 2..Len(text) : text[i] \in S
    BY <1>0, ElementOfSeq
  <2>2. rest \in Seq(S)
    BY <1>0, <2>1, SubSeqProperties
  <2>3. 1 \in 1..Len(text) /\ Len(text) \in 1..Len(text) /\ SubSeq(text, 1, Len(text)) = text /\ 1 + 1 = 2
    BY <1>0, SubSeqFull
  <2>4. SubSeq(text, 1, Len(text)) = <<text[1]>> \o SubSeq(text, 1 + 1, Len(text))
    BY <2>3, SubSeqRecursiveFirst
  <2>5. head \in Seq(S)
    BY <1>0
  <2>6. QED
    BY <2>2, <2>3, <2>4, <2>5
<1>3. Escaped(head, e) = piece
  <2>1. Append(<<>>, text[1]) = head /\ <<>> \in Seq(S)
    OBVIOUS
  <2>2. Escaped(Append(<<>>, text[1]), e) = Escaped(<<>>, e) \o PieceOf(text[1], e)
    BY <1>0, <2>1, EscapedAppend
  <2>3. Escaped(<<>>, e) = <<>> /\ <<>> \o piece = piece
    BY <1>1, EscapedNothing, ConcatEmptySeq
  <2>4. QED
    BY <2>1, <2>2, <2>3
<1> HIDE DEF head, rest, piece
<1>4. Escaped(text, e) = piece \o Escaped(rest, e) /\ Escaped(rest, e) \in Seq(S)
  <2>1. Escaped(head \o rest, e) = Escaped(head, e) \o Escaped(rest, e)
    BY <1>2, EscapedConcat
  <2>2. QED
    BY <1>2, <1>3, <2>1, PiecesOf
<1>5. /\ piece \o Escaped(rest, e) \in Seq(S)
      /\ Len(piece \o Escaped(rest, e)) = Len(piece) + Len(Escaped(rest, e))
      /\ \A i \in 1..Len(piece) : (piece \o Escaped(rest, e))[i] = piece[i]
      /\ Len(Escaped(rest, e)) \in Nat
  BY <1>1, <1>4, Concat
<1>6. 1 \in 1..Len(piece) /\ Len(Escaped(text, e)) # 0
  BY <1>1, <1>4, <1>5
<1>7. QED
  BY <1>1, <1>4, <1>5, <1>6, EmptySeq

-----------------------------------------------------------------------------
(* Texts, and parts of texts. *)

\* What escapes are made of are characters, and no marks of the SDK.
LEMMA SignsAre ==
  Signs \subseteq Characters /\ Signs \subseteq Characters \ {"*", "...", "withheld", "newline"}
BY RedactAssumption DEF Signs

\* A text that is searched, and what is left of it.
LEMMA RedactedText ==
  ASSUME NEW forms, forms \subseteq Written, NEW text \in Seq(Characters)
  PROVE  LET u == RedactText(forms, text) IN
         /\ u \in Seq(Characters) /\ ~OccurIn(forms, u)
         /\ \/ u = text /\ ~OccurIn(forms, text)
            \/ \E s \in 1..Len(text) : Begins(u, text, forms, s)
<1> DEFINE pieces == Pieces(text, {})
           u == RedactText(forms, text)
<1>1. {} \in SUBSET Escapable /\ Signs \subseteq Characters
  BY SignsAre
<1>2. /\ pieces \in Seq(Seq(Characters) \ {<<>>}) /\ Len(pieces) = Len(text) /\ Len(text) \in Nat
      /\ PiecedBy(pieces, text, {}) /\ Escaped(text, {}) = Flat(pieces)
  BY <1>1, PiecesOf
<1>3. Flat(pieces) = text
  BY <1>1, <1>2, EscapedNot
<1>4. pieces \in InPieces
  BY <1>2 DEF InPieces
<1>5. u = Flat(RedactPieces(forms, pieces))
  BY DEF RedactText
<1>6. ASSUME NEW i \in 1..Len(pieces) PROVE Len(pieces[i]) = 1
  <2>1. pieces[i] = PieceOf(text[i], {})
    BY <1>2 DEF PiecedBy
  <2>2. PieceOf(text[i], {}) = <<text[i]>>
    BY DEF PieceOf
  <2>3. QED
    BY <2>1, <2>2
<1> HIDE DEF pieces, u
<1>7. \A i \in 1..Len(pieces) : Len(pieces[i]) > 1 => pieces[i][1] # "*"
  <2>1. ~(1 > 1)
    OBVIOUS
  <2>2. QED
    BY <1>6, <2>1
<1>8. ~OccurIn(forms, u)
  BY <1>4, <1>5, RedactedHides
<1>9. u \in Seq(Characters)
  <2>1. RedactPieces(forms, pieces) \in Seq(Seq(Characters))
    BY <1>4, ShownGrows
  <2>2. QED
    BY <1>5, <2>1, FlatTyped
<1>10. \/ u = text /\ ~OccurIn(forms, text)
       \/ \E s \in 1..Len(text) : Begins(u, text, forms, s)
  BY <1>3, <1>4, <1>5, <1>7, RedactBegins
<1>11. QED
  BY <1>8, <1>9, <1>10 DEF u

-----------------------------------------------------------------------------
(* Credentials. *)

\* Some of the first numbers have a least and a last one.
LEMMA Ordered ==
  ASSUME NEW n \in Nat, NEW S \in SUBSET (1..n), S # {}
  PROVE  Min(S) \in S /\ Max(S) \in S /\ \A k \in S : Min(S) <= k /\ k <= Max(S)
<1>1. S \in SUBSET Nat /\ S \in SUBSET (0..n)
  OBVIOUS
<1>2. \E m \in S : \A k \in S : m <= k
  BY <1>1, Least
<1>3. \E m \in S : \A k \in S : m >= k
  <2>1. PICK m \in S : \A k \in S : k <= m
    BY <1>1, Greatest
  <2>2. \A k \in S : m >= k
    BY <2>1
  <2>3. QED
    BY <2>2
<1>4. Min(S) \in S /\ \A k \in S : Min(S) <= k
  BY <1>2 DEF Min
<1>5. Max(S) \in S /\ \A k \in S : Max(S) >= k
  BY <1>3 DEF Max
<1>6. QED
  BY <1>1, <1>4, <1>5

\* A part of a sequence, and what is before and after it.
LEMMA Parted ==
  ASSUME NEW S, NEW seq \in Seq(S), NEW a \in 1..Len(seq), NEW b \in a..Len(seq)
  PROVE  LET pre == SubSeq(seq, 1, a - 1)
             part == SubSeq(seq, a, b)
             post == SubSeq(seq, b + 1, Len(seq))
         IN /\ pre \in Seq(S) /\ part \in Seq(S) /\ post \in Seq(S)
            /\ seq = (pre \o part) \o post
            /\ Len(pre) = a - 1 /\ Len(part) = b - a + 1 /\ part[1] = seq[a]
<1> DEFINE pre == SubSeq(seq, 1, a - 1)
           part == SubSeq(seq, a, b)
           post == SubSeq(seq, b + 1, Len(seq))
<1>1. Len(seq) \in Nat /\ a \in Nat /\ b \in Nat /\ 1 <= a /\ a <= b /\ b <= Len(seq)
      /\ \A i \in 1..Len(seq) : seq[i] \in S
  BY LenProperties, ElementOfSeq
<1>2. pre \in Seq(S) /\ Len(pre) = a - 1
  <2>1. \A i \in 1..(a - 1) : seq[i] \in S
    BY <1>1
  <2>2. 1 \in Int /\ a - 1 \in Int
    BY <1>1
  <2>3. pre \in Seq(S) /\ Len(pre) = IF 1 <= a - 1 THEN a - 1 - 1 + 1 ELSE 0
    BY <2>1, <2>2, SubSeqProperties
  <2>4. QED
    BY <1>1, <2>3
<1>3. part \in Seq(S) /\ Len(part) = b - a + 1 /\ part[1] = seq[a]
  <2>1. \A i \in a..b : seq[i] \in S
    BY <1>1
  <2>2. a \in Int /\ b \in Int
    BY <1>1
  <2>3. /\ part \in Seq(S) /\ Len(part) = IF a <= b THEN b - a + 1 ELSE 0
        /\ \A i \in 1..(b - a + 1) : part[i] = seq[a + i - 1]
    BY <2>1, <2>2, SubSeqProperties
  <2> HIDE DEF part
  <2>4. 1 \in 1..(b - a + 1) /\ a + 1 - 1 = a
    BY <1>1
  <2>5. QED
    BY <1>1, <2>3, <2>4
<1>4. post \in Seq(S)
  <2>1. \A i \in (b + 1)..Len(seq) : seq[i] \in S
    BY <1>1
  <2>2. b + 1 \in Int /\ Len(seq) \in Int
    BY <1>1
  <2>3. QED
    BY <2>1, <2>2, SubSeqProperties
<1>5. pre \o part = SubSeq(seq, 1, b)
  <2>1. 1 \in 1..(Len(seq) + 1) /\ a - 1 \in (1 - 1)..Len(seq) /\ b \in (a - 1)..Len(seq) /\ (a - 1) + 1 = a
    BY <1>1
  <2>2. SubSeq(seq, 1, a - 1) \o SubSeq(seq, (a - 1) + 1, b) = SubSeq(seq, 1, b)
    BY <2>1, ConcatAdjacentSubSeq
  <2>3. QED
    BY <2>1, <2>2
<1>6. SubSeq(seq, 1, b) \o post = seq
  <2>1. 1 \in 1..(Len(seq) + 1) /\ b \in (1 - 1)..Len(seq) /\ Len(seq) \in b..Len(seq)
    BY <1>1
  <2>2. SubSeq(seq, 1, b) \o SubSeq(seq, b + 1, Len(seq)) = SubSeq(seq, 1, Len(seq))
    BY <2>1, ConcatAdjacentSubSeq
  <2>3. QED
    BY <2>2, SubSeqFull
<1>7. QED
  BY <1>2, <1>3, <1>4, <1>5, <1>6

\* What is trimmed is a part of the text that begins with no space.
LEMMA TrimmedIs ==
  ASSUME NEW S, NEW text \in Seq(S)
  PROVE  /\ Trimmed(text) \in Seq(S)
         /\ Trimmed(text) # <<>> =>
              /\ text # <<>> /\ Trimmed(text)[1] \notin Space
              /\ \E pre, post \in Seq(S) :
                   /\ text = (pre \o Trimmed(text)) \o post
                   /\ text[1] \in Space => Len(pre) >= 1
<1> DEFINE kept == {i \in DOMAIN text : text[i] \notin Space}
           n == Len(text)
<1>1. n \in Nat /\ DOMAIN text = 1..n
  BY LenProperties
<1>2. CASE kept = {}
  <2>1. Trimmed(text) = <<>>
    BY <1>2 DEF Trimmed
  <2>2. QED
    BY <2>1, EmptySeq
<1>3. CASE kept # {}
  <2> DEFINE a == Min(kept)
             b == Max(kept)
  <2>1. Trimmed(text) = SubSeq(text, a, b)
    BY <1>3 DEF Trimmed
  <2>2. kept \in SUBSET (1..n)
    BY <1>1
  <2>3. a \in kept /\ b \in kept /\ a <= b
    <3> HIDE DEF kept, n
    <3>1. Min(kept) \in kept /\ Max(kept) \in kept /\ \A k \in kept : Min(kept) <= k /\ k <= Max(kept)
      BY <1>1, <1>3, <2>2, Ordered
    <3>2. QED
      BY <3>1
  <2>4. a \in 1..n /\ b \in a..n /\ text[a] \notin Space /\ b \in 1..n
    <3>1. a \in 1..n /\ b \in 1..n /\ text[a] \notin Space
      BY <1>1, <2>3
    <3> HIDE DEF a, b, n
    <3>2. QED
      BY <1>1, <2>3, <3>1
  <2> HIDE DEF a, b, kept
  <2> DEFINE pre == SubSeq(text, 1, a - 1)
             part == SubSeq(text, a, b)
             post == SubSeq(text, b + 1, Len(text))
  <2>5. /\ pre \in Seq(S) /\ part \in Seq(S) /\ post \in Seq(S)
        /\ text = (pre \o part) \o post
        /\ Len(pre) = a - 1 /\ Len(part) = b - a + 1 /\ part[1] = text[a]
    BY <2>4, Parted
  <2>6. text[1] \in Space => Len(pre) >= 1
    BY <1>1, <2>4, <2>5
  <2>7. text # <<>>
    BY <1>1, <2>4, EmptySeq
  <2> HIDE DEF pre, part, post
  <2>8. QED
    BY <2>1, <2>4, <2>5, <2>6, <2>7 DEF part
<1>4. QED
  BY <1>2, <1>3

\* The words after the first are a text.
LEMMA AfterSchemeIs ==
  ASSUME NEW S, NEW text \in Seq(S)
  PROVE  AfterScheme(text) \in Seq(S)
<1> DEFINE starts == {i \in DOMAIN text : text[i] \notin Space /\ (i = 1 \/ text[i - 1] \in Space)}
           second == starts \ {Min(starts)}
<1>1. Len(text) \in Nat /\ DOMAIN text = 1..Len(text) /\ \A i \in 1..Len(text) : text[i] \in S
  BY LenProperties, ElementOfSeq
<1>2. CASE starts = {} \/ second = {}
  <2>1. AfterScheme(text) = <<>>
    BY <1>2 DEF AfterScheme
  <2>2. QED
    BY <2>1, EmptySeq
<1>3. CASE starts # {} /\ second # {}
  <2>1. AfterScheme(text) = SubSeq(text, Min(second), Len(text))
    BY <1>3 DEF AfterScheme
  <2>2. second \in SUBSET (1..Len(text))
    BY <1>1
  <2> HIDE DEF starts, second
  <2>3. Min(second) \in second
    BY <1>1, <1>3, <2>2, Ordered
  <2>4. Min(second) \in 1..Len(text)
    BY <2>2, <2>3
  <2>5. Min(second) \in Int /\ Len(text) \in Int /\ \A i \in Min(second)..Len(text) : text[i] \in S
    BY <1>1, <2>4
  <2>6. SubSeq(text, Min(second), Len(text)) \in Seq(S)
    BY <2>5, SubSeqProperties
  <2>7. QED
    BY <2>1, <2>6
<1>4. QED
  BY <1>2, <1>3

-----------------------------------------------------------------------------
(* The forms of a secret. *)

\* What is escaped first, and what is once more.
Once == {{}, ByDebug, ByChar, ByHeader}
Again == {{}, ByDebug}
Turned(text, one, two) == Escaped(Escaped(text, one), two)

\* Values of headers are written, and so is what escapes them.
LEMMA WritingIs ==
  /\ Signs \subseteq Writing /\ Signs \subseteq Characters /\ Writing \subseteq Characters
  /\ Written = Seq(Writing) \ {<<>>}
  /\ Once \subseteq SUBSET Escapable /\ Again \subseteq Once
BY SignsAre, EscapeIs DEF Writing, Written, Once, Again

\* A part is where it is.
LEMMA Middle ==
  ASSUME NEW S, NEW pre \in Seq(S), NEW part \in Seq(S), NEW post \in Seq(S)
  PROVE  OccursAt(part, (pre \o part) \o post, Len(pre) + 1)
<1> DEFINE front == pre \o part
           u == front \o post
<1>1. /\ front \in Seq(S) /\ Len(pre) \in Nat /\ Len(part) \in Nat /\ Len(front) = Len(pre) + Len(part)
      /\ \A i \in 1..Len(part) : front[Len(pre) + i] = part[i]
  BY Concat
<1>2. DOMAIN part = 1..Len(part)
  BY LenProperties
<1> HIDE DEF front
<1>3. /\ Len(post) \in Nat /\ Len(u) = Len(front) + Len(post)
      /\ \A i \in 1..Len(front) : u[i] = front[i]
  <2>1. front \in Seq(S)
    BY <1>1
  <2>2. QED
    BY <2>1, Concat
<1> HIDE DEF u
<1>4. ASSUME NEW k \in 1..Len(part) PROVE u[(Len(pre) + 1) + k - 1] = part[k]
  <2>1. Len(pre) + k \in 1..Len(front) /\ (Len(pre) + 1) + k - 1 = Len(pre) + k
    BY <1>1
  <2>2. QED
    BY <1>1, <1>3, <2>1
<1>5. (Len(pre) + 1) + Len(part) <= Len(u) + 1
  BY <1>1, <1>3
<1>6. QED
  BY <1>2, <1>4, <1>5 DEF OccursAt, u, front

\* What is escaped twice is written still, and begins with a space only if the
\* text does.
LEMMA TurnedIs ==
  ASSUME NEW text \in Seq(Writing), NEW one \in Once, NEW two \in Again
  PROVE  /\ Turned(text, one, two) \in Seq(Writing)
         /\ text # <<>> => /\ Turned(text, one, two) \in Written
                           /\ Turned(text, one, two)[1] = "space" => text[1] = "space"
<1> DEFINE s == Escaped(text, one)
           t == Escaped(s, two)
<1>1. Signs \subseteq Writing /\ one \in SUBSET Escapable /\ two \in SUBSET Escapable
  BY WritingIs
<1>2. s \in Seq(Writing)
  BY <1>1, PiecesOf
<1>3. text # <<>> => s # <<>> /\ s[1] \in {text[1], "backslash"}
  BY <1>1, EscapedBegins
<1> HIDE DEF s
<1>4. t \in Seq(Writing)
  BY <1>1, <1>2, PiecesOf
<1>5. s # <<>> => t # <<>> /\ t[1] \in {s[1], "backslash"}
  BY <1>1, <1>2, EscapedBegins
<1> HIDE DEF t
<1>6. text # <<>> => t \in Written
  BY <1>3, <1>4, <1>5, WritingIs
<1>7. QED
  BY <1>3, <1>4, <1>5, <1>6 DEF Turned, s, t

\* Escaping twice goes with joining.
LEMMA TurnedConcat ==
  ASSUME NEW s \in Seq(Writing), NEW t \in Seq(Writing), NEW one \in Once, NEW two \in Again
  PROVE  s \o t \in Seq(Writing) /\ Turned(s \o t, one, two) = Turned(s, one, two) \o Turned(t, one, two)
<1>1. Signs \subseteq Writing /\ one \in SUBSET Escapable /\ two \in SUBSET Escapable
  BY WritingIs
<1>2. Escaped(s \o t, one) = Escaped(s, one) \o Escaped(t, one) /\ s \o t \in Seq(Writing)
  BY <1>1, EscapedConcat
<1>3. Escaped(s, one) \in Seq(Writing) /\ Escaped(t, one) \in Seq(Writing)
  BY <1>1, PiecesOf
<1>a. ASSUME NEW x \in Seq(Writing), NEW y \in Seq(Writing)
      PROVE  Escaped(x \o y, two) = Escaped(x, two) \o Escaped(y, two)
  <2>1. Signs \subseteq Writing
    BY <1>1
  <2>2. two \in SUBSET Escapable
    BY <1>1
  <2>3. x \o y \in Seq(Writing) /\ Escaped(x \o y, two) = Escaped(x, two) \o Escaped(y, two)
    BY <2>1, <2>2, EscapedConcat, SMTT(40)
  <2>4. QED
    BY <2>3
<1>4. Escaped(Escaped(s, one) \o Escaped(t, one), two)
        = Escaped(Escaped(s, one), two) \o Escaped(Escaped(t, one), two)
  BY <1>3, <1>a
<1>5. QED
  BY <1>2, <1>4 DEF Turned

\* The forms of a text are its spellings.
LEMMA FormsAre ==
  ASSUME NEW text \in Seq(Writing)
  PROVE  Forms(text) = {Turned(text, one, two) : one \in Once, two \in Again}
<1> DEFINE once == {text} \cup {Escaped(text, e) : e \in {ByDebug, ByChar, ByHeader}}
<1>1. Signs \subseteq Writing
  BY WritingIs
<1>2. Escaped(text, {}) = text
  BY <1>1, EscapedNot
<1>3. once = {Escaped(text, one) : one \in Once}
  BY <1>2 DEF Once
<1>4. \A form \in once : form \in Seq(Writing)
  <2>1. \A one \in Once : Escaped(text, one) \in Seq(Writing)
    <3>1. ASSUME NEW one \in Once PROVE Escaped(text, one) \in Seq(Writing)
      <4>1. one \in SUBSET Escapable
        BY WritingIs
      <4>2. QED
        BY <1>1, <4>1, PiecesOf
    <3>2. QED
      BY <3>1
  <2>2. QED
    BY <1>3, <2>1
<1>5. \A form \in once : Escaped(form, {}) = form
  BY <1>1, <1>4, EscapedNot
<1>6. Forms(text) = once \cup {Escaped(form, ByDebug) : form \in once}
  BY DEF Forms
<1> HIDE DEF once
<1> DEFINE both == once \cup {Escaped(form, ByDebug) : form \in once}
           again == {Escaped(form, two) : form \in once, two \in Again}
           twice == {Escaped(Escaped(text, one), two) : one \in Once, two \in Again}
           turned == {Turned(text, one, two) : one \in Once, two \in Again}
<1>7. both = again
  BY <1>5 DEF Again
<1>8. again = twice
  BY <1>3
<1>9. turned = twice
  BY DEF Turned
<1>a. Forms(text) = both
  BY <1>6
<1> HIDE DEF both, again, twice, turned
<1>b. Forms(text) = turned
  BY <1>7, <1>8, <1>9, <1>a
<1>10. QED
  BY <1>b DEF turned

\* A form that begins with a blank has another in it.
Unpadded(forms) ==
  \A form \in forms :
    form[1] = "space" => \E short \in forms, d \in Nat \ {0} : OccursAt(short, form, d + 1)

\* The forms of a secret are written, and one that begins with a space has one
\* that is trimmed in it.
LEMMA FormsWritten ==
  ASSUME NEW text \in Seq(Writing)
  PROVE  FormsOf(text) \subseteq Written /\ Unpadded(FormsOf(text))
<1> DEFINE core == Trimmed(text)
<1>1. /\ core \in Seq(Writing)
      /\ core # <<>> =>
              /\ text # <<>> /\ core[1] \notin Space
              /\ \E pre, post \in Seq(Writing) :
                   /\ text = (pre \o core) \o post
                   /\ text[1] \in Space => Len(pre) >= 1
  BY TrimmedIs
<1>2. CASE core = <<>>
  <2>1. FormsOf(text) = {}
    BY <1>2 DEF FormsOf
  <2>2. QED
    BY <2>1 DEF Unpadded
<1>3. CASE core # <<>>
  <2>1. FormsOf(text) = Forms(text) \cup Forms(core)
    BY <1>3 DEF FormsOf
  <2> HIDE DEF core
  <2>2. \A form \in FormsOf(text) : \E x \in {text, core}, one \in Once, two \in Again : form = Turned(x, one, two)
    BY <1>1, <2>1, FormsAre
  <2>3. \A one \in Once, two \in Again : Turned(core, one, two) \in FormsOf(text)
    BY <1>1, <2>1, FormsAre
  <2>4. ASSUME NEW form \in FormsOf(text)
        PROVE  /\ form \in Written
               /\ form[1] = "space" =>
                    \E short \in FormsOf(text), d \in Nat \ {0} : OccursAt(short, form, d + 1)
    <3>1. PICK x \in {text, core}, one \in Once, two \in Again : form = Turned(x, one, two)
      BY <2>2
    <3>2. x \in Seq(Writing) /\ x # <<>>
      BY <1>1, <1>3
    <3>3. form \in Written /\ (form[1] = "space" => x[1] = "space")
      BY <3>1, <3>2, TurnedIs
    <3>4. ASSUME form[1] = "space"
          PROVE  \E short \in FormsOf(text), d \in Nat \ {0} : OccursAt(short, form, d + 1)
      <4>1. x = text /\ text[1] \in Space
        BY <1>1, <1>3, <3>3, <3>4 DEF Space
      <4>2. PICK pre, post \in Seq(Writing) : text = (pre \o core) \o post /\ Len(pre) >= 1
        BY <1>1, <1>3, <4>1
      <4> DEFINE a == Turned(pre, one, two)
                 b == Turned(core, one, two)
                 c == Turned(post, one, two)
      <4>3. pre \o core \in Seq(Writing) /\ Turned(pre \o core, one, two) = a \o b
        BY <1>1, TurnedConcat
      <4>4. Turned((pre \o core) \o post, one, two) = Turned(pre \o core, one, two) \o c
        BY <4>3, TurnedConcat
      <4>5. form = (a \o b) \o c
        BY <3>1, <4>1, <4>2, <4>3, <4>4
      <4>6. pre # <<>>
        BY <4>2, EmptySeq
      <4>7. a \in Seq(Writing) /\ b \in Seq(Writing) /\ c \in Seq(Writing) /\ a \in Written
        BY <1>1, <4>6, TurnedIs
      <4>8. b \in FormsOf(text)
        BY <2>3
      <4> HIDE DEF a, b, c
      <4>9. Len(a) \in Nat \ {0}
        BY <4>7, WrittenAre
      <4>10. OccursAt(b, form, Len(a) + 1)
        BY <4>5, <4>7, Middle
      <4>11. QED
        BY <4>8, <4>9, <4>10
    <3>5. QED
      BY <3>3, <3>4
  <2>5. QED
    BY <2>4 DEF Unpadded
<1>4. QED
  BY <1>2, <1>3

-----------------------------------------------------------------------------
(* Texts that are cut, and lines that are pushed in. *)

\* What is in the beginning of a text is in the text.
LEMMA InBeginning ==
  ASSUME NEW forms, forms \subseteq Written, NEW part \in Seq(Characters), NEW rest \in Seq(Characters),
         OccurIn(forms, part)
  PROVE  OccurIn(forms, part \o rest)
<1>1. /\ Len(part) \in Nat /\ Len(rest) \in Nat /\ Len(part \o rest) = Len(part) + Len(rest)
      /\ DOMAIN (part \o rest) = 1..(Len(part) + Len(rest)) /\ DOMAIN part = 1..Len(part)
      /\ \A i \in 1..Len(part) : (part \o rest)[i] = part[i]
  BY Concat, LenProperties
<1>2. PICK form \in forms, i \in 1..Len(part) : OccursAt(form, part, i)
  BY <1>1 DEF OccurIn
<1>3. DOMAIN form = 1..Len(form) /\ Len(form) \in Nat \ {0}
  BY WrittenAre
<1>4. i + Len(form) <= Len(part) + 1 /\ \A k \in 1..Len(form) : part[i + k - 1] = form[k]
  BY <1>2, <1>3 DEF OccursAt
<1>5. ASSUME NEW k \in 1..Len(form) PROVE (part \o rest)[i + k - 1] = form[k]
  <2>1. i + k - 1 \in 1..Len(part)
    BY <1>1, <1>3, <1>4
  <2>2. QED
    BY <1>1, <1>4, <2>1
<1>6. OccursAt(form, part \o rest, i)
  BY <1>1, <1>3, <1>4, <1>5 DEF OccursAt
<1>7. i \in DOMAIN (part \o rest)
  BY <1>1
<1>8. QED
  BY <1>6, <1>7 DEF OccurIn

\* A mark at the end of a text spells nothing that the text does not.
LEMMA NotMarked ==
  ASSUME NEW forms, forms \subseteq Written, NEW part \in Seq(Characters), NEW x \in Characters \ Writing,
         ~OccurIn(forms, part)
  PROVE  ~OccurIn(forms, part \o <<x>>)
<1> DEFINE u == part \o <<x>>
           n == Len(part)
<1>1. /\ n \in Nat /\ Len(u) = n + 1 /\ DOMAIN u = 1..(n + 1) /\ DOMAIN part = 1..n
      /\ u[n + 1] = x /\ \A i \in 1..n : u[i] = part[i]
  <2>1. <<x>> \in Seq(Characters) /\ Len(<<x>>) = 1 /\ <<x>>[1] = x
    OBVIOUS
  <2>2. /\ Len(part) \in Nat /\ Len(part \o <<x>>) = Len(part) + Len(<<x>>)
        /\ DOMAIN (part \o <<x>>) = 1..(Len(part) + Len(<<x>>))
        /\ \A i \in 1..Len(part) : (part \o <<x>>)[i] = part[i]
        /\ \A i \in 1..Len(<<x>>) : (part \o <<x>>)[Len(part) + i] = <<x>>[i]
    BY <2>1, Concat
  <2>3. 1 \in 1..Len(<<x>>)
    BY <2>1
  <2>4. DOMAIN part = 1..Len(part)
    BY LenProperties
  <2>5. QED
    BY <2>1, <2>2, <2>3, <2>4
<1> HIDE DEF u, n
<1>2. SUFFICES ASSUME NEW form \in forms, NEW i \in 1..(n + 1), OccursAt(form, u, i) PROVE FALSE
  BY <1>1 DEF OccurIn, u
<1>3. DOMAIN form = 1..Len(form) /\ Len(form) \in Nat \ {0} /\ \A k \in 1..Len(form) : form[k] \in Writing
  BY WrittenAre DEF Writing
<1>4. i + Len(form) <= n + 2 /\ \A k \in 1..Len(form) : u[i + k - 1] = form[k]
  BY <1>1, <1>2, <1>3 DEF OccursAt
<1>5. CASE i + Len(form) = n + 2
  <2>1. Len(form) \in 1..Len(form) /\ i + Len(form) - 1 = n + 1
    BY <1>1, <1>3, <1>5
  <2>2. x = form[Len(form)]
    BY <1>1, <1>4, <2>1
  <2>3. QED
    BY <1>3, <2>1, <2>2
<1>6. CASE i + Len(form) <= n + 1
  <2>1. ASSUME NEW k \in 1..Len(form) PROVE part[i + k - 1] = form[k]
    <3>1. i + k - 1 \in 1..n
      BY <1>1, <1>3, <1>6
    <3>2. QED
      BY <1>1, <1>4, <3>1
  <2>2. i \in 1..n
    BY <1>1, <1>3, <1>6
  <2>3. OccursAt(form, part, i)
    BY <1>3, <1>6, <2>1 DEF OccursAt, n
  <2>4. QED
    BY <1>1, <2>2, <2>3 DEF OccurIn
<1>7. QED
  BY <1>1, <1>3, <1>4, <1>5, <1>6

-----------------------------------------------------------------------------
(* What is cut. *)

\* The mark of a cut text is no character of a secret.
LEMMA MarkIs == "..." \in Characters \ Writing /\ Ellipsis = <<"...">> /\ Ellipsis \in Seq(Characters)
<1>1. "..." \in Characters \ Writing
  BY RedactAssumption DEF Writing
<1>2. QED
  BY <1>1 DEF Ellipsis

\* A text is whole, or the first of its pieces and a mark.
LEMMA CutIs ==
  ASSUME NEW pieces \in Seq(Seq(Characters))
  PROVE  \/ Cut(pieces) = Flat(pieces)
         \/ \E n \in 0..Len(pieces) : Cut(pieces) = First(pieces, n) \o Ellipsis
<1> DEFINE fits == {n \in 0..Len(pieces) : Len(First(pieces, n)) <= MaxMessage}
<1>1. Len(pieces) \in Nat /\ First(pieces, 0) = <<>> /\ First(pieces, Len(pieces)) = Flat(pieces)
  BY FirstGrows
<1>2. 0 \in fits
  BY <1>1, RedactAssumption, EmptySeq
<1>3. fits \in SUBSET (0..Len(pieces))
  OBVIOUS
<1>4. Cut(pieces) = IF Max(fits) = Len(pieces) THEN First(pieces, Max(fits))
                    ELSE First(pieces, Max(fits)) \o Ellipsis
  BY DEF Cut, First
<1> HIDE DEF fits
<1>5. \E m \in fits : \A k \in fits : m >= k
  <2>1. PICK m \in fits : \A k \in fits : k <= m
    BY <1>1, <1>2, <1>3, Greatest
  <2>2. \A k \in fits : m >= k
    BY <1>3, <2>1
  <2>3. QED
    BY <2>2
<1>6. Max(fits) \in fits
  BY <1>5 DEF Max
<1>7. Max(fits) \in 0..Len(pieces)
  BY <1>3, <1>6
<1>8. QED
  BY <1>1, <1>4, <1>7

\* What is cut spells no secret that the whole did not.
LEMMA CutHides ==
  ASSUME NEW forms, forms \subseteq Written, NEW pieces \in Seq(Seq(Characters)),
         ~OccurIn(forms, Flat(pieces))
  PROVE  ~OccurIn(forms, Cut(pieces)) /\ Cut(pieces) \in Seq(Characters)
<1>1. Flat(pieces) \in Seq(Characters)
  BY FlatTyped
<1>2. CASE Cut(pieces) = Flat(pieces)
  BY <1>1, <1>2
<1>3. ASSUME NEW n \in 0..Len(pieces), Cut(pieces) = First(pieces, n) \o Ellipsis
      PROVE  ~OccurIn(forms, Cut(pieces)) /\ Cut(pieces) \in Seq(Characters)
  <2> DEFINE part == First(pieces, n)
  <2>1. part \in Seq(Characters) /\ \E rest \in Seq(Characters) : Flat(pieces) = part \o rest
    BY FirstGrows, FirstBegins
  <2>2. Cut(pieces) = part \o Ellipsis
    BY <1>3
  <2> HIDE DEF part
  <2>3. ~OccurIn(forms, part)
    BY <2>1, InBeginning
  <2>4. ~OccurIn(forms, part \o <<"...">>)
    BY <2>1, <2>3, MarkIs, NotMarked
  <2>5. part \o Ellipsis \in Seq(Characters)
    BY <2>1, MarkIs, ConcatProperties
  <2>6. QED
    BY <2>2, <2>4, <2>5, MarkIs
<1>4. QED
  BY <1>2, <1>3, CutIs

\* A cut text that shows another one up to some place is the text it was cut from there.
LEMMA CutShows ==
  ASSUME NEW pieces \in Seq(Seq(Characters)), NEW text \in Seq(Characters), NEW n \in 1..Len(text),
         ShowsUpto(Cut(pieces), text, n)
  PROVE  n <= Len(Flat(pieces)) /\ \A p \in 1..n : Flat(pieces)[p] = text[p]
<1> DEFINE whole == Flat(pieces)
           begin == SubSeq(text, 1, n)
<1>1. whole \in Seq(Characters) /\ Len(whole) \in Nat
  BY FlatTyped, LenProperties
<1>2. begin \in Seq(Characters) /\ Len(begin) = n /\ (\A p \in 1..n : begin[p] = text[p]) /\ n \in Nat
  <2>1. Len(text) \in Nat /\ \A i \in 1..Len(text) : text[i] \in Characters
    BY LenProperties, ElementOfSeq
  <2>2. n \in Int /\ 1 \in Int /\ 1 <= n /\ \A i \in 1..n : text[i] \in Characters
    BY <2>1
  <2>3. /\ begin \in Seq(Characters) /\ Len(begin) = IF 1 <= n THEN n - 1 + 1 ELSE 0
        /\ \A p \in 1..(n - 1 + 1) : begin[p] = text[1 + p - 1]
    BY <2>2, SubSeqProperties
  <2> HIDE DEF begin
  <2>4. QED
    BY <2>2, <2>3
<1>3. Cut(pieces) = begin \o Ellipsis
  BY DEF ShowsUpto
<1> HIDE DEF whole, begin
<1>4. Ellipsis \in Seq(Characters) /\ Len(Ellipsis) = 1
  BY MarkIs DEF Ellipsis
<1>5. /\ Len(begin \o Ellipsis) = n + 1
      /\ \A p \in 1..n : (begin \o Ellipsis)[p] = text[p]
  <2>1. Ellipsis \in Seq(Characters)
    BY <1>4
  <2>2. /\ Len(begin \o Ellipsis) = Len(begin) + Len(Ellipsis)
        /\ \A p \in 1..Len(begin) : (begin \o Ellipsis)[p] = begin[p]
    BY <1>2, <2>1, Concat
  <2>3. QED
    BY <1>2, <1>4, <2>2
<1>6. CASE Cut(pieces) = whole
  BY <1>1, <1>2, <1>3, <1>5, <1>6 DEF whole
<1>7. ASSUME NEW m \in 0..Len(pieces), Cut(pieces) = First(pieces, m) \o Ellipsis
      PROVE  n <= Len(whole) /\ \A p \in 1..n : whole[p] = text[p]
  <2> DEFINE part == First(pieces, m)
  <2>1. part \in Seq(Characters)
    BY FirstGrows
  <2>2. PICK rest \in Seq(Characters) : whole = part \o rest
    BY FirstBegins DEF whole
  <2>3. begin \o Ellipsis = part \o Ellipsis
    BY <1>3, <1>7
  <2> HIDE DEF part
  <2>4. begin = part
    BY <1>2, <1>4, <2>1, <2>3, ConcatSimplifications
  <2>5. /\ Len(whole) = Len(part) + Len(rest) /\ Len(rest) \in Nat
        /\ \A p \in 1..Len(part) : whole[p] = part[p]
    BY <2>1, <2>2, Concat
  <2>6. QED
    BY <1>2, <2>4, <2>5
<1>8. QED
  BY <1>6, <1>7, CutIs DEF whole

\* A line's indentation spells no secret that the line did not.
LEMMA PushedIs ==
  ASSUME NEW text \in Seq(Characters)
  PROVE  /\ PushedPieces(text) \in InPieces /\ Len(PushedPieces(text)) = Len(text) /\ Len(text) \in Nat
         /\ \A i \in 1..Len(text) :
              LET piece == PushedPieces(text)[i] IN
              /\ piece[1] = text[i]
              /\ text[i] # "newline" => Len(piece) = 1
              /\ text[i] = "newline" => Len(piece) = 2 /\ piece[2] = "space"
<1> DEFINE pieces == PushedPieces(text)
           n == Len(text)
           Piece(i) == IF text[i] = "newline" THEN <<"newline", "space">> ELSE <<text[i]>>
<1>1. n \in Nat /\ DOMAIN text = 1..n /\ \A i \in 1..n : text[i] \in Characters
  BY LenProperties, ElementOfSeq
<1>2. pieces = [i \in 1..n |-> Piece(i)]
  BY <1>1 DEF PushedPieces
<1>3. ASSUME NEW i \in 1..n
      PROVE  /\ Piece(i) \in Seq(Characters) \ {<<>>} /\ Piece(i)[1] = text[i]
             /\ text[i] # "newline" => Len(Piece(i)) = 1
             /\ text[i] = "newline" => Len(Piece(i)) = 2 /\ Piece(i)[2] = "space"
  <2>1. "newline" \in Characters /\ "space" \in Characters /\ text[i] \in Characters
    BY <1>1, RedactAssumption
  <2>2. \A x, y \in Characters : /\ <<x, y>> \in Seq(Characters) \ {<<>>} /\ Len(<<x, y>>) = 2
                                 /\ <<x, y>>[1] = x /\ <<x, y>>[2] = y
                                 /\ <<x>> \in Seq(Characters) \ {<<>>} /\ Len(<<x>>) = 1 /\ <<x>>[1] = x
    OBVIOUS
  <2>3. QED
    BY <2>1, <2>2
<1> HIDE DEF Piece, pieces, n
<1>4. pieces \in [1..n -> Seq(Characters) \ {<<>>}] /\ \A i \in 1..n : pieces[i] = Piece(i)
  BY <1>2, <1>3
<1>5. pieces \in InPieces /\ Len(pieces) = n
  BY <1>1, <1>4, Sequences, LenOf DEF InPieces
<1>6. QED
  BY <1>1, <1>3, <1>4, <1>5 DEF pieces, n

\* A stretch of the pushed lines without a line break, which begins at a character
\* of the lines, is a stretch of these.
LEMMA WalkPushed ==
  ASSUME NEW text \in Seq(Characters), NEW i \in 1..(Len(text) + 1), NEW l \in Nat,
         Ends(PushedPieces(text), i - 1) + l <= Len(Pushed(text)),
         \A k \in 0..(l - 1) : Pushed(text)[Ends(PushedPieces(text), i - 1) + 1 + k] # "newline"
  PROVE  /\ i + l <= Len(text) + 1
         /\ \A k \in 0..(l - 1) : text[i + k] = Pushed(text)[Ends(PushedPieces(text), i - 1) + 1 + k]
<1> DEFINE q == PushedPieces(text)
           u == Pushed(text)
           n == Len(text)
           E(j) == Ends(q, j)
           a == E(i - 1)
           good == {m \in Nat : m <= l =>
                      /\ i + m <= n + 1 /\ E(i + m - 1) = a + m
                      /\ \A k \in 0..(m - 1) : text[i + k] = u[a + 1 + k]}
<1>1. /\ q \in InPieces /\ Len(q) = n /\ n \in Nat
      /\ \A j \in 1..n : /\ q[j][1] = text[j]
                         /\ text[j] # "newline" => Len(q[j]) = 1
  BY PushedIs
<1>2. u = Flat(q)
  BY DEF Pushed
<1> HIDE DEF q, u, n
<1>3. /\ Len(u) \in Nat /\ E(n) = Len(u) /\ \A j \in 0..n : E(j) \in Nat
  BY <1>1, <1>2, PiecesAre
<1>4. ASSUME NEW j \in 1..n
      PROVE  /\ E(j) = E(j - 1) + Len(q[j]) /\ Len(q[j]) \in Nat \ {0}
             /\ \A k \in 1..Len(q[j]) : u[E(j - 1) + k] = q[j][k]
  <2>1. j \in 1..Len(q)
    BY <1>1
  <2>2. /\ Ends(q, j) = Ends(q, j - 1) + Len(q[j]) /\ Len(q[j]) \in Nat \ {0}
        /\ \A k \in 1..Len(q[j]) : Flat(q)[Ends(q, j - 1) + k] = q[j][k]
    BY <1>1, <2>1, PieceAt
  <2>3. QED
    BY <1>2, <2>2 DEF E
<1>5. i \in Nat /\ i >= 1 /\ i <= n + 1 /\ l \in Nat /\ i - 1 \in 0..n
  BY <1>1 DEF n
<1>6. a + l <= Len(u) /\ \A k \in 0..(l - 1) : u[a + 1 + k] # "newline"
  BY DEF u, q
<1> HIDE DEF E
<1>7. a \in Nat
  BY <1>3, <1>5
<1> HIDE DEF a
<1>8. 0 \in good
  BY <1>5, <1>7 DEF a
<1>9. ASSUME NEW m \in Nat, m \in good PROVE m + 1 \in good
  <2>1. SUFFICES ASSUME m + 1 <= l
                 PROVE  /\ i + (m + 1) <= n + 1 /\ E(i + (m + 1) - 1) = a + (m + 1)
                        /\ \A k \in 0..((m + 1) - 1) : text[i + k] = u[a + 1 + k]
    OBVIOUS
  <2>2. /\ i + m <= n + 1 /\ E(i + m - 1) = a + m
        /\ \A k \in 0..(m - 1) : text[i + k] = u[a + 1 + k]
    BY <1>5, <1>9, <2>1
  <2> HIDE DEF good
  <2> DEFINE j == i + m
  <2>3. j # n + 1
    <3>1. SUFFICES ASSUME j = n + 1 PROVE FALSE
      OBVIOUS
    <3>2. i + m - 1 = n
      BY <1>1, <1>5, <3>1
    <3>3. a + m = Len(u)
      BY <1>3, <2>2, <3>2
    <3>4. QED
      BY <1>3, <1>5, <1>6, <1>7, <2>1, <3>3
  <2>4. j \in 1..n /\ j - 1 = i + m - 1 /\ i + (m + 1) - 1 = j /\ i + (m + 1) <= n + 1
    BY <1>1, <1>5, <2>2, <2>3
  <2> HIDE DEF j
  <2>5. /\ E(j) = (a + m) + Len(q[j]) /\ Len(q[j]) \in Nat \ {0}
        /\ \A k \in 1..Len(q[j]) : u[(a + m) + k] = q[j][k]
    <3>1. E(j - 1) = a + m
      BY <2>2, <2>4
    <3>2. QED
      BY <1>4, <2>4, <3>1
  <2>6. u[a + 1 + m] = text[j]
    <3>1. 1 \in 1..Len(q[j]) /\ (a + m) + 1 = a + 1 + m
      BY <1>7, <2>5
    <3>2. u[(a + m) + 1] = q[j][1]
      BY <2>5, <3>1
    <3>3. QED
      BY <1>1, <2>4, <3>1, <3>2
  <2>7. m \in 0..(l - 1)
    BY <1>5, <2>1
  <2>8. Len(q[j]) = 1
    BY <1>1, <1>6, <2>4, <2>6, <2>7
  <2>9. E(i + (m + 1) - 1) = a + (m + 1)
    BY <1>7, <2>4, <2>5, <2>8
  <2>10. ASSUME NEW k \in 0..((m + 1) - 1) PROVE text[i + k] = u[a + 1 + k]
    <3>1. k \in 0..(m - 1) \/ k = m
      OBVIOUS
    <3>2. QED
      BY <2>2, <2>6, <3>1 DEF j
  <2>11. QED
    BY <2>4, <2>9, <2>10
<1> HIDE DEF good
<1>10. l \in good
  BY <1>5, <1>8, <1>9, NatSetInduction
<1>11. i + l <= n + 1 /\ \A k \in 0..(l - 1) : text[i + k] = u[a + 1 + k]
  BY <1>5, <1>10 DEF good
<1>12. QED
  BY <1>11 DEF n, u, a, E, q

\* A text that spells no form spells none once its lines are pushed in.
LEMMA PushedHides ==
  ASSUME NEW forms, forms \subseteq Written, Unpadded(forms), NEW text \in Seq(Characters),
         ~OccurIn(forms, text)
  PROVE  ~OccurIn(forms, Pushed(text))
<1> DEFINE q == PushedPieces(text)
           u == Pushed(text)
           n == Len(text)
           E(j) == Ends(q, j)
           reached(a) == {j \in 0..n : a <= E(j)}
<1>1. /\ q \in InPieces /\ Len(q) = n /\ n \in Nat /\ DOMAIN text = 1..n
      /\ \A j \in 1..n : /\ q[j][1] = text[j]
                         /\ text[j] # "newline" => Len(q[j]) = 1
                         /\ text[j] = "newline" => Len(q[j]) = 2 /\ q[j][2] = "space"
  BY PushedIs, LenProperties
<1>2. u = Flat(q)
  BY DEF Pushed
<1>3. ASSUME NEW i \in 1..(n + 1), NEW l \in Nat, E(i - 1) + l <= Len(u),
             \A k \in 0..(l - 1) : u[E(i - 1) + 1 + k] # "newline"
      PROVE  i + l <= n + 1 /\ \A k \in 0..(l - 1) : text[i + k] = u[E(i - 1) + 1 + k]
  BY <1>3, WalkPushed
<1> HIDE DEF q, u, n
<1>4. /\ u \in Seq(Characters) /\ Len(u) \in Nat /\ DOMAIN u = 1..Len(u)
      /\ E(0) = 0 /\ E(n) = Len(u) /\ \A j \in 0..n : E(j) \in Nat
  <2>1. /\ Flat(q) \in Seq(Characters) /\ Ends(q, 0) = 0 /\ Ends(q, Len(q)) = Len(Flat(q))
        /\ \A j \in 0..Len(q) : Ends(q, j) \in Nat
    BY <1>1, PiecesAre
  <2>2. u \in Seq(Characters)
    BY <1>2, <2>1
  <2>3. QED
    BY <1>1, <1>2, <2>1, <2>2, LenProperties
<1>5. ASSUME NEW j \in 1..n
      PROVE  /\ E(j) = E(j - 1) + Len(q[j])
             /\ \A k \in 1..Len(q[j]) : u[E(j - 1) + k] = q[j][k]
  <2>1. j \in 1..Len(q)
    BY <1>1
  <2> q \in InPieces
    BY <1>1
  <2>2. /\ Ends(q, j) = Ends(q, j - 1) + Len(q[j]) /\ Len(q[j]) \in Nat \ {0}
        /\ \A k \in 1..Len(q[j]) : Flat(q)[Ends(q, j - 1) + k] = q[j][k]
    BY <2>1, PieceAt
  <2>3. QED
    BY <1>2, <2>2 DEF E
<1> HIDE DEF E
<1>6. SUFFICES ASSUME NEW form \in forms, NEW a \in 1..Len(u), OccursAt(form, u, a) PROVE FALSE
  BY <1>4 DEF OccurIn, u
<1> DEFINE l == Len(form)
<1>7. DOMAIN form = 1..l /\ l \in Nat \ {0} /\ \A k \in 1..l : form[k] # "newline"
  BY WrittenAre
<1>8. a + l <= Len(u) + 1 /\ \A k \in 1..l : u[a + k - 1] = form[k]
  BY <1>6, <1>7 DEF OccursAt
<1> HIDE DEF l
<1>9. PICK i \in reached(a) : \A k \in reached(a) : i <= k
  <2>1. reached(a) \in SUBSET Nat /\ n \in reached(a)
    BY <1>1, <1>4
  <2> HIDE DEF reached
  <2>2. QED
    BY <2>1, Least
<1>10. i \in 1..n /\ i - 1 \in 0..n /\ E(i - 1) < a /\ a <= E(i) /\ a \in Nat /\ E(i - 1) \in Nat
  <2>1. i \in 0..n /\ a <= E(i) /\ i # 0
    BY <1>4, <1>9
  <2>2. i \in 1..n /\ i - 1 \in 0..n /\ ~(i <= i - 1)
    BY <1>1, <2>1
  <2>3. i - 1 \notin reached(a)
    BY <1>9, <2>2
  <2>4. E(i - 1) \in Nat /\ ~(a <= E(i - 1))
    BY <1>4, <2>2, <2>3
  <2>5. QED
    BY <1>4, <2>1, <2>2, <2>4
<1>11. CASE a = E(i - 1) + 1
  <2>1. i \in 1..(n + 1) /\ l \in Nat /\ E(i - 1) + l <= Len(u)
    BY <1>1, <1>4, <1>7, <1>8, <1>10, <1>11
  <2>2. ASSUME NEW k \in 0..(l - 1) PROVE u[E(i - 1) + 1 + k] = form[k + 1]
    <3>1. k + 1 \in 1..l /\ a + (k + 1) - 1 = E(i - 1) + 1 + k
      BY <1>7, <1>10, <1>11
    <3>2. QED
      BY <1>8, <3>1
  <2>3. \A k \in 0..(l - 1) : u[E(i - 1) + 1 + k] # "newline"
    <3>1. \A k \in 0..(l - 1) : k + 1 \in 1..l
      BY <1>7
    <3>2. QED
      BY <1>7, <2>2, <3>1
  <2>4. i + l <= n + 1 /\ \A k \in 0..(l - 1) : text[i + k] = u[E(i - 1) + 1 + k]
    BY <1>3, <2>1, <2>3
  <2>5. ASSUME NEW k \in 1..l PROVE text[i + k - 1] = form[k]
    <3>1. k - 1 \in 0..(l - 1) /\ i + (k - 1) = i + k - 1 /\ (k - 1) + 1 = k
      BY <1>7, <1>10
    <3>2. QED
      BY <2>2, <2>4, <3>1
  <2>6. OccursAt(form, text, i)
    BY <1>7, <2>4, <2>5 DEF OccursAt, n, l
  <2>7. QED
    BY <1>1, <1>10, <2>6 DEF OccurIn
<1>12. CASE a # E(i - 1) + 1
  <2>1. Len(q[i]) = 2 /\ q[i][2] = "space" /\ a = E(i - 1) + 2 /\ E(i) = a
    <3>1. Len(q[i]) = 1 \/ (Len(q[i]) = 2 /\ q[i][2] = "space")
      BY <1>1, <1>10
    <3>2. E(i) = E(i - 1) + Len(q[i])
      BY <1>5, <1>10
    <3>3. a # E(i - 1) + 1 /\ E(i - 1) < a /\ a <= E(i) /\ a \in Nat /\ E(i - 1) \in Nat
      BY <1>10, <1>12
    <3>4. Len(q[i]) # 1
      <4>1. SUFFICES ASSUME Len(q[i]) = 1 PROVE FALSE
        OBVIOUS
      <4>2. E(i) = E(i - 1) + 1
        BY <3>2, <4>1
      <4> HIDE DEF q
      <4>3. \A x, y, z : x \in Nat /\ z \in Nat /\ y = z + 1 /\ z < x /\ x <= y => x = z + 1
        OBVIOUS
      <4>4. QED
        BY <3>3, <4>2, <4>3
    <3>5. Len(q[i]) = 2 /\ q[i][2] = "space" /\ E(i) = E(i - 1) + 2
      BY <3>1, <3>2, <3>4
    <3>6. QED
      BY <3>3, <3>5
  <2>2. form[1] = "space"
    <3>1. 2 \in 1..Len(q[i]) /\ 1 \in 1..l /\ a + 1 - 1 = a
      BY <1>7, <1>10, <2>1
    <3>2. u[a] = q[i][2]
      BY <1>5, <1>10, <2>1, <3>1
    <3>3. QED
      BY <1>8, <2>1, <3>1, <3>2
  <2>3. PICK short \in forms, d \in Nat \ {0} : OccursAt(short, form, d + 1)
    BY <2>2 DEF Unpadded
  <2> DEFINE r == Len(short)
             j == i + 1
  <2>4. DOMAIN short = 1..r /\ r \in Nat \ {0}
    BY WrittenAre
  <2>5. (d + 1) + r <= l + 1 /\ \A k \in 1..r : form[(d + 1) + k - 1] = short[k]
    BY <2>3, <2>4 DEF OccursAt, l
  <2> HIDE DEF r
  <2>6. j \in 1..(n + 1) /\ l - 1 \in Nat /\ j - 1 = i /\ E(j - 1) + (l - 1) <= Len(u)
    BY <1>1, <1>4, <1>7, <1>8, <1>10, <2>1
  <2>7. ASSUME NEW k \in 0..((l - 1) - 1) PROVE u[E(j - 1) + 1 + k] = form[k + 2] /\ k + 2 \in 1..l
    <3>1. k + 2 \in 1..l /\ a + (k + 2) - 1 = E(j - 1) + 1 + k
      BY <1>7, <1>10, <2>1, <2>6
    <3>2. QED
      BY <1>8, <3>1
  <2>8. \A k \in 0..((l - 1) - 1) : u[E(j - 1) + 1 + k] # "newline"
    BY <1>7, <2>7
  <2>9. j + (l - 1) <= n + 1 /\ \A k \in 0..((l - 1) - 1) : text[j + k] = u[E(j - 1) + 1 + k]
    BY <1>3, <2>6, <2>8
  <2>10. ASSUME NEW k \in 1..r PROVE text[(i + d) + k - 1] = short[k]
    <3>1. (d + k) - 2 \in 0..((l - 1) - 1)
      BY <1>7, <2>4, <2>5
    <3>2. ((d + k) - 2) + 2 = (d + 1) + k - 1 /\ j + ((d + k) - 2) = (i + d) + k - 1
      BY <1>7, <1>10, <2>4
    <3>3. QED
      BY <2>5, <2>7, <2>9, <3>1, <3>2
  <2>11. (i + d) + r <= n + 1 /\ i + d \in 1..n
    BY <1>1, <1>7, <1>10, <2>4, <2>5, <2>9
  <2>12. OccursAt(short, text, i + d)
    BY <2>4, <2>10, <2>11 DEF OccursAt, n, r
  <2>13. QED
    BY <1>1, <2>11, <2>12 DEF OccurIn
<1>13. QED
  BY <1>11, <1>12

-----------------------------------------------------------------------------
(* The copy of a chain. *)

\* What a link that is searched prints.
LEMMA RedactedLinkIs ==
  ASSUME NEW forms, forms \subseteq Written, Unpadded(forms), NEW link \in Links
  PROVE  LET copy == RedactedLink(forms, link) IN
         /\ copy \in Links /\ copy.display = RedactText(forms, link.display)
         /\ \A text \in Prints(copy) : ~OccurIn(forms, text)
<1> DEFINE copy == RedactedLink(forms, link)
<1>1. link.display \in Seq(Characters) /\ link.debug \in Seq(Characters) /\ link.alternate \in Seq(Characters)
  BY DEF Links, Texts
<1>2. /\ copy.display = RedactText(forms, link.display) /\ copy.debug = RedactText(forms, link.debug)
      /\ copy.alternate = RedactText(forms, link.alternate)
      /\ copy = [display |-> copy.display, debug |-> copy.debug, alternate |-> copy.alternate]
  BY DEF RedactedLink
<1> HIDE DEF copy
<1>3. /\ copy.display \in Seq(Characters) /\ ~OccurIn(forms, copy.display)
      /\ copy.debug \in Seq(Characters) /\ ~OccurIn(forms, copy.debug)
      /\ copy.alternate \in Seq(Characters) /\ ~OccurIn(forms, copy.alternate)
  BY <1>1, <1>2, RedactedText
<1>4. ~OccurIn(forms, Pushed(copy.alternate))
  BY <1>3, PushedHides
<1>5. copy \in Links
  BY <1>2, <1>3 DEF Links, Texts
<1>6. QED
  BY <1>2, <1>3, <1>4, <1>5 DEF Prints, copy

\* A chain of which no link prints a secret is kept; any other is copied, searched.
Copied(forms, chain) ==
  [i \in 1..Min({MaxScanned, Len(chain)}) |-> RedactedLink(forms, chain[i])]
\* Nothing that a link prints spells a form.
LinkClean(forms, link) == \A text \in Prints(link) : ~OccurIn(forms, text)

\* The lesser of two numbers.
LEMMA FewerOf ==
  ASSUME NEW m \in Nat, NEW n \in Nat
  PROVE  Min({m, n}) \in Nat /\ Min({m, n}) = (IF m <= n THEN m ELSE n)
<1>1. {m, n} # {} /\ {m, n} \in SUBSET Nat
  OBVIOUS
<1>2. PICK x \in {m, n} : \A y \in {m, n} : x <= y
  BY <1>1, Least
<1>3. Min({m, n}) \in {m, n} /\ \A y \in {m, n} : Min({m, n}) <= y
  <2>1. Min({m, n}) = CHOOSE z \in {m, n} : \A y \in {m, n} : z <= y
    BY DEF Min
  <2>2. QED
    BY <1>2, <2>1
<1>4. QED
  BY <1>3

\* No link of what is kept of a chain prints a form, and it is the chain unless
\* a link does or there are too many of them.
LEMMA CopyIs ==
  ASSUME NEW forms, forms \subseteq Written, Unpadded(forms), NEW chain \in Seq(Links)
  PROVE  LET copy == CopyChain(forms, chain)
             clean == \A i \in DOMAIN chain : LinkClean(forms, chain[i])
         IN /\ copy \in Seq(Links)
            /\ \A i \in DOMAIN copy : LinkClean(forms, copy[i])
            /\ copy = chain \/ copy = Copied(forms, chain)
            /\ Len(chain) <= MaxScanned /\ clean => copy = chain
<1> DEFINE copy == CopyChain(forms, chain)
           m == Min({MaxScanned, Len(chain)})
           scanned == SubSeq(chain, 1, m)
           Holds(link) == \E text \in {link.display, link.debug, link.alternate} : OccurIn(forms, text)
<1>1. Len(chain) \in Nat /\ DOMAIN chain = 1..Len(chain) /\ \A i \in 1..Len(chain) : chain[i] \in Links
  BY LenProperties, ElementOfSeq
<1>2. /\ MaxScanned \in Nat /\ m \in Nat /\ (Len(chain) <= MaxScanned => m = Len(chain))
      /\ \A i \in 1..m : i \in 1..Len(chain)
      /\ ~(Len(chain) > MaxScanned) => Len(chain) <= MaxScanned
  <2>1. MaxScanned \in Nat
    BY RedactAssumption
  <2>2. m \in Nat /\ m = IF MaxScanned <= Len(chain) THEN MaxScanned ELSE Len(chain)
    BY <1>1, <2>1, FewerOf
  <2>3. ASSUME NEW n, n = Len(chain), n \in Nat
        PROVE  /\ n <= MaxScanned => m = n
               /\ \A i \in 1..m : i \in 1..n
               /\ ~(n > MaxScanned) => n <= MaxScanned
    <3>1. m = IF MaxScanned <= n THEN MaxScanned ELSE n
      BY <2>2, <2>3
    <3> HIDE DEF m
    <3>2. QED
      BY <2>1, <2>3, <3>1
  <2>4. QED
    BY <1>1, <2>1, <2>2, <2>3
<1>3. copy = IF Len(chain) > MaxScanned \/ \E i \in DOMAIN scanned : Holds(scanned[i])
               THEN [i \in DOMAIN scanned |-> RedactedLink(forms, scanned[i])]
               ELSE chain
  BY DEF CopyChain
<1>4. Copied(forms, chain) = [i \in 1..m |-> RedactedLink(forms, chain[i])]
  BY DEF Copied
<1> HIDE DEF m
<1>5. DOMAIN scanned = 1..m /\ \A i \in 1..m : scanned[i] = chain[i] /\ chain[i] \in Links
  <2>1. \A i \in 1..m : chain[i] \in Links
    BY <1>1, <1>2
  <2>2. scanned \in Seq(Links) /\ Len(scanned) = (IF 1 <= m THEN m - 1 + 1 ELSE 0)
        /\ \A i \in 1..(m - 1 + 1) : scanned[i] = chain[1 + i - 1]
    BY <1>2, <2>1, SubSeqProperties
  <2>3. DOMAIN scanned = 1..Len(scanned) /\ Len(scanned) = m
    BY <1>2, <2>2, LenProperties
  <2> HIDE DEF scanned
  <2>4. QED
    BY <1>2, <2>1, <2>2, <2>3
<1> HIDE DEF copy, scanned, Holds
<1>6. CASE Len(chain) > MaxScanned \/ \E i \in 1..m : Holds(chain[i])
  <2>1. copy = [i \in 1..m |-> RedactedLink(forms, chain[i])]
    BY <1>3, <1>5, <1>6
  <2>2. ASSUME NEW i \in 1..m
        PROVE  RedactedLink(forms, chain[i]) \in Links /\ LinkClean(forms, RedactedLink(forms, chain[i]))
    BY <1>5, RedactedLinkIs DEF LinkClean
  <2>3. DOMAIN copy = 1..m /\ \A i \in 1..m : copy[i] \in Links /\ LinkClean(forms, copy[i])
    BY <2>1, <2>2
  <2>4. copy \in Seq(Links)
    <3>1. copy \in [1..m -> Links]
      BY <2>1, <2>2
    <3>2. QED
      BY <1>2, <3>1, Sequences
  <2>5. ASSUME Len(chain) <= MaxScanned, \A i \in DOMAIN chain : LinkClean(forms, chain[i]) PROVE FALSE
    <3>1. PICK i \in 1..m : Holds(chain[i])
      BY <1>1, <1>2, <1>6, <2>5
    <3>2. i \in DOMAIN chain
      BY <1>1, <1>2, <3>1
    <3>3. LinkClean(forms, chain[i])
      BY <2>5, <3>2
    <3>4. QED
      BY <3>1, <3>3 DEF Holds, LinkClean, Prints
  <2>6. QED
    BY <1>4, <2>1, <2>3, <2>4, <2>5 DEF copy
<1>7. CASE ~(Len(chain) > MaxScanned \/ \E i \in 1..m : Holds(chain[i]))
  <2>1. copy = chain
    BY <1>3, <1>5, <1>7
  <2>2. m = Len(chain)
    BY <1>1, <1>2, <1>7
  <2>3. ASSUME NEW i \in DOMAIN chain PROVE LinkClean(forms, chain[i])
    <3>1. i \in 1..m /\ chain[i] \in Links
      BY <1>1, <2>2
    <3>2. /\ ~OccurIn(forms, chain[i].display) /\ ~OccurIn(forms, chain[i].debug)
          /\ ~OccurIn(forms, chain[i].alternate) /\ chain[i].alternate \in Seq(Characters)
      BY <1>7, <3>1 DEF Holds, Links, Texts
    <3>3. ~OccurIn(forms, Pushed(chain[i].alternate))
      BY <3>2, PushedHides
    <3>4. QED
      BY <3>2, <3>3 DEF LinkClean, Prints
  <2>4. QED
    BY <2>1, <2>3 DEF copy
<1>8. QED
  BY <1>6, <1>7

-----------------------------------------------------------------------------
(* The message of a chain: where it shows what. *)

\* More of a sequence begins with less of it.
LEMMA LessOf ==
  ASSUME NEW S, NEW seq \in Seq(S), NEW n \in 0..Len(seq)
  PROVE  SubSeq(seq, 1, n) \in Seq(S) /\ Len(SubSeq(seq, 1, n)) = n
         /\ \A i \in 1..n : SubSeq(seq, 1, n)[i] = seq[i]
<1>1. Len(seq) \in Nat /\ \A i \in 1..Len(seq) : seq[i] \in S
  BY LenProperties, ElementOfSeq
<1>2. n \in Nat /\ \A i \in 1..n : seq[i] \in S
  BY <1>1
<1>3. /\ SubSeq(seq, 1, n) \in Seq(S) /\ Len(SubSeq(seq, 1, n)) = (IF 1 <= n THEN n - 1 + 1 ELSE 0)
      /\ \A i \in 1..(n - 1 + 1) : SubSeq(seq, 1, n)[i] = seq[1 + i - 1]
  BY <1>2, SubSeqProperties
<1> DEFINE u == SubSeq(seq, 1, n)
<1> HIDE DEF u
<1>4. Len(u) = n
  BY <1>2, <1>3 DEF u
<1>5. \A i \in 1..n : u[i] = seq[i]
  BY <1>2, <1>3 DEF u
<1>6. QED
  BY <1>3, <1>4, <1>5 DEF u

\* The first sequences begin with fewer of them.
LEMMA FirstsGrow ==
  ASSUME NEW S, NEW seqs \in Seq(Seq(S)), NEW n \in 0..Len(seqs), NEW k \in 0..n
  PROVE  \E rest \in Seq(S) : First(seqs, n) = First(seqs, k) \o rest
<1>1. Len(seqs) \in Nat /\ \A i \in 1..Len(seqs) : seqs[i] \in Seq(S)
  BY LenProperties, ElementOfSeq
<1>2. SubSeq(seqs, 1, k) \in Seq(Seq(S)) /\ SubSeq(seqs, k + 1, n) \in Seq(Seq(S))
  <2>1. (\A i \in 1..k : seqs[i] \in Seq(S)) /\ \A i \in (k + 1)..n : seqs[i] \in Seq(S)
    BY <1>1
  <2>2. QED
    BY <2>1, SubSeqProperties
<1>3. SubSeq(seqs, 1, k) \o SubSeq(seqs, k + 1, n) = SubSeq(seqs, 1, n)
  <2>1. 1 \in 1..(Len(seqs) + 1) /\ k \in (1 - 1)..Len(seqs) /\ n \in k..Len(seqs)
    BY <1>1
  <2>2. QED
    BY <2>1, ConcatAdjacentSubSeq
<1>4. /\ Flat(SubSeq(seqs, 1, k) \o SubSeq(seqs, k + 1, n)) =
           Flat(SubSeq(seqs, 1, k)) \o Flat(SubSeq(seqs, k + 1, n))
      /\ Flat(SubSeq(seqs, k + 1, n)) \in Seq(S)
  BY <1>2, FlatConcat, FlatTyped
<1>5. QED
  BY <1>3, <1>4 DEF First

-----------------------------------------------------------------------------
(* What is shown of a chain, link by link. *)

\* A piece of more than one character begins with no star.
Plainly == {piece \in Seq(Characters) \ {<<>>} : Len(piece) > 1 => piece[1] # "*"}
\* What a message shows of a link, and before it.
Separator(k) == IF k > 1 THEN <<":", "space">> ELSE <<>>
LinkPieces(k, display) ==
  (IF k > 1 THEN <<<<":", "space">>>> ELSE <<>>) \o Pieces(display, ByMessage)
Linked(chain) == [k \in 1..Min({MaxShown, Len(chain)}) |-> LinkPieces(k, chain[k].display)]
UpTo(chain, k) == Flat(First(Linked(chain), k - 1)) \o Separator(k)

\* A text in plain pieces is a text in pieces.
LEMMA PlainlyIs ==
  ASSUME NEW seqs \in Seq(Plainly)
  PROVE  /\ seqs \in InPieces /\ seqs \in Seq(Seq(Characters))
         /\ \A i \in 1..Len(seqs) : Len(seqs[i]) > 1 => seqs[i][1] # "*"
<1>1. Plainly \subseteq Seq(Characters) \ {<<>>} /\ Seq(Characters) \ {<<>>} \subseteq Seq(Characters)
  BY DEF Plainly
<1>2. Seq(Plainly) \subseteq InPieces /\ InPieces \subseteq Seq(Seq(Characters))
  BY <1>1, SeqMonotonic DEF InPieces
<1>3. \A i \in 1..Len(seqs) : seqs[i] \in Plainly
  BY ElementOfSeq
<1>4. QED
  BY <1>2, <1>3 DEF Plainly

\* A text is escaped into plain pieces.
LEMMA EscapedPlainly ==
  ASSUME NEW text \in Seq(Characters)
  PROVE  /\ Pieces(text, ByMessage) \in Seq(Plainly)
         /\ Escaped(text, ByMessage) = Flat(Pieces(text, ByMessage))
         /\ Escaped(text, ByMessage) \in Seq(Characters)
<1> DEFINE pieces == Pieces(text, ByMessage)
<1>1. ByMessage \in SUBSET Escapable /\ Signs \subseteq Characters
  BY EscapeIs, SignsAre
<1>2. /\ pieces \in Seq(Seq(Characters)) /\ Len(pieces) = Len(text) /\ Len(text) \in Nat
      /\ \A i \in 1..Len(text) : text[i] \in Characters
      /\ \A i \in 1..Len(text) : pieces[i] = PieceOf(text[i], ByMessage)
      /\ Escaped(text, ByMessage) \in Seq(Characters) /\ Escaped(text, ByMessage) = Flat(pieces)
  <2>1. /\ pieces \in Seq(Seq(Characters)) /\ Len(pieces) = Len(text) /\ Len(text) \in Nat
        /\ \A i \in 1..Len(text) : text[i] \in Characters
        /\ PiecedBy(pieces, text, ByMessage)
        /\ Escaped(text, ByMessage) \in Seq(Characters) /\ Escaped(text, ByMessage) = Flat(pieces)
    BY <1>1, PiecesOf
  <2>2. QED
    BY <2>1 DEF PiecedBy
<1> HIDE DEF pieces
<1>3. ASSUME NEW i \in 1..Len(text) PROVE pieces[i] \in Plainly
  <2> DEFINE c == text[i]
  <2>1. c \in Characters
    BY <1>2
  <2> HIDE DEF c
  <2>2. /\ PieceOf(c, ByMessage) \in Seq(Characters) /\ PieceOf(c, ByMessage) # <<>>
        /\ c \in ByMessage => PieceOf(c, ByMessage)[1] = "backslash"
        /\ c \notin ByMessage => Len(PieceOf(c, ByMessage)) = 1
    BY <1>1, <2>1, PieceOfIs
  <2>3. PieceOf(c, ByMessage) \in Plainly
    <3>1. Len(PieceOf(c, ByMessage)) > 1 => PieceOf(c, ByMessage)[1] # "*"
      <4>1. CASE c \in ByMessage
        BY <2>2, <4>1
      <4>2. CASE c \notin ByMessage
        <5>1. Len(PieceOf(c, ByMessage)) = 1
          BY <2>2, <4>2
        <5>2. ~(1 > 1)
          OBVIOUS
        <5>3. QED
          BY <5>1, <5>2, Zenon
      <4>3. QED
        BY <4>1, <4>2
    <3>2. QED
      BY <2>2, <3>1 DEF Plainly
  <2>4. pieces[i] = PieceOf(c, ByMessage)
    BY <1>2 DEF c
  <2>5. QED
    BY <2>3, <2>4
<1>4. pieces \in Seq(Plainly)
  <2>1. pieces \in [1..Len(text) -> Plainly]
    <3>1. DOMAIN pieces = 1..Len(text) /\ pieces \in [1..Len(text) -> Seq(Characters)]
      BY <1>2, LenProperties
    <3>2. QED
      BY <1>3, <3>1
  <2>2. QED
    BY <1>2, <2>1, Sequences
<1>5. QED
  BY <1>2, <1>4 DEF pieces

\* A link shows its text, escaped, with a separator before it.
LEMMA LinkPiecesAre ==
  ASSUME NEW k \in Nat, NEW display \in Seq(Characters)
  PROVE  /\ LinkPieces(k, display) \in Seq(Plainly) /\ LinkPieces(k, display) \in Seq(Seq(Characters))
         /\ Separator(k) \in Seq(Characters) /\ Escaped(display, ByMessage) \in Seq(Characters)
         /\ Flat(LinkPieces(k, display)) = Separator(k) \o Escaped(display, ByMessage)
<1> DEFINE pieces == Pieces(display, ByMessage)
           sep == IF k > 1 THEN <<<<":", "space">>>> ELSE <<>>
<1>1. /\ pieces \in Seq(Plainly) /\ pieces \in Seq(Seq(Characters))
      /\ Flat(pieces) = Escaped(display, ByMessage) /\ Flat(pieces) \in Seq(Characters)
  BY EscapedPlainly, PlainlyIs
<1> HIDE DEF pieces
<1>2. <<":", "space">> \in Plainly /\ <<":", "space">> \in Seq(Characters)
  <2>1. ":" \in Characters /\ "space" \in Characters
    BY RedactAssumption
  <2>2. \A x, y \in Characters :
          x # "*" => /\ <<x, y>> \in Seq(Characters) \ {<<>>}
                     /\ Len(<<x, y>>) > 1 => <<x, y>>[1] # "*"
    OBVIOUS
  <2>3. QED
    BY <2>1, <2>2 DEF Plainly
<1>3. /\ sep \in Seq(Plainly) /\ sep \in Seq(Seq(Characters))
      /\ Flat(sep) = Separator(k) /\ Separator(k) \in Seq(Characters)
  <2>1. CASE k > 1
    <3>1. sep = <<<<":", "space">>>> /\ Separator(k) = <<":", "space">>
      BY <2>1 DEF Separator
    <3>2. <<<<":", "space">>>> \in Seq(Plainly)
      BY <1>2
    <3>3. Flat(<<<<":", "space">>>>) = <<":", "space">>
      BY <1>2, FlatOne
    <3>4. sep \in Seq(Seq(Characters))
      BY <3>1, <3>2, PlainlyIs
    <3>5. QED
      BY <1>2, <3>1, <3>2, <3>3, <3>4
  <2>2. CASE ~(k > 1)
    <3>1. sep = <<>> /\ Separator(k) = <<>>
      BY <2>2 DEF Separator
    <3>2. <<>> \in Seq(Plainly) /\ <<>> \in Seq(Seq(Characters)) /\ <<>> \in Seq(Characters)
      BY EmptySeq
    <3>3. Flat(<<>>) = <<>>
      BY <3>2, FlatTyped
    <3>4. QED
      BY <3>1, <3>2, <3>3
  <2>3. QED
    BY <2>1, <2>2
<1>4. LinkPieces(k, display) = sep \o pieces
  BY DEF LinkPieces, pieces
<1> HIDE DEF sep
<1>5. sep \o pieces \in Seq(Plainly) /\ sep \o pieces \in Seq(Seq(Characters))
  BY <1>1, <1>3, ConcatProperties
<1>6. Flat(sep \o pieces) = Flat(sep) \o Flat(pieces)
  BY <1>1, <1>3, FlatConcat
<1>7. QED
  BY <1>1, <1>3, <1>4, <1>5, <1>6

\* A message shows the first links of a chain, one after another.
LEMMA LinkedIs ==
  ASSUME NEW chain \in Seq(Links)
  PROVE  LET m == Min({MaxShown, Len(chain)}) IN
         /\ m \in Nat /\ Len(Linked(chain)) = m /\ DOMAIN Linked(chain) = 1..m
         /\ Linked(chain) \in Seq(Seq(Plainly)) /\ Linked(chain) \in Seq(Seq(Seq(Characters)))
         /\ Render(chain) = Flat(Linked(chain))
         /\ Render(chain) \in InPieces /\ Render(chain) \in Seq(Seq(Characters))
         /\ \A i \in 1..Len(Render(chain)) : Len(Render(chain)[i]) > 1 => Render(chain)[i][1] # "*"
         /\ \A k \in 1..m : /\ k \in 1..Len(chain) /\ k \in Nat /\ chain[k].display \in Seq(Characters)
                            /\ Linked(chain)[k] = LinkPieces(k, chain[k].display)
<1> DEFINE m == Min({MaxShown, Len(chain)})
           L == Linked(chain)
<1>1. \A k \in 1..Len(chain) : chain[k] \in Links
  BY ElementOfSeq
<1>2. m \in Nat /\ \A k \in 1..m : k \in 1..Len(chain) /\ k \in Nat
  <2>1. PICK n \in Nat : n = Len(chain)
    BY LenProperties
  <2>2. MaxShown \in Nat
    BY RedactAssumption
  <2>3. m \in Nat /\ m = IF MaxShown <= n THEN MaxShown ELSE n
    BY <2>1, <2>2, FewerOf
  <2> HIDE DEF m
  <2>4. QED
    BY <2>1, <2>2, <2>3
<1>3. ASSUME NEW k \in 1..m
      PROVE  /\ chain[k].display \in Seq(Characters)
             /\ LinkPieces(k, chain[k].display) \in Seq(Plainly)
             /\ LinkPieces(k, chain[k].display) \in Seq(Seq(Characters))
  <2>1. chain[k].display \in Seq(Characters) /\ k \in Nat
    BY <1>1, <1>2 DEF Links, Texts
  <2>2. QED
    BY <2>1, LinkPiecesAre
<1>4. L = [k \in 1..m |-> LinkPieces(k, chain[k].display)] /\ Render(chain) = Flat(L)
  BY DEF Linked, Render, LinkPieces
<1> HIDE DEF m, L
<1>5. L \in [1..m -> Seq(Plainly)] /\ L \in [1..m -> Seq(Seq(Characters))]
  BY <1>3, <1>4
<1>6. L \in Seq(Seq(Plainly)) /\ L \in Seq(Seq(Seq(Characters))) /\ Len(L) = m
  BY <1>2, <1>5, Sequences, LenOf
<1>7. Render(chain) \in Seq(Plainly)
  BY <1>4, <1>6, FlatTyped
<1>8. /\ Render(chain) \in InPieces /\ Render(chain) \in Seq(Seq(Characters))
      /\ \A i \in 1..Len(Render(chain)) : Len(Render(chain)[i]) > 1 => Render(chain)[i][1] # "*"
  BY <1>7, PlainlyIs
<1>9. QED
  BY <1>2, <1>3, <1>4, <1>5, <1>6, <1>8 DEF m, L

\* Three texts in one.
LEMMA Grouped == \A x, y, z \in Seq(Characters) : x \o (y \o z) = (x \o y) \o z
BY ConcatAssociative

\* A text up to a place, its character, and the rest.
LEMMA AtPlace ==
  ASSUME NEW d \in Seq(Characters), NEW j \in 1..Len(d)
  PROVE  /\ SubSeq(d, 1, j - 1) \in Seq(Characters) /\ d[j] \in Characters
         /\ \E post \in Seq(Characters) : d = (SubSeq(d, 1, j - 1) \o <<d[j]>>) \o post
<1> DEFINE pre == SubSeq(d, 1, j - 1)
           one == SubSeq(d, j, j)
           post == SubSeq(d, j + 1, Len(d))
<1>1. Len(d) \in Nat /\ d[j] \in Characters /\ j \in j..Len(d) /\ j \in Nat
  BY LenProperties, ElementOfSeq
<1>2. /\ pre \in Seq(Characters) /\ one \in Seq(Characters) /\ post \in Seq(Characters)
      /\ d = (pre \o one) \o post /\ Len(one) = j - j + 1 /\ one[1] = d[j]
  <2>1. PICK b : b = j
    OBVIOUS
  <2>2. b \in j..Len(d)
    BY <1>1, <2>1
  <2>3. /\ SubSeq(d, 1, j - 1) \in Seq(Characters) /\ SubSeq(d, j, b) \in Seq(Characters)
        /\ SubSeq(d, b + 1, Len(d)) \in Seq(Characters)
        /\ d = (SubSeq(d, 1, j - 1) \o SubSeq(d, j, b)) \o SubSeq(d, b + 1, Len(d))
        /\ Len(SubSeq(d, j, b)) = b - j + 1 /\ SubSeq(d, j, b)[1] = d[j]
    BY <2>2, Parted
  <2>4. QED
    BY <2>1, <2>3
<1> HIDE DEF one, pre, post
<1>3. one = <<d[j]>>
  <2>1. Len(one) = 1
    BY <1>1, <1>2
  <2>2. \A u \in Seq(Characters) : Len(u) = 1 => u = <<u[1]>>
    OBVIOUS
  <2>3. QED
    BY <1>2, <2>1, <2>2
<1>4. QED
  BY <1>1, <1>2, <1>3 DEF pre

\* How many links a message shows, and what it shows of the first.
Shown(chain) == Min({MaxShown, Len(chain)})
UpToLink(chain, k) == Flat(First(Linked(chain), k))

\* What a message shows up to a link, and with it.
LEMMA FrontIs ==
  ASSUME NEW chain \in Seq(Links), NEW k \in 1..Shown(chain)
  PROVE  /\ UpTo(chain, k) \in Seq(Characters) /\ UpToLink(chain, k - 1) \in Seq(Characters)
         /\ UpToLink(chain, k) \in Seq(Characters)
         /\ UpTo(chain, k) = UpToLink(chain, k - 1) \o Separator(k)
         /\ Separator(k) \in Seq(Characters)
         /\ Escaped(chain[k].display, ByMessage) \in Seq(Characters)
         /\ UpToLink(chain, k) = UpTo(chain, k) \o Escaped(chain[k].display, ByMessage)
         /\ \E rest \in Seq(Characters) : Flat(Render(chain)) = UpToLink(chain, k) \o rest
<1> DEFINE L == Linked(chain)
           m == Shown(chain)
           text == Escaped(chain[k].display, ByMessage)
           S == Seq(Characters)
<1>1. /\ m \in Nat /\ Len(L) = m /\ L \in Seq(Seq(S))
      /\ Render(chain) = Flat(L)
      /\ k \in Nat /\ chain[k].display \in S /\ L[k] = LinkPieces(k, chain[k].display)
  BY LinkedIs DEF Shown
<1>2. /\ L[k] \in Seq(S) /\ Separator(k) \in S /\ text \in S /\ Flat(L[k]) = Separator(k) \o text
  BY <1>1, LinkPiecesAre
<1>3. k \in 1..Len(L) /\ k \in 0..Len(L) /\ k - 1 \in 0..Len(L)
  <2>1. k \in 1..m
    OBVIOUS
  <2> HIDE DEF m
  <2>2. QED
    BY <1>1, <2>1
<1> HIDE DEF L, text
<1>4. First(L, k - 1) \in Seq(S) /\ First(L, k) \in Seq(S) /\ First(L, k) = First(L, k - 1) \o L[k]
  BY <1>1, <1>3, FirstGrows
<1>5. PICK more \in Seq(S) : Flat(L) = First(L, k) \o more
  BY <1>1, <1>3, FirstBegins
<1> DEFINE before == First(L, k - 1)
           here == First(L, k)
<1>6. /\ Flat(before \o L[k]) = Flat(before) \o Flat(L[k])
      /\ Flat(here \o more) = Flat(here) \o Flat(more)
      /\ Flat(before) \in S /\ Flat(here) \in S /\ Flat(more) \in S
  <2> HIDE DEF before, here
  <2>1. before \in Seq(S) /\ here \in Seq(S)
    BY <1>4 DEF before, here
  <2>2. QED
    BY <1>2, <2>1, FlatConcat, FlatTyped
<1>7. Flat(before) \o (Separator(k) \o text) = (Flat(before) \o Separator(k)) \o text
  <2> DEFINE w == Flat(before)
             v == Separator(k)
  <2>1. w \in Seq(Characters) /\ v \in Seq(Characters) /\ text \in Seq(Characters)
    BY <1>2, <1>6
  <2> HIDE DEF w, v, before
  <2>2. w \o (v \o text) = (w \o v) \o text
    BY <2>1, Grouped, Zenon
  <2>3. QED
    BY <2>2 DEF w, v
<1>8. UpTo(chain, k) = Flat(before) \o Separator(k) /\ UpTo(chain, k) \in S
  <2>1. UpTo(chain, k) = Flat(before) \o Separator(k)
    BY DEF UpTo, L
  <2>2. QED
    BY <1>2, <1>6, <2>1, ConcatProperties
<1>9. UpToLink(chain, k) = Flat(here) /\ UpToLink(chain, k - 1) = Flat(before)
  BY DEF UpToLink, L
<1>10. Flat(here) = UpTo(chain, k) \o text
  BY <1>2, <1>4, <1>6, <1>7, <1>8
<1>11. Flat(Render(chain)) = Flat(here) \o Flat(more)
  BY <1>1, <1>5, <1>6
<1>12. QED
  BY <1>2, <1>6, <1>8, <1>9, <1>10, <1>11 DEF text

\* What a message shows before a place in a link is what it shows before the
\* link, and the text before the place, escaped.
LEMMA BeforeIs ==
  ASSUME NEW chain \in Seq(Links), NEW k \in 1..Shown(chain), NEW j \in 1..(Len(chain[k].display) + 1)
  PROVE  Before(chain, k, j) =
           UpTo(chain, k) \o Escaped(SubSeq(chain[k].display, 1, j - 1), ByMessage)
<1> DEFINE L == Linked(chain)
           m == Shown(chain)
           d == chain[k].display
           part == SubSeq(d, 1, j - 1)
           link == [chain[k] EXCEPT !.display = part]
           S == Seq(Characters)
<1>1. /\ m \in Nat /\ Len(L) = m /\ DOMAIN L = 1..m /\ L \in Seq(Seq(S))
      /\ \A i \in 1..m : i \in 1..Len(chain) /\ L[i] = LinkPieces(i, chain[i].display)
      /\ k \in Nat /\ d \in S /\ k \in 1..Len(chain)
  BY LinkedIs DEF Shown
<1>2. part \in S
  <2>1. Len(d) \in Nat
    BY <1>1, LenProperties
  <2>2. j - 1 \in 0..Len(d)
    BY <2>1
  <2> HIDE DEF d
  <2>3. QED
    BY <1>1, <2>2, LessOf
<1>3. link \in Links /\ link.display = part
  <2>1. chain[k] \in Links
    BY <1>1, ElementOfSeq
  <2> HIDE DEF part
  <2>2. QED
    BY <1>2, <2>1 DEF Links, Texts
<1> DEFINE first == SubSeq(chain, 1, k - 1)
           cut == Append(first, link)
<1>4. first \in Seq(Links) /\ Len(first) = k - 1 /\ \A i \in 1..(k - 1) : first[i] = chain[i]
  <2>1. Len(chain) \in Nat
    BY LenProperties
  <2>2. k - 1 \in 0..Len(chain)
    BY <1>1, <2>1
  <2>3. QED
    BY <2>2, LessOf
<1> HIDE DEF first, link, part, d
<1>5. cut \in Seq(Links) /\ Len(cut) = k /\ cut[k] = link /\ \A i \in 1..(k - 1) : cut[i] = chain[i]
  <2>1. /\ cut \in Seq(Links) /\ Len(cut) = (k - 1) + 1 /\ cut[(k - 1) + 1] = link
        /\ \A i \in 1..(k - 1) : cut[i] = first[i]
    BY <1>3, <1>4, AppendProperties
  <2>2. (k - 1) + 1 = k
    BY <1>1
  <2> HIDE DEF cut
  <2>3. QED
    BY <1>4, <2>1, <2>2
<1> HIDE DEF cut
<1>6. k \in 1..m /\ k <= MaxShown
  <2>1. MaxShown \in Nat /\ Len(chain) \in Nat
    BY RedactAssumption, LenProperties
  <2>2. m = IF MaxShown <= Len(chain) THEN MaxShown ELSE Len(chain)
    BY <2>1, FewerOf DEF Shown
  <2>3. k \in 1..m
    OBVIOUS
  <2> HIDE DEF m
  <2>4. QED
    BY <1>1, <2>1, <2>2, <2>3
<1> HIDE DEF m, L
<1>7. Min({MaxShown, Len(cut)}) = k
  <2>1. MaxShown \in Nat
    BY RedactAssumption
  <2>2. Min({MaxShown, k}) = IF MaxShown <= k THEN MaxShown ELSE k
    BY <1>1, <2>1, FewerOf
  <2>3. QED
    BY <1>1, <1>5, <1>6, <2>1, <2>2
<1>8. Linked(cut) = [i \in 1..k |-> LinkPieces(i, cut[i].display)] /\ Render(cut) = Flat(Linked(cut))
  <2>1. Linked(cut) = [i \in 1..Min({MaxShown, Len(cut)}) |-> LinkPieces(i, cut[i].display)]
    BY DEF Linked
  <2>2. QED
    BY <1>5, <1>7, <2>1, LinkedIs
<1> DEFINE less == SubSeq(L, 1, k - 1)
           last == LinkPieces(k, part)
<1>9. less \in Seq(Seq(S)) /\ Len(less) = k - 1 /\ \A i \in 1..(k - 1) : less[i] = L[i]
  <2>1. k - 1 \in 0..Len(L)
    BY <1>1, <1>6
  <2>2. QED
    BY <1>1, <2>1, LessOf
<1>10. last \in Seq(S) /\ Flat(last) = Separator(k) \o Escaped(part, ByMessage)
       /\ Separator(k) \in S /\ Escaped(part, ByMessage) \in S
  BY <1>1, <1>2, LinkPiecesAre
<1> HIDE DEF less, last
<1>11. Linked(cut) = Append(less, last)
  <2> DEFINE more == Append(less, last)
  <2>1. /\ more \in Seq(Seq(S)) /\ Len(more) = (k - 1) + 1 /\ more[(k - 1) + 1] = last
        /\ \A i \in 1..(k - 1) : more[i] = less[i]
    BY <1>9, <1>10, AppendProperties
  <2>2. (k - 1) + 1 = k
    BY <1>1
  <2>3. DOMAIN more = 1..Len(more) /\ more \in [1..Len(more) -> Seq(S)]
    BY <2>1, LenProperties
  <2> HIDE DEF more
  <2>4. DOMAIN more = 1..k /\ more = [i \in 1..k |-> more[i]]
    BY <2>1, <2>2, <2>3
  <2>5. ASSUME NEW i \in 1..k PROVE more[i] = LinkPieces(i, cut[i].display)
    <3>1. CASE i = k
      BY <1>3, <1>5, <2>1, <2>2, <3>1 DEF last
    <3>2. CASE i # k
      <4>1. i \in 1..(k - 1) /\ i \in 1..m
        BY <1>1, <1>6, <3>2
      <4>2. QED
        BY <1>1, <1>5, <1>9, <2>1, <4>1
    <3>3. QED
      BY <3>1, <3>2
  <2>6. QED
    BY <1>8, <2>4, <2>5 DEF more
<1>12. Flat(Append(less, last)) = Flat(less) \o last /\ Flat(less) \in Seq(S)
  BY <1>9, <1>10, FlatAppend, FlatTyped
<1>13. /\ Flat(Flat(less) \o last) = Flat(Flat(less)) \o Flat(last) /\ Flat(Flat(less)) \in S
  BY <1>10, <1>12, FlatConcat, FlatTyped
<1>14. Flat(Flat(less)) \o (Separator(k) \o Escaped(part, ByMessage)) =
         (Flat(Flat(less)) \o Separator(k)) \o Escaped(part, ByMessage)
  <2> DEFINE w == Flat(Flat(less))
             v == Separator(k)
             x == Escaped(part, ByMessage)
  <2>1. w \in Seq(Characters) /\ v \in Seq(Characters) /\ x \in Seq(Characters)
    BY <1>10, <1>13
  <2> HIDE DEF w, v, x
  <2>2. w \o (v \o x) = (w \o v) \o x
    BY <2>1, Grouped, Zenon
  <2>3. QED
    BY <2>2 DEF w, v, x
<1>15. UpTo(chain, k) = Flat(Flat(less)) \o Separator(k)
  BY DEF UpTo, First, less, L
<1>16. Before(chain, k, j) = Flat(Render(cut))
  BY DEF Before, cut, first, link, part, d
<1>17. QED
  BY <1>8, <1>10, <1>11, <1>12, <1>13, <1>14, <1>15, <1>16 DEF part, d

\* A text escaped, in three parts.
LEMMA EscapedAt ==
  ASSUME NEW d \in Seq(Characters), NEW j \in 1..Len(d)
  PROVE  LET pre == Escaped(SubSeq(d, 1, j - 1), ByMessage)
             here == PieceOf(d[j], ByMessage)
         IN /\ pre \in Seq(Characters) /\ here \in Seq(Characters) \ {<<>>}
            /\ \E rest \in Seq(Characters) : Escaped(d, ByMessage) = (pre \o here) \o rest
<1> DEFINE pre == SubSeq(d, 1, j - 1)
           here == PieceOf(d[j], ByMessage)
<1>1. pre \in Seq(Characters) /\ d[j] \in Characters
  BY AtPlace
<1>2. PICK post \in Seq(Characters) : d = (pre \o <<d[j]>>) \o post
  BY AtPlace
<1>3. ByMessage \in SUBSET Escapable /\ Signs \subseteq Characters
  BY EscapeIs, SignsAre
<1> HIDE DEF pre
<1>4. Append(pre, d[j]) = pre \o <<d[j]>>
  BY <1>1, AppendIsConcat
<1>5. /\ Append(pre, d[j]) \in Seq(Characters)
      /\ Escaped(Append(pre, d[j]), ByMessage) = Escaped(pre, ByMessage) \o here
  BY <1>1, <1>3, EscapedAppend
<1>6. here \in Seq(Characters) /\ here # <<>>
  BY <1>1, <1>3, PieceOfIs
<1> DEFINE more == Append(pre, d[j])
<1> HIDE DEF here
<1>7. more \in Seq(Characters) /\ Escaped(more, ByMessage) = Escaped(pre, ByMessage) \o here
  BY <1>5
<1>8. d = more \o post
  BY <1>2, <1>4
<1> HIDE DEF more
<1>9. Escaped(more \o post, ByMessage) = Escaped(more, ByMessage) \o Escaped(post, ByMessage)
  BY <1>3, <1>7, EscapedConcat
<1>10. Escaped(pre, ByMessage) \in Seq(Characters) /\ Escaped(post, ByMessage) \in Seq(Characters)
  BY <1>1, EscapedPlainly
<1>11. Escaped(d, ByMessage) = (Escaped(pre, ByMessage) \o here) \o Escaped(post, ByMessage)
  BY <1>7, <1>8, <1>9, Zenon
<1>12. QED
  BY <1>6, <1>10, <1>11 DEF pre, here

\* A message shows a link's text where the message before it ends.
LEMMA ShowsLink ==
  ASSUME NEW chain \in Seq(Links), NEW k \in 1..Shown(chain), NEW j \in 1..Len(chain[k].display)
  PROVE  LET here == PieceOf(chain[k].display[j], ByMessage) IN
         /\ Before(chain, k, j) \in Seq(Characters) /\ here \in Seq(Characters) \ {<<>>}
         /\ \E rest \in Seq(Characters) :
              UpToLink(chain, k) = (Before(chain, k, j) \o here) \o rest
<1> DEFINE d == chain[k].display
           pre == Escaped(SubSeq(d, 1, j - 1), ByMessage)
           front == UpTo(chain, k)
           here == PieceOf(d[j], ByMessage)
<1>1. d \in Seq(Characters) /\ Len(d) \in Nat
  <2>1. d \in Seq(Characters)
    BY LinkedIs DEF Shown
  <2>2. QED
    BY <2>1, LenProperties
<1>2. j \in 1..Len(d) /\ j \in 1..(Len(d) + 1)
  BY <1>1
<1>3. Before(chain, k, j) = front \o pre
  BY <1>2, BeforeIs
<1>4. front \in Seq(Characters) /\ UpToLink(chain, k) = front \o Escaped(d, ByMessage)
  BY FrontIs
<1> HIDE DEF d, front
<1>5. pre \in Seq(Characters) /\ here \in Seq(Characters) \ {<<>>}
  BY <1>1, <1>2, EscapedAt
<1>6. PICK rest \in Seq(Characters) : Escaped(d, ByMessage) = (pre \o here) \o rest
  BY <1>1, <1>2, EscapedAt
<1> HIDE DEF pre, here
<1>7. front \o ((pre \o here) \o rest) = ((front \o pre) \o here) \o rest
  <2>1. front \in Seq(Characters) /\ pre \in Seq(Characters) /\ here \in Seq(Characters)
    BY <1>4, <1>5
  <2> DEFINE both == pre \o here
  <2>2. front \o both = (front \o pre) \o here
    BY <2>1, Grouped, Zenon DEF both
  <2>3. both \in Seq(Characters)
    BY <2>1, ConcatProperties
  <2> HIDE DEF both
  <2>4. front \o (both \o rest) = (front \o both) \o rest
    BY <2>1, <2>3, Grouped, Zenon
  <2>5. QED
    BY <2>2, <2>4, Zenon DEF both
<1>8. front \o pre \in Seq(Characters)
  BY <1>4, <1>5, ConcatProperties
<1>9. UpToLink(chain, k) = (Before(chain, k, j) \o here) \o rest
  BY <1>3, <1>4, <1>6, <1>7, Zenon
<1>10. QED
  BY <1>3, <1>5, <1>8, <1>9 DEF here, d

\* Two sequences in one are no shorter than the first.
LEMMA NotLonger ==
  ASSUME NEW S, NEW s \in Seq(S), NEW t \in Seq(S)
  PROVE  Len(s) \in Nat /\ Len(s \o t) \in Nat /\ Len(s) <= Len(s \o t)
<1>1. Len(s) \in Nat /\ Len(t) \in Nat /\ Len(s \o t) = Len(s) + Len(t)
  BY Concat
<1>2. QED
  BY <1>1

\* Where a message shows a character of a link.
LEMMA ShowsAt ==
  ASSUME NEW chain \in Seq(Links), NEW k \in 1..Shown(chain), NEW j \in 1..Len(chain[k].display)
  PROVE  LET whole == Flat(Render(chain))
             before == Before(chain, k, j)
         IN /\ whole \in Seq(Characters) /\ Len(whole) \in Nat
            /\ before \in Seq(Characters) /\ Len(before) \in Nat
            /\ Len(before) + 1 <= Len(UpToLink(chain, k))
            /\ Len(UpToLink(chain, k)) \in Nat /\ Len(UpToLink(chain, k)) <= Len(whole)
            /\ \A p \in 1..Len(before) : whole[p] = before[p]
            /\ whole[Len(before) + 1] = PieceOf(chain[k].display[j], ByMessage)[1]
<1> DEFINE whole == Flat(Render(chain))
           before == Before(chain, k, j)
           here == PieceOf(chain[k].display[j], ByMessage)
           upto == UpToLink(chain, k)
<1>1. before \in Seq(Characters) /\ here \in Seq(Characters) /\ here # <<>>
  BY ShowsLink
<1>2. PICK rest \in Seq(Characters) : upto = (before \o here) \o rest
  BY ShowsLink
<1>3. upto \in Seq(Characters) /\ whole \in Seq(Characters)
  <2>1. upto \in Seq(Characters)
    BY FrontIs
  <2>2. Render(chain) \in Seq(Seq(Characters))
    BY LinkedIs
  <2>3. QED
    BY <2>1, <2>2, FlatTyped
<1>4. PICK more \in Seq(Characters) : whole = upto \o more
  BY FrontIs
<1> HIDE DEF whole, before, here, upto
<1> DEFINE both == before \o here
<1>5. /\ both \in Seq(Characters) /\ Len(before) \in Nat /\ Len(both) = Len(before) + Len(here)
      /\ Len(here) \in Nat \ {0}
      /\ \A p \in 1..Len(before) : both[p] = before[p]
      /\ \A p \in 1..Len(here) : both[Len(before) + p] = here[p]
  <2>1. Len(here) \in Nat \ {0}
    BY <1>1, EmptySeq
  <2>2. QED
    BY <1>1, <2>1, Concat
<1>6. both[Len(before) + 1] = here[1]
  BY <1>5
<1> HIDE DEF both
<1>7. /\ Len(upto) = Len(both) + Len(rest) /\ Len(rest) \in Nat
      /\ \A p \in 1..Len(both) : upto[p] = both[p]
  BY <1>2, <1>5, Concat DEF both
<1>8. /\ Len(whole) = Len(upto) + Len(more) /\ Len(more) \in Nat /\ Len(whole) \in Nat /\ Len(upto) \in Nat
      /\ \A p \in 1..Len(upto) : whole[p] = upto[p]
  BY <1>3, <1>4, Concat, LenProperties
<1>9. Len(before) + 1 <= Len(both) /\ Len(both) <= Len(upto) /\ Len(upto) <= Len(whole) /\ Len(both) \in Nat
  BY <1>5, <1>7, <1>8
<1>10. ASSUME NEW p \in 1..(Len(before) + 1) PROVE whole[p] = both[p]
  <2>1. p \in 1..Len(both) /\ p \in 1..Len(upto)
    BY <1>5, <1>8, <1>9
  <2>2. QED
    BY <1>7, <1>8, <2>1
<1>11. /\ \A p \in 1..Len(before) : whole[p] = before[p]
       /\ whole[Len(before) + 1] = here[1]
  <2>1. Len(before) + 1 \in 1..(Len(before) + 1) /\ \A p \in 1..Len(before) : p \in 1..(Len(before) + 1)
    BY <1>5
  <2>2. QED
    BY <1>5, <1>6, <1>10, <2>1
<1>12. Len(before) + 1 <= Len(upto)
  BY <1>5, <1>8, <1>9
<1>13. QED
  BY <1>1, <1>3, <1>5, <1>8, <1>9, <1>11, <1>12 DEF whole, before, here, upto

\* What is shown before a place is no longer than what is shown before a later one.
LEMMA ShownLater ==
  ASSUME NEW chain \in Seq(Links),
         NEW k \in 1..Shown(chain), NEW j \in 1..Len(chain[k].display),
         NEW l \in k..Shown(chain), NEW i \in 1..Len(chain[l].display), k = l => j <= i
  PROVE  Len(Before(chain, k, j)) <= Len(Before(chain, l, i))
<1> DEFINE L == Linked(chain)
           m == Shown(chain)
           d == chain[k].display
           S == Characters
<1>1. /\ m \in Nat /\ Len(L) = m /\ L \in Seq(Seq(Seq(S))) /\ k \in Nat /\ d \in Seq(S)
  BY LinkedIs DEF Shown
<1>2. l \in 1..m /\ k \in 1..m
  BY <1>1
<1>3. /\ Len(Before(chain, k, j)) + 1 <= Len(UpToLink(chain, k))
      /\ Before(chain, k, j) \in Seq(S) /\ Before(chain, l, i) \in Seq(S)
  BY <1>2, ShowsAt
<1>4. Len(Before(chain, k, j)) \in Nat /\ Len(Before(chain, l, i)) \in Nat
  BY <1>3, LenProperties
<1>5. CASE k # l
  <2> HIDE DEF m, L
  <2>1. l - 1 \in 0..Len(L) /\ k \in 0..(l - 1)
    BY <1>1, <1>2, <1>5
  <2>2. First(L, l - 1) \in Seq(Seq(S)) /\ First(L, k) \in Seq(Seq(S))
    <3>1. k \in 0..Len(L)
      BY <1>1, <1>2
    <3>2. QED
      BY <1>1, <2>1, <3>1, FirstGrows
  <2>3. PICK more \in Seq(Seq(S)) : First(L, l - 1) = First(L, k) \o more
    BY <1>1, <2>1, FirstsGrow
  <2> DEFINE f == First(L, k)
  <2>4. Flat(f \o more) = Flat(f) \o Flat(more) /\ Flat(f) \in Seq(S) /\ Flat(more) \in Seq(S)
    <3>1. f \in Seq(Seq(S))
      BY <2>2
    <3> HIDE DEF f
    <3>2. QED
      BY <3>1, FlatConcat, FlatTyped
  <2>5. UpToLink(chain, k) = Flat(f) /\ UpToLink(chain, l - 1) = Flat(f) \o Flat(more)
    BY <2>3, <2>4 DEF UpToLink, L
  <2> HIDE DEF f
  <2>6. /\ Len(UpToLink(chain, k)) \in Nat /\ Len(UpToLink(chain, l - 1)) \in Nat
        /\ Len(UpToLink(chain, k)) <= Len(UpToLink(chain, l - 1))
    BY <2>4, <2>5, NotLonger
  <2>7. /\ UpTo(chain, l) \in Seq(S) /\ UpToLink(chain, l - 1) \in Seq(S) /\ Separator(l) \in Seq(S)
        /\ UpTo(chain, l) = UpToLink(chain, l - 1) \o Separator(l)
    BY <1>2, FrontIs DEF m
  <2>8. Len(UpTo(chain, l)) \in Nat /\ Len(UpToLink(chain, l - 1)) <= Len(UpTo(chain, l))
    BY <2>7, NotLonger
  <2> DEFINE e == chain[l].display
             part == SubSeq(e, 1, i - 1)
  <2>9. e \in Seq(S) /\ Len(e) \in Nat
    <3>1. e \in Seq(S)
      BY <1>2, LinkedIs DEF Shown, m
    <3>2. QED
      BY <3>1, LenProperties
  <2>10. i \in 1..(Len(e) + 1)
    BY <2>9
  <2>11. Before(chain, l, i) = UpTo(chain, l) \o Escaped(part, ByMessage)
    BY <1>2, <2>10, BeforeIs DEF m
  <2>12. Escaped(part, ByMessage) \in Seq(S)
    <3>1. part \in Seq(S)
      BY <2>9, AtPlace
    <3>2. QED
      BY <3>1, EscapedPlainly
  <2>13. Len(UpTo(chain, l)) <= Len(Before(chain, l, i))
    BY <2>7, <2>11, <2>12, NotLonger
  <2>14. QED
    BY <1>3, <1>4, <2>6, <2>8, <2>13
<1>6. CASE k = l
  <2>1. j <= i /\ i \in 1..Len(d) /\ Len(d) \in Nat /\ j \in 1..Len(d)
    BY <1>1, <1>6, LenProperties
  <2> HIDE DEF d
  <2> DEFINE pre == SubSeq(d, 1, j - 1)
             mid == SubSeq(d, j, i - 1)
  <2>2. \A p \in 1..Len(d) : d[p] \in S
    BY <1>1, ElementOfSeq
  <2>3. pre \in Seq(S) /\ mid \in Seq(S)
    <3>1. (\A p \in 1..(j - 1) : d[p] \in S) /\ \A p \in j..(i - 1) : d[p] \in S
      BY <2>1, <2>2
    <3>2. QED
      BY <2>1, <3>1, SubSeqProperties
  <2>4. pre \o mid = SubSeq(d, 1, i - 1)
    <3>1. 1 \in 1..(Len(d) + 1) /\ j - 1 \in (1 - 1)..Len(d) /\ i - 1 \in (j - 1)..Len(d) /\ (j - 1) + 1 = j
      BY <2>1
    <3>2. SubSeq(d, 1, j - 1) \o SubSeq(d, (j - 1) + 1, i - 1) = SubSeq(d, 1, i - 1)
      BY <1>1, <3>1, ConcatAdjacentSubSeq
    <3>3. QED
      BY <3>1, <3>2
  <2> HIDE DEF pre, mid
  <2>5. ByMessage \in SUBSET Escapable /\ Signs \subseteq Characters
    BY EscapeIs, SignsAre
  <2>6. Escaped(pre \o mid, ByMessage) = Escaped(pre, ByMessage) \o Escaped(mid, ByMessage)
    BY <2>3, <2>5, EscapedConcat, SMTT(60)
  <2> DEFINE front == UpTo(chain, k)
             one == Escaped(pre, ByMessage)
             two == Escaped(mid, ByMessage)
  <2>7. one \in Seq(S) /\ two \in Seq(S)
    BY <2>3, EscapedPlainly
  <2>8. front \in Seq(S)
    BY FrontIs
  <2>9. j \in 1..(Len(d) + 1) /\ i \in 1..(Len(d) + 1)
    BY <2>1
  <2>10. Before(chain, k, j) = front \o one /\ Before(chain, k, i) = front \o (one \o two)
    <3>1. /\ Before(chain, k, j) = front \o Escaped(SubSeq(d, 1, j - 1), ByMessage)
          /\ Before(chain, k, i) = front \o Escaped(SubSeq(d, 1, i - 1), ByMessage)
      BY <2>9, BeforeIs DEF d
    <3>2. QED
      BY <2>4, <2>6, <3>1 DEF pre
  <2> HIDE DEF front, one, two
  <2>11. front \o (one \o two) = (front \o one) \o two
    BY <2>7, <2>8, Grouped, Zenon
  <2>12. front \o one \in Seq(S)
    BY <2>7, <2>8, ConcatProperties
  <2> DEFINE both == front \o one
  <2>13. both \in Seq(S) /\ Before(chain, k, j) = both /\ Before(chain, l, i) = both \o two
    BY <1>6, <2>10, <2>11, <2>12
  <2> HIDE DEF both
  <2>14. QED
    BY <2>7, <2>13, NotLonger
<1>7. QED
  BY <1>5, <1>6

\* Chains that show the same up to a place.
LEMMA SameBefore ==
  ASSUME NEW chain \in Seq(Links), NEW copy \in Seq(Links), Shown(copy) = Shown(chain),
         NEW k \in 1..Shown(chain), \A i \in 1..(k - 1) : copy[i].display = chain[i].display,
         NEW j \in 1..(Len(chain[k].display) + 1), j \in 1..(Len(copy[k].display) + 1),
         SubSeq(copy[k].display, 1, j - 1) = SubSeq(chain[k].display, 1, j - 1)
  PROVE  Before(copy, k, j) = Before(chain, k, j)
<1> DEFINE m == Shown(chain)
           S == Seq(Seq(Characters))
           A == Linked(chain)
           B == Linked(copy)
<1>1. /\ m \in Nat /\ A \in Seq(S) /\ B \in Seq(S) /\ Len(A) = m /\ Len(B) = m
      /\ \A i \in 1..m : A[i] = LinkPieces(i, chain[i].display)
      /\ \A i \in 1..m : B[i] = LinkPieces(i, copy[i].display)
  BY LinkedIs DEF Shown
<1>2. k \in Nat /\ k \in 1..m /\ k \in 1..Shown(copy) /\ k - 1 \in 0..m /\ \A i \in 1..(k - 1) : i \in 1..m
  BY <1>1
<1> HIDE DEF A, B, m
<1> DEFINE a == SubSeq(A, 1, k - 1)
           b == SubSeq(B, 1, k - 1)
<1>3. /\ a \in Seq(S) /\ Len(a) = k - 1 /\ \A i \in 1..(k - 1) : a[i] = A[i]
      /\ b \in Seq(S) /\ Len(b) = k - 1 /\ \A i \in 1..(k - 1) : b[i] = B[i]
  BY <1>1, <1>2, LessOf
<1>4. a = b
  <2>1. \A i \in 1..(k - 1) : a[i] = b[i]
    BY <1>1, <1>2, <1>3
  <2> HIDE DEF a, b
  <2>2. DOMAIN a = 1..(k - 1) /\ DOMAIN b = 1..(k - 1)
    BY <1>3, LenProperties
  <2>3. a \in [1..(k - 1) -> S] /\ b \in [1..(k - 1) -> S]
    BY <1>3, LenProperties
  <2>4. QED
    BY <2>1, <2>3
<1>5. UpTo(copy, k) = UpTo(chain, k)
  BY <1>4 DEF UpTo, First, A, B, a, b
<1>6. /\ Before(chain, k, j) = UpTo(chain, k) \o Escaped(SubSeq(chain[k].display, 1, j - 1), ByMessage)
      /\ Before(copy, k, j) = UpTo(copy, k) \o Escaped(SubSeq(copy[k].display, 1, j - 1), ByMessage)
  BY <1>2, BeforeIs
<1>7. QED
  BY <1>5, <1>6

-----------------------------------------------------------------------------
(* Where the message of a copy parts from that of its chain. *)

\* Two texts that agree up to a place, and part with a star.
Agree(u, text, n) == \A p \in 1..n : u[p] = text[p]
Parting(text, copied, b) == Agree(text, copied, b) /\ text[b + 1] # "*" /\ copied[b + 1] = "*"
\* What is left of a text that was searched.
Searched(u, text, forms) ==
  \/ u = text /\ ~OccurIn(forms, text)
  \/ \E s \in Nat \ {0} : Begins(u, text, forms, s)
\* Two chains whose first links print the same.
SameLinks(copy, chain, n) == \A i \in 1..n : copy[i].display = chain[i].display

\* What a searched text shows of another that parts from it with a star.
LEMMA NotPast ==
  ASSUME NEW forms, NEW T, NEW copied, NEW u, NEW b \in Nat, NEW n \in Nat \ {0},
         Agree(u, T, n), Parting(T, copied, b), Searched(u, copied, forms)
  PROVE  n <= b
<1>0. /\ \A p \in 1..n : u[p] = T[p]
      /\ \A p \in 1..b : T[p] = copied[p]
      /\ T[b + 1] # "*" /\ copied[b + 1] = "*"
      /\ u = copied \/ \E s \in Nat \ {0} : Begins(u, copied, forms, s)
  BY DEF Agree, Parting, Searched
<1>1. SUFFICES ASSUME b + 1 <= n PROVE FALSE
  OBVIOUS
<1>2. b + 1 \in 1..n
  BY <1>1
<1>3. u[b + 1] # "*"
  BY <1>0, <1>2
<1>4. CASE u = copied
  BY <1>0, <1>3, <1>4
<1>5. ASSUME NEW s \in Nat \ {0}, Begins(u, copied, forms, s) PROVE FALSE
  <2>1. u[s] = "*" /\ copied[s] # "*" /\ \A p \in 1..(s - 1) : u[p] = copied[p]
    BY <1>5 DEF Begins
  <2>2. s # b + 1
    BY <1>0, <2>1
  <2>3. CASE s <= b
    <3>1. s \in 1..b /\ s \in 1..n
      BY <1>1, <2>3
    <3>2. QED
      BY <1>0, <2>1, <3>1
  <2>4. CASE s > b + 1
    <3>1. b + 1 \in 1..(s - 1)
      BY <2>4
    <3>2. QED
      BY <1>0, <1>3, <2>1, <3>1
  <2>5. QED
    BY <2>2, <2>3, <2>4
<1>6. QED
  BY <1>0, <1>4, <1>5

\* A copy shows as many links as its chain, and they part where the first secret is.
LEMMA CopiedIs ==
  ASSUME NEW forms, NEW chain \in Seq(Links), NEW copy \in Seq(Links), copy = Copied(forms, chain)
  PROVE  /\ Shown(copy) = Shown(chain) /\ Shown(chain) \in Nat
         /\ \A i \in 1..Shown(chain) :
              /\ copy[i].display = RedactText(forms, chain[i].display)
              /\ chain[i].display \in Seq(Characters) /\ copy[i].display \in Seq(Characters)
<1>1. Len(chain) \in Nat /\ MaxShown \in Nat /\ MaxScanned \in Nat /\ MaxShown <= MaxScanned
  BY LenProperties, RedactAssumption
<1> DEFINE n == Len(chain)
           c == Min({MaxScanned, n})
<1>2. c \in Nat /\ c = (IF MaxScanned <= n THEN MaxScanned ELSE n)
  BY <1>1, FewerOf
<1>3. copy = [i \in 1..c |-> RedactedLink(forms, chain[i])]
  BY DEF Copied
<1>4. Len(copy) = c
  <2> HIDE DEF c
  <2>1. DOMAIN copy = 1..c /\ DOMAIN copy = 1..Len(copy) /\ copy \in [1..Len(copy) -> Links]
    BY <1>3, LenProperties
  <2>2. copy \in [1..c -> Links]
    BY <2>1
  <2>3. QED
    BY <1>2, <2>2, LenOf
<1> HIDE DEF c, n
<1>5. n \in Nat
  BY <1>1 DEF n
<1>6. /\ Min({MaxShown, c}) = IF MaxShown <= c THEN MaxShown ELSE c
      /\ Min({MaxShown, n}) = IF MaxShown <= n THEN MaxShown ELSE n
  BY <1>1, <1>2, <1>5, FewerOf
<1>7. Min({MaxShown, c}) = Min({MaxShown, n})
  BY <1>1, <1>2, <1>5, <1>6
<1>8. Shown(copy) = Shown(chain) /\ Shown(chain) = Min({MaxShown, c})
  BY <1>4, <1>7 DEF Shown, n
<1>9. Min({MaxShown, c}) \in Nat /\ \A i \in 1..Min({MaxShown, c}) : i \in 1..c
  <2>1. PICK v : v = Min({MaxShown, c})
    OBVIOUS
  <2>2. v \in Nat /\ v <= c
    BY <1>1, <1>2, <1>6, <2>1
  <2>3. v \in Nat /\ \A i \in 1..v : i \in 1..c
    BY <1>2, <2>2
  <2>4. QED
    BY <2>1, <2>3, Zenon
<1>10. \A i \in 1..c : copy[i].display = RedactText(forms, chain[i].display)
  BY <1>3 DEF RedactedLink
<1>11. \A i \in 1..Shown(chain) : chain[i].display \in Seq(Characters) /\ copy[i].display \in Seq(Characters)
  BY <1>8, LinkedIs DEF Shown
<1>12. QED
  BY <1>8, <1>9, <1>10, <1>11

\* The message of a copy parts from that of its chain where the first secret of
\* the first link that was changed is: there it has a star.
LEMMA PartsAt ==
  ASSUME NEW forms, forms \subseteq Written, NEW chain \in Seq(Links), NEW copy \in Seq(Links),
         copy = Copied(forms, chain), NEW k \in 1..Shown(chain), NEW s \in 1..Len(chain[k].display),
         Begins(copy[k].display, chain[k].display, forms, s),
         SameLinks(copy, chain, k - 1)
  PROVE  /\ Len(Before(chain, k, s)) \in Nat
         /\ Parting(Flat(Render(chain)), Flat(Render(copy)), Len(Before(chain, k, s)))
<1> DEFINE d == chain[k].display
           e == copy[k].display
           b == Len(Before(chain, k, s))
           whole == Flat(Render(chain))
           copied == Flat(Render(copy))
<1>1. Shown(copy) = Shown(chain) /\ d \in Seq(Characters) /\ e \in Seq(Characters)
  BY CopiedIs
<1>2. Len(d) \in Nat /\ Len(e) \in Nat /\ s \in 1..Len(d)
  BY <1>1, LenProperties
<1>3. s <= Len(e) /\ e[s] = "*" /\ d[s] # "*" /\ \A p \in 1..(s - 1) : e[p] = d[p]
  BY DEF Begins
<1> HIDE DEF d, e
<1>4. s \in 1..Len(e) /\ s \in 1..(Len(d) + 1) /\ s \in 1..(Len(e) + 1) /\ s \in Nat
  BY <1>2, <1>3
<1>5. SubSeq(e, 1, s - 1) = SubSeq(d, 1, s - 1)
  <2> DEFINE x == SubSeq(e, 1, s - 1)
             y == SubSeq(d, 1, s - 1)
  <2>1. s - 1 \in 0..Len(e) /\ s - 1 \in 0..Len(d)
    BY <1>2, <1>4
  <2>2. /\ x \in Seq(Characters) /\ Len(x) = s - 1 /\ \A i \in 1..(s - 1) : x[i] = e[i]
        /\ y \in Seq(Characters) /\ Len(y) = s - 1 /\ \A i \in 1..(s - 1) : y[i] = d[i]
    BY <1>1, <2>1, LessOf
  <2> HIDE DEF x, y
  <2>3. x \in [1..(s - 1) -> Characters] /\ y \in [1..(s - 1) -> Characters]
    BY <2>2, LenProperties
  <2>4. x = y
    BY <1>3, <2>2, <2>3
  <2>5. QED
    BY <2>4 DEF x, y
<1>6. Before(copy, k, s) = Before(chain, k, s)
  BY <1>1, <1>4, <1>5, SameBefore DEF d, e, SameLinks
<1>7. /\ b \in Nat
      /\ \A p \in 1..b : whole[p] = Before(chain, k, s)[p]
      /\ whole[b + 1] = PieceOf(d[s], ByMessage)[1]
  BY ShowsAt DEF d
<1>8. /\ \A p \in 1..Len(Before(copy, k, s)) : copied[p] = Before(copy, k, s)[p]
      /\ copied[Len(Before(copy, k, s)) + 1] = PieceOf(e[s], ByMessage)[1]
  <2>1. k \in 1..Shown(copy) /\ s \in 1..Len(copy[k].display)
    BY <1>1, <1>4 DEF e
  <2>2. QED
    BY <2>1, ShowsAt DEF e
<1> HIDE DEF b, whole, copied
<1>9. /\ \A p \in 1..b : copied[p] = Before(chain, k, s)[p]
      /\ copied[b + 1] = PieceOf(e[s], ByMessage)[1]
  BY <1>6, <1>8 DEF b
<1>10. ByMessage \in SUBSET Escapable /\ Signs \subseteq Characters /\ "*" \in Characters
  BY EscapeIs, SignsAre, RedactAssumption
<1>11. PieceOf("*", ByMessage)[1] = "*"
  <2>1. "*" \notin ByMessage
    BY DEF ByMessage
  <2>2. QED
    BY <1>10, <2>1, PieceOfIs
<1>12. PieceOf(d[s], ByMessage)[1] # "*"
  <2>1. d[s] \in Characters
    BY <1>1, <1>2, ElementOfSeq
  <2>2. PieceOf(d[s], ByMessage)[1] \in {d[s], "backslash"}
    <3> DEFINE c == d[s]
    <3>1. c \in Characters
      BY <2>1
    <3> HIDE DEF c
    <3>2. PieceOf(c, ByMessage)[1] \in {c, "backslash"}
      BY <1>10, <3>1, PieceOfIs
    <3>3. QED
      BY <3>2 DEF c
  <2>3. QED
    BY <1>3, <2>2
<1>13. \A p \in 1..b : whole[p] = copied[p]
  BY <1>7, <1>9
<1>14. whole[b + 1] # "*" /\ copied[b + 1] = "*"
  BY <1>3, <1>7, <1>9, <1>11, <1>12
<1>15. b \in Nat /\ Parting(whole, copied, b)
  BY <1>7, <1>13, <1>14 DEF Parting, Agree
<1>16. QED
  BY <1>15 DEF b, whole, copied

-----------------------------------------------------------------------------
(* What a message made anew hides. *)

\* The message made from a copy of a chain.
MadeOf(forms, copy) == Cut(RedactPieces(forms, Render(copy)))

\* The message of a copy spells no form.
LEMMA MadeHides ==
  ASSUME NEW forms, forms \subseteq Written, NEW copy \in Seq(Links)
  PROVE  MadeOf(forms, copy) \in Seq(Characters) /\ ~OccurIn(forms, MadeOf(forms, copy))
<1>1. Render(copy) \in InPieces
  BY LinkedIs
<1>2. RedactPieces(forms, Render(copy)) \in Seq(Seq(Characters))
  BY <1>1, ShownGrows
<1>3. ~OccurIn(forms, Flat(RedactPieces(forms, Render(copy))))
  BY <1>1, RedactedHides
<1>4. QED
  BY <1>2, <1>3, CutHides DEF MadeOf

\* Of a text that it shows up to some place.
Found(forms, copy) == Flat(RedactPieces(forms, Render(copy)))

\* A message that shows a text up to some place agrees with it there.
LEMMA MadeShows ==
  ASSUME NEW forms, forms \subseteq Written, NEW copy \in Seq(Links), NEW text \in Seq(Characters),
         NEW n \in 1..Len(text), ShowsUpto(MadeOf(forms, copy), text, n)
  PROVE  /\ n \in Nat \ {0} /\ Agree(Found(forms, copy), text, n)
         /\ Searched(Found(forms, copy), Flat(Render(copy)), forms)
<1> DEFINE pieces == RedactPieces(forms, Render(copy))
           copied == Flat(Render(copy))
<1>1. /\ Render(copy) \in InPieces /\ Render(copy) \in Seq(Seq(Characters))
      /\ \A i \in 1..Len(Render(copy)) : Len(Render(copy)[i]) > 1 => Render(copy)[i][1] # "*"
  BY LinkedIs
<1>2. pieces \in Seq(Seq(Characters))
  BY <1>1, ShownGrows
<1>3. Len(copied) \in Nat
  <2>1. copied \in Seq(Characters)
    BY <1>1, FlatTyped
  <2> HIDE DEF copied
  <2>2. QED
    BY <2>1, LenProperties
<1>4. \/ Flat(pieces) = copied /\ ~OccurIn(forms, copied)
      \/ \E s \in 1..Len(copied) : Begins(Flat(pieces), copied, forms, s)
  BY <1>1, RedactBegins
<1>5. ShowsUpto(Cut(pieces), text, n)
  BY DEF MadeOf
<1>6. Found(forms, copy) = Flat(pieces)
  BY DEF Found
<1> HIDE DEF pieces, copied
<1>7. \A p \in 1..n : Flat(pieces)[p] = text[p]
  BY <1>2, <1>5, CutShows
<1>8. n \in Nat \ {0}
  BY LenProperties
<1>9. Searched(Flat(pieces), copied, forms)
  BY <1>3, <1>4 DEF Searched
<1>10. QED
  BY <1>6, <1>7, <1>8, <1>9 DEF Agree, copied

\* A message that was cut shows no part of a secret.
LEMMA MadeEnds ==
  ASSUME NEW forms, forms \subseteq Written, NEW chain \in Seq(Links), NEW copy \in Seq(Links),
         copy = Copied(forms, chain), NEW n \in 1..Len(Flat(Render(chain))),
         ShowsUpto(MadeOf(forms, copy), Flat(Render(chain)), n),
         NEW form \in forms, NEW k \in 1..Shown(chain), NEW j \in 1..Len(chain[k].display),
         OccursAt(form, chain[k].display, j)
  PROVE  n <= Len(Before(chain, k, j))
<1> DEFINE m == Shown(chain)
           whole == Flat(Render(chain))
           copied == Flat(Render(copy))
           u == Found(forms, copy)
           changed == {i \in 1..m : copy[i].display # chain[i].display}
<1>1. /\ m \in Nat
      /\ \A i \in 1..m : /\ copy[i].display = RedactText(forms, chain[i].display)
                         /\ chain[i].display \in Seq(Characters)
  BY CopiedIs
<1>2. ASSUME NEW i \in 1..m
      PROVE  \/ copy[i].display = chain[i].display /\ ~OccurIn(forms, chain[i].display)
             \/ \E s \in 1..Len(chain[i].display) : Begins(copy[i].display, chain[i].display, forms, s)
  BY <1>1, RedactedText
<1>3. OccurIn(forms, chain[k].display)
  <2>1. DOMAIN chain[k].display = 1..Len(chain[k].display)
    BY <1>1, LenProperties
  <2>2. QED
    BY <2>1 DEF OccurIn
<1> HIDE DEF m
<1>4. k \in 1..m
  BY DEF m
<1>5. k \in changed
  <2>1. PICK s \in 1..Len(chain[k].display) : Begins(copy[k].display, chain[k].display, forms, s)
    BY <1>2, <1>3, <1>4
  <2>2. copy[k].display # chain[k].display
    BY <2>1 DEF Begins
  <2>3. QED
    BY <1>4, <2>2
<1>6. PICK l \in changed : \A i \in changed : l <= i
  <2>1. changed \in SUBSET Nat /\ changed # {}
    <3>1. changed \subseteq 1..m /\ 1..m \subseteq Nat
      BY <1>1
    <3>2. QED
      BY <1>5, <3>1, Zenon
  <2> HIDE DEF changed
  <2>2. QED
    BY <2>1, Least
<1>7. l \in 1..m /\ l <= k /\ l \in Nat /\ copy[l].display # chain[l].display
  BY <1>1, <1>5, <1>6
<1>8. ASSUME NEW i \in 1..(l - 1) PROVE copy[i].display = chain[i].display
  <2>1. i \in 1..m /\ ~(l <= i)
    BY <1>1, <1>7
  <2>2. i \notin changed
    BY <1>6, <2>1
  <2>3. QED
    BY <2>1, <2>2
<1> HIDE DEF changed
<1>9. PICK s \in 1..Len(chain[l].display) : Begins(copy[l].display, chain[l].display, forms, s)
  BY <1>2, <1>7
<1> DEFINE b == Len(Before(chain, l, s))
<1>10. b \in Nat /\ Parting(whole, copied, b)
  <2>1. l \in 1..Shown(chain)
    BY <1>7 DEF m
  <2>2. Begins(copy[l].display, chain[l].display, forms, s) /\ s \in 1..Len(chain[l].display)
    BY <1>9
  <2>3. SameLinks(copy, chain, l - 1)
    BY <1>8 DEF SameLinks
  <2>4. QED
    BY <2>1, <2>2, <2>3, PartsAt
<1>11. l = k => s <= j
  <2>1. SUFFICES ASSUME l = k, ~(s <= j) PROVE FALSE
    OBVIOUS
  <2>2. Len(chain[k].display) \in Nat
    BY <1>1, <1>4, LenProperties
  <2>3. j \in 1..(s - 1)
    BY <1>9, <2>1, <2>2
  <2>4. ~OccursAt(form, chain[l].display, j)
    BY <1>9, <2>3 DEF Begins
  <2>5. QED
    BY <2>1, <2>4
<1>12. b <= Len(Before(chain, k, j)) /\ Len(Before(chain, k, j)) \in Nat
  <2>1. l \in 1..Shown(chain) /\ k \in l..Shown(chain)
    BY <1>1, <1>4, <1>7 DEF m
  <2>2. b <= Len(Before(chain, k, j))
    BY <1>9, <1>11, <2>1, ShownLater
  <2>3. Len(Before(chain, k, j)) \in Nat
    BY ShowsAt
  <2>4. QED
    BY <2>2, <2>3
<1>13. whole \in Seq(Characters)
  <2>1. Render(chain) \in Seq(Seq(Characters))
    BY LinkedIs
  <2>2. QED
    BY <2>1, FlatTyped
<1>14. n \in Nat \ {0} /\ Agree(u, whole, n) /\ Searched(u, copied, forms)
  BY <1>13, MadeShows
<1> HIDE DEF u, whole, copied, b
<1>15. n <= b
  BY <1>10, <1>14, NotPast
<1>16. QED
  BY <1>10, <1>12, <1>14, <1>15

\* Nor does it show one of the copy, whose links may spell one only together.
LEMMA CopyEnds ==
  ASSUME NEW forms, forms \subseteq Written, NEW copy \in Seq(Links),
         NEW n \in 1..Len(Flat(Render(copy))),
         ShowsUpto(MadeOf(forms, copy), Flat(Render(copy)), n),
         NEW form \in forms, NEW i \in 1..n
  PROVE  ~OccursAt(form, Flat(Render(copy)), i)
<1> DEFINE copied == Flat(Render(copy))
           u == Found(forms, copy)
<1>1. copied \in Seq(Characters)
  <2>1. Render(copy) \in Seq(Seq(Characters))
    BY LinkedIs
  <2>2. QED
    BY <2>1, FlatTyped
<1>2. n \in Nat \ {0} /\ Agree(u, copied, n) /\ Searched(u, copied, forms)
  BY <1>1, MadeShows
<1> HIDE DEF u, copied
<1>3. CASE u = copied /\ ~OccurIn(forms, copied)
  <2>1. i \in DOMAIN copied
    <3>1. DOMAIN copied = 1..Len(copied) /\ Len(copied) \in Nat /\ n \in 1..Len(copied)
      BY <1>1, LenProperties DEF copied
    <3>2. QED
      BY <3>1
  <2>2. QED
    BY <1>2, <1>3, <2>1 DEF OccurIn, copied
<1>4. ASSUME NEW s \in Nat \ {0}, Begins(u, copied, forms, s) PROVE ~OccursAt(form, copied, i)
  <2>1. /\ u[s] = "*" /\ copied[s] # "*"
        /\ \A p \in 1..(s - 1) : ~OccursAt(form, copied, p)
    BY <1>4 DEF Begins
  <2>2. ~(s \in 1..n)
    BY <1>2, <2>1 DEF Agree
  <2>3. i \in 1..(s - 1)
    BY <1>2, <2>2
  <2>4. QED
    BY <2>1, <2>3
<1>5. QED
  BY <1>2, <1>3, <1>4 DEF copied, Searched

\* What stands for a message that cannot be told spells nothing.
LEMMA WithheldHides ==
  ASSUME NEW forms, forms \subseteq Written, <<"quote">> \notin forms
  PROVE  /\ Withheld \in Seq(Characters)
         /\ ~OccurIn(forms, Withheld) /\ ~OccurIn(forms, Debug(Withheld))
<1>1. /\ "withheld" \in Characters /\ "withheld" \notin Writing /\ "quote" \in Characters
      /\ <<>> \in Seq(Characters) /\ Signs \subseteq Characters /\ ByDebug \in SUBSET Escapable
  BY RedactAssumption, EmptySeq, SignsAre, EscapeIs DEF Writing
<1>2. ~OccurIn(forms, <<>>)
  BY DEF OccurIn
<1>3. ~OccurIn(forms, Withheld) /\ Withheld \in Seq(Characters)
  <2>1. ~OccurIn(forms, <<>> \o <<"withheld">>)
    BY <1>1, <1>2, NotMarked
  <2>2. <<>> \o <<"withheld">> = Withheld /\ Withheld \in Seq(Characters)
    BY <1>1 DEF Withheld
  <2>3. QED
    BY <2>1, <2>2
<1>4. Escaped(Withheld, ByDebug) = <<"withheld">>
  <2>1. Append(<<>>, "withheld") = Withheld
    BY DEF Withheld
  <2>2. Escaped(Append(<<>>, "withheld"), ByDebug) = Escaped(<<>>, ByDebug) \o PieceOf("withheld", ByDebug)
    <3>1. PICK none \in Seq(Characters) : none = <<>>
      BY <1>1
    <3>2. PICK c \in Characters : c = "withheld"
      BY <1>1
    <3>3. Escaped(Append(none, c), ByDebug) = Escaped(none, ByDebug) \o PieceOf(c, ByDebug)
      BY <1>1, <3>1, <3>2, EscapedAppend
    <3>4. QED
      BY <3>1, <3>2, <3>3
  <2>3. PieceOf("withheld", ByDebug) = <<"withheld">>
    BY DEF PieceOf, ByDebug
  <2>4. Escaped(<<>>, ByDebug) = <<>>
    BY EscapedNothing
  <2>5. <<>> \o <<"withheld">> = <<"withheld">>
    OBVIOUS
  <2>6. QED
    BY <2>1, <2>2, <2>3, <2>4, <2>5
<1> DEFINE u == Debug(Withheld)
<1>5. u = <<"quote">> \o <<"withheld">> \o <<"quote">>
  BY <1>4 DEF Debug
<1> HIDE DEF u
<1>6. Len(u) = 3 /\ DOMAIN u = 1..3 /\ u[1] = "quote" /\ u[2] = "withheld" /\ u[3] = "quote"
  <2>1. /\ <<"quote">> \in Seq(Characters) /\ Len(<<"quote">>) = 1 /\ <<"quote">>[1] = "quote"
        /\ <<"withheld">> \in Seq(Characters) /\ Len(<<"withheld">>) = 1 /\ <<"withheld">>[1] = "withheld"
    BY <1>1
  <2> DEFINE q == <<"quote">>
             w == <<"withheld">>
             both == q \o w
  <2>2. q \in Seq(Characters) /\ w \in Seq(Characters) /\ Len(q) = 1 /\ Len(w) = 1
        /\ q[1] = "quote" /\ w[1] = "withheld" /\ u = both \o q
    BY <1>5, <2>1
  <2> HIDE DEF q, w
  <2>3. /\ both \in Seq(Characters) /\ Len(both) = Len(q) + Len(w)
        /\ \A i \in 1..Len(q) : both[i] = q[i]
        /\ \A i \in 1..Len(w) : both[Len(q) + i] = w[i]
    BY <2>2, Concat
  <2> HIDE DEF both
  <2>4. Len(both) = 2 /\ both[1] = "quote" /\ both[2] = "withheld"
    BY <2>2, <2>3
  <2>5. /\ Len(u) = Len(both) + Len(q) /\ DOMAIN u = 1..(Len(both) + Len(q))
        /\ \A i \in 1..Len(both) : u[i] = both[i]
        /\ \A i \in 1..Len(q) : u[Len(both) + i] = q[i]
    BY <2>2, <2>3, Concat
  <2>6. QED
    BY <2>2, <2>4, <2>5
<1>7. ASSUME NEW form \in forms, NEW i \in 1..3, OccursAt(form, u, i) PROVE FALSE
  <2>1. PICK l \in Nat \ {0} : l = Len(form) /\ DOMAIN form = 1..l
    BY WrittenAre
  <2>2. \A k \in 1..l : form[k] \in Writing
    BY <2>1, WrittenAre DEF Writing
  <2>3. i + l <= 4 /\ \A k \in 1..l : u[i + k - 1] = form[k]
    BY <1>6, <1>7, <2>1 DEF OccursAt
  <2>4. ASSUME NEW k \in 1..l PROVE i + k - 1 # 2
    BY <1>1, <1>6, <2>2, <2>3
  <2>5. i # 2
    <3>1. 1 \in 1..l /\ i + 1 - 1 = i
      BY <2>1
    <3>2. QED
      BY <2>4, <3>1
  <2>6. l = 1
    <3>1. SUFFICES ASSUME l # 1 PROVE FALSE
      OBVIOUS
    <3>2. i = 1 /\ 2 \in 1..l
      BY <2>1, <2>3, <2>5, <3>1
    <3>3. i + 2 - 1 = 2
      BY <3>2
    <3>4. QED
      BY <2>4, <3>2, <3>3
  <2>7. form[1] = "quote"
    <3>1. 1 \in 1..l /\ i + 1 - 1 = i /\ (i = 1 \/ i = 3)
      BY <2>1, <2>5
    <3>2. QED
      BY <1>6, <2>3, <3>1
  <2>8. form = <<"quote">>
    <3>1. form \in Seq(Characters)
      BY WrittenAre
    <3>2. \A x \in Seq(Characters) : Len(x) = 1 => x = <<x[1]>>
      OBVIOUS
    <3>3. QED
      BY <2>1, <2>6, <2>7, <3>1, <3>2
  <2>9. QED
    BY <2>8
<1>8. ~OccurIn(forms, u)
  BY <1>6, <1>7 DEF OccurIn
<1>9. QED
  BY <1>3, <1>8 DEF u

\* It shows no text up to some place.
LEMMA WithheldIsWhole ==
  ASSUME NEW text \in Seq(Characters), NEW n \in 1..Len(text)
  PROVE  ~ShowsUpto(Withheld, text, n)
<1>1. SUFFICES ASSUME ShowsUpto(Withheld, text, n) PROVE FALSE
  OBVIOUS
<1> DEFINE part == SubSeq(text, 1, n)
<1>2. part \in Seq(Characters) /\ Len(part) = n /\ n \in Nat /\ n >= 1
  <2>1. Len(text) \in Nat
    BY LenProperties
  <2>2. n \in 0..Len(text) /\ n \in Nat /\ n >= 1
    BY <2>1
  <2>3. QED
    BY <2>2, LessOf
<1> HIDE DEF part
<1>3. Withheld = part \o Ellipsis
  BY <1>1 DEF ShowsUpto, part
<1>4. Len(part \o Ellipsis) = n + 1
  <2>1. Ellipsis \in Seq(Characters) /\ Len(Ellipsis) = 1
    BY MarkIs DEF Ellipsis
  <2>2. Len(part \o Ellipsis) = Len(part) + Len(Ellipsis)
    BY <1>2, <2>1, Concat
  <2>3. QED
    BY <1>2, <2>1, <2>2
<1>5. Len(Withheld) = 1
  BY DEF Withheld
<1>6. QED
  BY <1>2, <1>3, <1>4, <1>5

\* Nothing that a caller prints of an error spells a form.
CleanError(forms, error) == \A text \in Renderings(error) : ~OccurIn(forms, text)

\* An error with another chain and another message.
LEMMA Rewritten ==
  ASSUME NEW e, NEW k, NEW m, NEW c, NEW m2, NEW c2, e = [kind |-> k, message |-> m, chain |-> c]
  PROVE  LET f == [e EXCEPT !.chain = c2, !.message = m2] IN f.chain = c2 /\ f.message = m2
OBVIOUS

\* An error that is told prints no form, is the error itself if that prints none
\* and its chain is looked through, and is made anew from the copy of a chain.
LEMMA RedactedIs ==
  ASSUME NEW forms, forms \subseteq Written, Unpadded(forms), <<"quote">> \notin forms,
         NEW error,
         error = [kind |-> error.kind, message |-> error.message, chain |-> error.chain],
         error.message \in Texts, error.chain \in Seq(Links), error.kind = "connection"
  PROVE  LET shown == Redacted(error, forms) IN
         /\ CleanError(forms, shown)
         /\ CleanError(forms, error) /\ Len(error.chain) <= MaxScanned => shown = error
         /\ shown.chain # error.chain =>
              /\ shown.chain \in Seq(Links) /\ shown.chain = Copied(forms, error.chain)
              /\ shown.message \in {Withheld, MadeOf(forms, shown.chain)}
<1> DEFINE shown == Redacted(error, forms)
           chain == error.chain
           copy == CopyChain(forms, chain)
           clean == ~OccurIn(forms, error.message) /\ ~OccurInDebug(forms, error.message)
           made == IF copy = chain THEN RedactText(forms, error.message) ELSE MadeOf(forms, copy)
           message == UnlessDebugSpells(forms, made)
<1>1. /\ copy \in Seq(Links) /\ \A i \in DOMAIN copy : LinkClean(forms, copy[i])
      /\ copy = chain \/ copy = Copied(forms, chain)
      /\ Len(chain) <= MaxScanned /\ (\A i \in DOMAIN chain : LinkClean(forms, chain[i])) => copy = chain
  BY CopyIs
<1>2. /\ copy = chain /\ clean => shown = error
      /\ ~(copy = chain /\ clean) => shown.chain = copy /\ shown.message = message
  <2>1. shown = IF error.kind # "connection" \/ (copy = chain /\ clean) THEN error
                ELSE [error EXCEPT !.chain = copy, !.message = message]
    BY DEF Redacted, MadeOf
  <2> HIDE DEF shown, copy, message
  <2>2. /\ [error EXCEPT !.chain = copy, !.message = message].chain = copy
        /\ [error EXCEPT !.chain = copy, !.message = message].message = message
    BY Rewritten
  <2>3. QED
    BY <2>1, <2>2
<1> HIDE DEF copy, shown
<1>3. ~OccurIn(forms, made)
  <2>1. ~OccurIn(forms, RedactText(forms, error.message))
    BY RedactedText DEF Texts
  <2>2. ~OccurIn(forms, MadeOf(forms, copy))
    BY <1>1, MadeHides
  <2>3. QED
    BY <2>1, <2>2
<1> HIDE DEF made
<1>4. /\ ~OccurIn(forms, message) /\ ~OccurIn(forms, Debug(message))
      /\ message = Withheld \/ message = made
  <2>1. ~OccurIn(forms, Withheld) /\ ~OccurIn(forms, Debug(Withheld))
    BY WithheldHides
  <2>2. QED
    BY <1>3, <2>1 DEF UnlessDebugSpells, OccurInDebug
<1> HIDE DEF message
<1>5. ASSUME NEW e,
             ~OccurIn(forms, e.message), ~OccurIn(forms, Debug(e.message)),
             \A i \in DOMAIN e.chain : LinkClean(forms, e.chain[i])
      PROVE  CleanError(forms, e)
  BY <1>5 DEF CleanError, Renderings, LinkClean
<1>6. ASSUME CleanError(forms, error)
      PROVE  clean /\ \A i \in DOMAIN chain : LinkClean(forms, chain[i])
  BY <1>6 DEF CleanError, Renderings, LinkClean, OccurInDebug
<1>7. CASE copy = chain /\ clean
  <2>1. shown = error
    BY <1>2, <1>7
  <2>2. CleanError(forms, error)
    BY <1>1, <1>5, <1>7 DEF OccurInDebug
  <2>3. QED
    BY <2>1, <2>2 DEF shown
<1>8. CASE ~(copy = chain /\ clean)
  <2>1. shown.message = message /\ shown.chain = copy
    BY <1>2, <1>8
  <2>2. CleanError(forms, shown)
    BY <1>1, <1>4, <1>5, <2>1
  <2>3. ~(CleanError(forms, error) /\ Len(error.chain) <= MaxScanned)
    BY <1>1, <1>6, <1>8
  <2>4. ASSUME copy # chain
        PROVE  copy = Copied(forms, chain) /\ message \in {Withheld, MadeOf(forms, copy)}
    BY <1>1, <1>4, <2>4 DEF made
  <2>5. QED
    BY <1>1, <2>1, <2>2, <2>3, <2>4 DEF shown
<1>9. QED
  BY <1>7, <1>8

-----------------------------------------------------------------------------
(* What is told of a call that failed. *)

\* The forms of one text are its spellings.
LEMMA SpellingsAre ==
  ASSUME NEW text \in Seq(Writing)
  PROVE  Forms(text) = Spellings(text) /\ Trimmed(text) \in Seq(Writing)
<1>1. Forms(text) = {Turned(text, one, two) : one \in Once, two \in Again}
  BY FormsAre
<1>2. Spellings(text) = {Turned(text, one, two) : one \in Once, two \in Again}
  BY DEF Spellings, Turned, Once, Again
<1>3. QED
  BY <1>1, <1>2, TrimmedIs

\* The forms that are looked for are the spellings of the secrets.
LEMMA SecretsAre ==
  ASSUME NEW headers, \A h \in headers : h.value \in HeaderTexts
  PROVE  LET forms == Credentials(headers) IN
         /\ UNION {Spellings(text) : text \in Secrets(headers)} = forms
         /\ forms \subseteq Written /\ Unpadded(forms) /\ <<"quote">> \notin forms
<1> DEFINE forms == Credentials(headers)
           secret == {h \in headers : IsSecret(h)}
           Schemes == {"authorization", "proxy-authorization"}
           schemed == {h \in secret : h.name \in Schemes}
           values == {h.value : h \in secret} \cup {AfterScheme(h.value) : h \in schemed}
           hidden == {value \in values : Trimmed(value) # <<>>}
           all == hidden \cup {Trimmed(value) : value \in hidden}
<1>1. forms = UNION {FormsOf(value) : value \in values}
  <2>1. {h \in headers : h.name \in Schemes} = schemed
    BY DEF IsSecret, SecretHeaders
  <2>2. forms = (UNION {FormsOf(h.value) : h \in secret})
                \cup (UNION {FormsOf(AfterScheme(h.value)) : h \in schemed})
    BY <2>1 DEF Credentials
  <2> HIDE DEF forms, secret, Schemes, schemed
  <2>3. ASSUME NEW form
        PROVE  form \in forms <=> form \in UNION {FormsOf(value) : value \in values}
    <3>1. form \in UNION {FormsOf(h.value) : h \in secret} <=> \E h \in secret : form \in FormsOf(h.value)
      BY Zenon
    <3>2. form \in UNION {FormsOf(AfterScheme(h.value)) : h \in schemed}
          <=> \E h \in schemed : form \in FormsOf(AfterScheme(h.value))
      BY Zenon
    <3>3. form \in UNION {FormsOf(value) : value \in values}
          <=> \E value \in values : form \in FormsOf(value)
      <4> HIDE DEF values
      <4>1. QED
        OBVIOUS
    <3>4. (\E value \in values : form \in FormsOf(value))
          <=> \/ \E h \in secret : form \in FormsOf(h.value)
              \/ \E h \in schemed : form \in FormsOf(AfterScheme(h.value))
      OBVIOUS
    <3>5. form \in forms <=> \/ form \in UNION {FormsOf(h.value) : h \in secret}
                             \/ form \in UNION {FormsOf(AfterScheme(h.value)) : h \in schemed}
      <4> DEFINE one == UNION {FormsOf(h.value) : h \in secret}
                 two == UNION {FormsOf(AfterScheme(h.value)) : h \in schemed}
      <4>1. forms = one \cup two
        BY <2>2
      <4> HIDE DEF values, one, two
      <4>2. form \in forms <=> form \in one \/ form \in two
        BY <4>1
      <4>3. QED
        BY <4>2 DEF one, two
    <3>6. QED
      BY <3>1, <3>2, <3>3, <3>4, <3>5, Zenon
  <2> HIDE DEF forms, values
  <2>4. QED
    BY <2>3
<1>2. Secrets(headers) = all
  BY DEF Secrets
<1>3. ASSUME NEW value \in values
      PROVE  /\ value \in Seq(Writing) /\ <<"quote">> \notin FormsOf(value)
             /\ FormsOf(value) \subseteq Written /\ Unpadded(FormsOf(value))
             /\ Trimmed(value) = <<>> => FormsOf(value) = {}
             /\ Trimmed(value) # <<>> => FormsOf(value) = Spellings(value) \cup Spellings(Trimmed(value))
  <2>1. value \in Seq(Writing) /\ <<"quote">> \notin FormsOf(value)
    <3>1. PICK h \in headers : value = h.value \/ value = AfterScheme(h.value)
      OBVIOUS
    <3>2. h.value \in Seq(Writing) /\ <<"quote">> \notin FormsOf(h.value) \cup FormsOf(AfterScheme(h.value))
      BY SecretsAssumption
    <3>3. AfterScheme(h.value) \in Seq(Writing)
      BY <3>2, AfterSchemeIs
    <3>4. QED
      BY <3>1, <3>2, <3>3
  <2> HIDE DEF values
  <2>2. FormsOf(value) \subseteq Written /\ Unpadded(FormsOf(value))
    BY <2>1, FormsWritten
  <2>3. Forms(value) = Spellings(value) /\ Trimmed(value) \in Seq(Writing)
    BY <2>1, SpellingsAre
  <2>4. Forms(Trimmed(value)) = Spellings(Trimmed(value))
    BY <2>3, SpellingsAre
  <2>5. QED
    BY <2>1, <2>2, <2>3, <2>4 DEF FormsOf
<1> HIDE DEF values, forms
<1>4. ASSUME NEW form \in forms
      PROVE  form \in UNION {Spellings(text) : text \in all} /\ form \in Written /\ form # <<"quote">>
  <2>1. PICK value \in values : form \in FormsOf(value)
    BY <1>1
  <2>2. Trimmed(value) # <<>>
    BY <1>3, <2>1
  <2>3. form \in Spellings(value) \/ form \in Spellings(Trimmed(value))
    BY <1>3, <2>1, <2>2
  <2>4. value \in all /\ Trimmed(value) \in all
    BY <2>2
  <2> HIDE DEF all
  <2>5. form \in UNION {Spellings(text) : text \in all}
    BY <2>3, <2>4
  <2>6. form \in Written /\ form # <<"quote">>
    BY <1>3, <2>1
  <2>7. QED
    BY <2>5, <2>6
<1>5. ASSUME NEW form \in UNION {Spellings(text) : text \in all} PROVE form \in forms
  <2>1. PICK text \in all : form \in Spellings(text)
    OBVIOUS
  <2>2. PICK value \in hidden : text = value \/ text = Trimmed(value)
    BY <2>1
  <2>3. value \in values /\ Trimmed(value) # <<>>
    BY <2>2
  <2> HIDE DEF all, hidden
  <2>4. form \in FormsOf(value)
    BY <1>3, <2>1, <2>2, <2>3
  <2>5. QED
    BY <1>1, <2>3, <2>4
<1>6. Unpadded(forms)
  <2>1. SUFFICES ASSUME NEW form \in forms, form[1] = "space"
                 PROVE  \E short \in forms, d \in Nat \ {0} : OccursAt(short, form, d + 1)
    BY DEF Unpadded
  <2>2. PICK value \in values : form \in FormsOf(value)
    BY <1>1
  <2>3. Unpadded(FormsOf(value))
    BY <1>3
  <2>4. PICK short \in FormsOf(value), d \in Nat \ {0} : OccursAt(short, form, d + 1)
    BY <2>1, <2>2, <2>3 DEF Unpadded
  <2>5. short \in forms
    BY <1>1, <2>4
  <2>6. QED
    BY <2>4, <2>5
<1> HIDE DEF all
<1>7. UNION {Spellings(text) : text \in all} = forms
  BY <1>4, <1>5
<1>8. QED
  BY <1>2, <1>4, <1>6, <1>7 DEF forms

\* What is kept of a call that failed: headers whose values are texts of HTTP, and
\* the error, whose links print as texts.
Recounted(t) ==
  /\ t = [headers |-> t.headers, error |-> t.error, shown |-> t.shown]
  /\ \A h \in t.headers : h.value \in HeaderTexts
  /\ t.error = [kind |-> t.error.kind, message |-> t.error.message, chain |-> t.error.chain]
  /\ t.error.message \in Texts /\ t.error.chain \in Seq(Links)

\* It is kept from the failure on, and shown once the caller has the error.
ToldInv ==
  /\ pc \notin {"failed", "done"} => told = None
  /\ pc = "failed" => Recounted(told)
  /\ pc = "done" /\ told # None =>
       Recounted(told) /\ told.shown = Redacted(told.error, Credentials(told.headers))

\* The values of a request are texts that HTTP takes.
LEMMA ValuesAre == ASSUME NEW map PROVE \A h \in HeadersOf(map) : h.value \in HeaderTexts
<1>1. ASSUME NEW text PROVE Spelled(text) \in {Letters[t] : t \in DOMAIN Letters} \cup {<<>>}
  BY DEF Spelled
<1>2. ASSUME NEW value PROVE ValueText(value) \in HeaderTexts
  <2> DEFINE written == {Letters[t] : t \in DOMAIN Letters} \cup {<<>>}
  <2>1. HeaderTexts = written \cup {<<"B", "space">> \o text : text \in written}
    BY DEF HeaderTexts
  <2>2. Spelled(value.key) \in written /\ Spelled(value.theirs) \in written /\ <<>> \in written
    BY <1>1
  <2> HIDE DEF written
  <2>3. QED
    BY <2>1, <2>2 DEF ValueText
<1>3. QED
  BY <1>2 DEF HeadersOf

\* What a transport failed with is an error whose links print as texts.
LEMMA ConnectionIs ==
  ASSUME NEW failure \in Failures
  PROVE  LET error == Connection(failure) IN
         /\ error = [kind |-> error.kind, message |-> error.message, chain |-> error.chain]
         /\ error.message \in Texts /\ error.chain \in Seq(Links)
<1>1. /\ failure = [kind |-> failure.kind, message |-> failure.message, chain |-> failure.chain]
      /\ failure.message \in Texts /\ failure.chain \in Seq(Links)
  BY FailuresAssumption
<1>2. Cut(Render(failure.chain)) \in Texts
  <2>1. Render(failure.chain) \in Seq(Seq(Characters))
    BY <1>1, LinkedIs
  <2>2. {} \subseteq Written /\ ~OccurIn({}, Flat(Render(failure.chain)))
    BY DEF OccurIn
  <2>3. QED
    BY <2>1, <2>2, CutHides DEF Texts
<1>3. CASE failure.kind # "foreign"
  BY <1>1, <1>3 DEF Connection
<1>4. CASE failure.kind = "foreign"
  <2> DEFINE message == Cut(Render(failure.chain))
  <2>1. Connection(failure) = [kind |-> "connection", message |-> message, chain |-> failure.chain]
    BY <1>4 DEF Connection
  <2> HIDE DEF message
  <2>2. QED
    BY <1>1, <1>2, <2>1 DEF message
<1>5. QED
  BY <1>3, <1>4

\* What is kept of a failed call is inductive.
LEMMA ToldStays ==
  ASSUME ToldInv, [Next]_vars PROVE ToldInv'
<1>1. ASSUME pc \notin {"failed", "done"}, told' = told, pc' # "failed" PROVE ToldInv'
  BY <1>1 DEF ToldInv
<1>2. ASSUME NEW call \in BuilderCalls, Configure(call) PROVE ToldInv'
  BY <1>1, <1>2 DEF Configure
<1>3. ASSUME NEW transport \in {"hyper", "service"}, Build(transport) PROVE ToldInv'
  BY <1>1, <1>3 DEF Build
<1>4. ASSUME NEW call \in QuestionCalls, Ask(call) PROVE ToldInv'
  BY <1>1, <1>4 DEF Ask
<1>5. CASE PrepareQuestions
  BY <1>1, <1>5 DEF PrepareQuestions
<1>6. ASSUME NEW struct \in Structs, Declare(struct) PROVE ToldInv'
  BY <1>1, <1>6 DEF Declare
<1>7. ASSUME NEW call \in RequestCalls, SetOption(call) PROVE ToldInv'
  BY <1>1, <1>7 DEF SetOption
<1>8. ASSUME NEW checks, NEW withBody, NEW body, Start(checks, withBody, body) PROVE ToldInv'
  BY <1>1, <1>8 DEF Start
<1>9. ASSUME NEW state \in States, SendSystemOne(state) PROVE ToldInv'
  BY <1>8, <1>9 DEF SendSystemOne
<1>10. CASE SendList
  BY <1>8, <1>10 DEF SendList
<1>11. CASE Attempt
  BY <1>1, <1>11 DEF Attempt
<1>12. ASSUME NEW failure \in Failures, Fail(failure) PROVE ToldInv'
  <2> DEFINE base == HeadersOf(BaseHeaders(client, exchange.with_body))
             own == HeadersOf(Callers(exchange.headers, exchange.with_body))
             error == Connection(failure)
  <2>1. told' = [headers |-> base \cup own, error |-> error, shown |-> None] /\ pc' = "failed"
    BY <1>12 DEF Fail
  <2>2. \A h \in base \cup own : h.value \in HeaderTexts
    BY ValuesAre
  <2>3. /\ error = [kind |-> error.kind, message |-> error.message, chain |-> error.chain]
        /\ error.message \in Texts /\ error.chain \in Seq(Links)
    BY ConnectionIs
  <2> HIDE DEF base, own, error
  <2>4. Recounted(told)'
    BY <2>1, <2>2, <2>3 DEF Recounted
  <2>5. QED
    BY <2>1, <2>4 DEF ToldInv
<1>13. CASE Tell
  <2> DEFINE shown == Redacted(told.error, Credentials(told.headers))
  <2>1. pc' = "done" /\ told' = [told EXCEPT !.shown = shown] /\ Recounted(told)
    BY <1>13 DEF Tell, ToldInv
  <2> HIDE DEF shown
  <2>2. told' = [headers |-> told.headers, error |-> told.error, shown |-> shown]
    BY <2>1 DEF Recounted
  <2>3. Recounted(told)' /\ told'.shown = shown /\ told'.error = told.error /\ told'.headers = told.headers
    BY <2>1, <2>2 DEF Recounted
  <2>4. QED
    BY <2>1, <2>3 DEF ToldInv, shown
<1>14. CASE UNCHANGED vars
  BY <1>14 DEF ToldInv, vars
<1>15. QED
  BY <1>2, <1>3, <1>4, <1>5, <1>6, <1>7, <1>9, <1>10, <1>11, <1>12, <1>13, <1>14 DEF Next

\* What is told of a call that failed hides its credentials.
LEMMA ToldHides == ToldInv => CredentialsHidden
<1> SUFFICES ASSUME ToldInv, told # None, pc = "done" PROVE CredentialsHidden
  BY DEF CredentialsHidden
<1> DEFINE forms == Credentials(told.headers)
           error == told.error
           shown == told.shown
           chain == error.chain
           whole == Flat(Render(error.chain))
           copied == Flat(Render(shown.chain))
           spelled == UNION {Spellings(text) : text \in Secrets(told.headers)}
<1>1. /\ \A h \in told.headers : h.value \in HeaderTexts
      /\ error = [kind |-> error.kind, message |-> error.message, chain |-> error.chain]
      /\ error.message \in Texts /\ error.chain \in Seq(Links)
      /\ shown = Redacted(error, forms)
  BY DEF ToldInv, Recounted
<1>2. spelled = forms /\ forms \subseteq Written /\ Unpadded(forms) /\ <<"quote">> \notin forms
  BY <1>1, SecretsAre
<1>3. CASE error.kind # "connection"
  <2>1. shown = error
    BY <1>1, <1>3 DEF Redacted
  <2>2. QED
    BY <1>3, <2>1 DEF CredentialsHidden
<1>4. CASE error.kind = "connection"
  <2> HIDE DEF forms, error, shown, spelled
  <2>1. /\ CleanError(forms, shown)
        /\ CleanError(forms, error) /\ Len(chain) <= MaxScanned => shown = error
        /\ shown.chain # chain =>
             /\ shown.chain \in Seq(Links) /\ shown.chain = Copied(forms, chain)
             /\ shown.message \in {Withheld, MadeOf(forms, shown.chain)}
    BY <1>1, <1>2, <1>4, RedactedIs
  <2>2. ASSUME shown.chain # chain, NEW form \in forms
        PROVE  /\ \A n \in DOMAIN whole : ShowsUpto(shown.message, whole, n) =>
                    \A k \in 1..Min({MaxShown, Len(chain)}) : \A j \in DOMAIN chain[k].display :
                      OccursAt(form, chain[k].display, j) => n <= Len(Before(chain, k, j))
               /\ \A n \in DOMAIN copied : ShowsUpto(shown.message, copied, n) =>
                    \A i \in 1..n : ~OccursAt(form, copied, i)
    <3> DEFINE copy == shown.chain
    <3>1. copy \in Seq(Links) /\ copy = Copied(forms, chain) /\ shown.message \in {Withheld, MadeOf(forms, copy)}
      BY <2>1, <2>2
    <3> HIDE DEF copy
    <3>2. /\ whole \in Seq(Characters) /\ DOMAIN whole = 1..Len(whole)
          /\ copied \in Seq(Characters) /\ DOMAIN copied = 1..Len(copied)
      <4>1. Render(chain) \in Seq(Seq(Characters)) /\ Render(copy) \in Seq(Seq(Characters))
        BY <1>1, <3>1, LinkedIs
      <4>2. Flat(Render(chain)) \in Seq(Characters) /\ Flat(Render(copy)) \in Seq(Characters)
        BY <4>1, FlatTyped
      <4>3. QED
        BY <4>2, LenProperties DEF copy
    <3>3. ASSUME NEW n \in DOMAIN whole, ShowsUpto(shown.message, whole, n),
                 NEW k \in 1..Min({MaxShown, Len(chain)}), NEW j \in DOMAIN chain[k].display,
                 OccursAt(form, chain[k].display, j)
          PROVE  n <= Len(Before(chain, k, j))
      <4>1. n \in 1..Len(whole) /\ k \in 1..Shown(chain)
        BY <3>2, <3>3 DEF Shown
      <4>2. ShowsUpto(MadeOf(forms, copy), whole, n)
        <5>1. shown.message # Withheld
          BY <3>2, <3>3, <4>1, WithheldIsWhole
        <5>2. QED
          BY <3>1, <3>3, <5>1
      <4>3. j \in 1..Len(chain[k].display)
        <5>1. chain[k].display \in Seq(Characters)
          BY <1>1, <3>1, <4>1, CopiedIs
        <5>2. QED
          BY <3>3, <5>1, LenProperties
      <4>4. QED
        BY <1>1, <1>2, <3>1, <3>3, <4>1, <4>2, <4>3, MadeEnds
    <3>4. ASSUME NEW n \in DOMAIN copied, ShowsUpto(shown.message, copied, n), NEW i \in 1..n
          PROVE  ~OccursAt(form, copied, i)
      <4>1. n \in 1..Len(copied)
        BY <3>2, <3>4
      <4>2. ShowsUpto(MadeOf(forms, copy), copied, n)
        <5>1. shown.message # Withheld
          BY <3>2, <3>4, <4>1, WithheldIsWhole
        <5>2. QED
          BY <3>1, <3>4, <5>1
      <4>3. copied = Flat(Render(copy))
        BY DEF copy
      <4> HIDE DEF copied
      <4>4. QED
        BY <1>2, <3>1, <3>4, <4>1, <4>2, <4>3, CopyEnds
    <3>5. QED
      BY <3>3, <3>4
  <2> HIDE DEF whole, copied, chain
  <2>3. QED
    BY <1>2, <1>4, <2>1, <2>2 DEF CredentialsHidden, CleanError, forms, error, shown, whole, copied, chain, spelled
<1>5. QED
  BY <1>3, <1>4

\* Whatever the headers of a request hold and whatever its transport fails with, no
\* secret is in what a caller can print of the connection error, however it is
\* escaped; an error that spells none is the transport's own; and what a cut
\* message shows of the links ends before any secret (redact.rs:63-292,
\* transport/mod.rs:507-706).
THEOREM CredentialsAreHidden == Spec => []CredentialsHidden
<1>1. Init => ToldInv
  BY DEF Init, ToldInv
<1>2. ToldInv /\ [Next]_vars => ToldInv'
  BY ToldStays
<1>3. QED
  BY <1>1, <1>2, ToldHides, PTL DEF Spec
===========================================================================
