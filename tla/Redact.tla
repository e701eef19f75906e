-------------------------------- MODULE Redact --------------------------------
(***************************************************************************)
(* How the credentials of a request are kept out of the error its          *)
(* transport failed with (crates/sdk/src/redact.rs), and the message that  *)
(* is made of the error's chain (transport/mod.rs, connection_message and  *)
(* redacted).                                                              *)
(*                                                                         *)
(* A text is the sequence of its characters.  Those that an escape or the  *)
(* SDK treats on its own have names, the others are letters.  Of a message *)
(* "Connection error: " is left out, which is never searched.              *)
(***************************************************************************)
EXTENDS Lists, Integers, SequencesExt, FiniteSetsExt

CONSTANTS
  Characters,  \* what texts are made of
  MaxScanned,  \* MAX_SCANNED_LINKS
  MaxShown,    \* the links a message shows
  MaxMessage   \* MAX_MESSAGE_CHARS

ASSUME RedactAssumption ==
  /\ {MaxScanned, MaxShown, MaxMessage} \subseteq Nat \ {0} /\ MaxShown <= MaxScanned
  /\ {"backslash", "t", "n", "quote", "apostrophe", ":", "space", "newline",
      "*", "...", "withheld"} \subseteq Characters

Space == {"space", "tab"}
Stars == <<"*", "*", "*">>
Ellipsis == <<"...">>
Withheld == <<"withheld">>

-----------------------------------------------------------------------------
(* Escapes, each one piece. *)

Escape ==
  [tab |-> <<"backslash", "t">>, newline |-> <<"backslash", "n">>,
   backslash |-> <<"backslash", "backslash">>,
   quote |-> <<"backslash", "quote">>, apostrophe |-> <<"backslash", "apostrophe">>]

Pieces(text, escaped) ==
  [i \in DOMAIN text |-> IF text[i] \in escaped THEN Escape[text[i]] ELSE <<text[i]>>]
Escaped(text, escaped) == Flat(Pieces(text, escaped))

ByDebug == {"tab", "newline", "backslash", "quote"}  \* {:?} of a str, of bytes; JSON
ByChar == ByDebug \cup {"apostrophe"}                \* str::escape_debug
ByHeader == {"quote"}                                \* {:?} of an http::HeaderValue
ByMessage == {"tab", "newline"}                      \* what SafeText escapes

\* `{:?}` of a text.
Debug(text) == <<"quote">> \o Escaped(text, ByDebug) \o <<"quote">>

-----------------------------------------------------------------------------
(* Credentials. *)

SecretHeaders == {"authorization", "proxy-authorization", "x-api-key", "api-key", "cookie",
                  "set-cookie"}
Telling == {"x-auth-token", "client-secret"}  \* some names with "token" or "secret" in them

IsSecret(h) == h.sensitive \/ h.name \in SecretHeaders \cup Telling

Trimmed(text) ==
  LET kept == {i \in DOMAIN text : text[i] \notin Space}
  IN IF kept = {} THEN <<>> ELSE SubSeq(text, Min(kept), Max(kept))

\* `after_scheme`: from the second word on, or nothing.
AfterScheme(text) ==
  LET starts == {i \in DOMAIN text : text[i] \notin Space /\ (i = 1 \/ text[i - 1] \in Space)}
      second == starts \ {Min(starts)}
  IN IF starts = {} \/ second = {} THEN <<>> ELSE SubSeq(text, Min(second), Len(text))

Forms(text) ==
  LET once == {text} \cup {Escaped(text, e) : e \in {ByDebug, ByChar, ByHeader}}
  IN once \cup {Escaped(form, ByDebug) : form \in once}

\* `push_variants`: a credential and what a server reads of it.
FormsOf(text) ==
  IF Trimmed(text) = <<>> THEN {} ELSE Forms(text) \cup Forms(Trimmed(text))

\* `Credentials::new`.
Credentials(headers) ==
  (UNION {FormsOf(h.value) : h \in {h \in headers : IsSecret(h)}})
  \cup (UNION {FormsOf(AfterScheme(h.value)) :
                 h \in {h \in headers : h.name \in {"authorization", "proxy-authorization"}}})

OccursAt(form, text, i) ==
  /\ i + Len(form) <= Len(text) + 1
  /\ \A k \in DOMAIN form : text[i + k - 1] = form[k]

OccurIn(forms, text) == \E form \in forms, i \in DOMAIN text : OccursAt(form, text, i)
OccurInDebug(forms, text) == OccurIn(forms, Debug(text))

\* `matches`: from the left, the longest form at each place that no match covers.
Covers(m, i) == m.first <= i /\ i <= m.last
FormsAt(forms, text, i) == {form \in forms : OccursAt(form, text, i)}
LongestAt(forms, text, i) ==
  [first |-> i, last |-> i - 1 + Max({Len(form) : form \in FormsAt(forms, text, i)})]
Matches(forms, text) ==
  LET Upto[i \in 0..Len(text)] ==
        IF i = 0 THEN {}
        ELSE IF FormsAt(forms, text, i) = {} \/ \E m \in Upto[i - 1] : Covers(m, i) THEN Upto[i - 1]
        ELSE Upto[i - 1] \cup {LongestAt(forms, text, i)}
  IN Upto[Len(text)]

\* `Uncut::redacted`: a match takes every piece it touches, and the pieces that a
\* chain of matches touches become one piece.
RedactPieces(forms, pieces) ==
  LET last == [i \in DOMAIN pieces |-> Len(Flat(SubSeq(pieces, 1, i)))]
      touching == [i \in DOMAIN pieces |->
                     {m \in Matches(forms, Flat(pieces)) :
                        m.first <= last[i] /\ m.last > last[i] - Len(pieces[i])}]
      Joins(i) == i > 1 /\ touching[i - 1] \cap touching[i] # {}
  IN Flat([i \in DOMAIN pieces |->
                   IF touching[i] = {} THEN <<pieces[i]>>
                   ELSE IF Joins(i) THEN <<>> ELSE <<Stars>>])

\* `redact`: the same, of single characters.
RedactText(forms, text) == Flat(RedactPieces(forms, Pieces(text, {})))

-----------------------------------------------------------------------------
(* The message of a connection error. *)

\* `render_uncut`: the first links, escaped, with ": " between them.
Render(chain) ==
  Flat([i \in 1..Min({MaxShown, Len(chain)}) |->
                (IF i > 1 THEN <<<<":", "space">>>> ELSE <<>>)
                \o Pieces(chain[i].display, ByMessage)])

\* `cut`: whole pieces, as many as fit.
Cut(pieces) ==
  LET Shown(n) == Flat(SubSeq(pieces, 1, n))
      fit == Max({n \in 0..Len(pieces) : Len(Shown(n)) <= MaxMessage})
  IN IF fit = Len(pieces) THEN Shown(fit) ELSE Shown(fit) \o Ellipsis

\* What a transport failed with is the SDK's own error, or becomes one.
Connection(failure) ==
  IF failure.kind # "foreign" THEN failure
  ELSE [kind |-> "connection", message |-> Cut(Render(failure.chain)), chain |-> failure.chain]

UnlessDebugSpells(forms, message) == IF OccurInDebug(forms, message) THEN Withheld ELSE message

RedactedLink(forms, link) ==
  [display |-> RedactText(forms, link.display), debug |-> RedactText(forms, link.debug),
   alternate |-> RedactText(forms, link.alternate)]

\* `copy_chain`: the chain itself if no rendering of a link holds a credential,
\* and else a copy of the links that were looked at.
CopyChain(forms, chain) ==
  LET scanned == SubSeq(chain, 1, Min({MaxScanned, Len(chain)}))
      Holds(link) == \E text \in {link.display, link.debug, link.alternate} : OccurIn(forms, text)
  IN IF Len(chain) > MaxScanned \/ \E i \in DOMAIN scanned : Holds(scanned[i])
       THEN [i \in DOMAIN scanned |-> RedactedLink(forms, scanned[i])]
       ELSE chain

\* Mutant: the new message is searched once it is cut.
RedactedAfterCut(error, forms) ==
  LET chain == CopyChain(forms, error.chain)
      clean == ~OccurIn(forms, error.message) /\ ~OccurInDebug(forms, error.message)
  IN IF error.kind # "connection" \/ (chain = error.chain /\ clean) THEN error
     ELSE [error EXCEPT
             !.chain = chain,
             !.message = UnlessDebugSpells(forms, RedactText(forms,
                           IF chain = error.chain THEN @ ELSE Cut(Render(error.chain))))]

\* `redacted`: only a connection error is searched; the message of a chain that
\* was copied is made again from the copy.
Redacted(error, forms) ==
  LET chain == CopyChain(forms, error.chain)
      clean == ~OccurIn(forms, error.message) /\ ~OccurInDebug(forms, error.message)
  IN IF error.kind # "connection" \/ (chain = error.chain /\ clean) THEN error
     ELSE [error EXCEPT
             !.chain = chain,
             !.message = UnlessDebugSpells(forms,
                           IF chain = error.chain THEN RedactText(forms, @)
                           ELSE Cut(RedactPieces(forms, Render(chain))))]
===========================================================================
