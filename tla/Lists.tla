-------------------------------- MODULE Lists --------------------------------
(***************************************************************************)
(* Sequences, maps and checks as the SDK and the adapter make them: what a *)
(* filter keeps, what one map lays over another, the first check to fail.  *)
(***************************************************************************)
EXTENDS Naturals, Sequences

\* The elements at some places of a sequence, in their order.
Sift(seq, kept) ==
  LET Upto[i \in 0..Len(seq)] ==
        IF i = 0 THEN <<>> ELSE IF i \in kept THEN Append(Upto[i - 1], seq[i]) ELSE Upto[i - 1]
  IN Upto[Len(seq)]

\* What a base becomes as op takes the elements of a sequence into it, the last one first.
Backwards(op(_, _), seq, base) ==
  LET From[n \in 0..Len(seq)] == IF n = 0 THEN base ELSE op(seq[Len(seq) + 1 - n], From[n - 1])
  IN From[Len(seq)]

\* The sequences of a sequence in one.
Flat(seqs) == Backwards(\o, seqs, <<>>)

\* Two maps in one, where what the first has hides what the second has.
Over(front, back) ==
  [n \in DOMAIN front \cup DOMAIN back |-> IF n \in DOMAIN front THEN front[n] ELSE back[n]]

\* Checks are pairs of a condition and what it means; the first that fails counts.
Failing(checks) == {i \in DOMAIN checks : checks[i][1]}
FirstFailing(checks) ==
  checks[CHOOSE i \in Failing(checks) : \A j \in Failing(checks) : i <= j][2]
=============================================================================
