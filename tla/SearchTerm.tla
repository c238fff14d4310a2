------------------------------ MODULE SearchTerm ------------------------------
(***************************************************************************)
(* From what a user types to a LIKE pattern (common/search/search_term.ts) *)
(* and what Postgres makes of the pattern.  A text is a sequence of        *)
(* characters.                                                              *)
(***************************************************************************)
EXTENDS Integers, SequencesExt

CONSTANT MaxTermLength   \* search_term.ts: 120
MinTermLength == 2
ASSUME TermsHaveRoom == MaxTermLength \in Nat /\ MaxTermLength >= MinTermLength

Percent == "%"
Underscore == "_"
Backslash == "\\"
Space == " "

NoTerm == <<>>   \* null: nothing is searched

-------------------------------------------------------------------------------
(* The characters of raw that are not at its blank ends. *)
Inner(raw) ==
  LET solid == {i \in DOMAIN raw : raw[i] # Space} IN
  IF solid = {} THEN <<>> ELSE SubSeq(raw, Min(solid), Max(solid))

normalizeSearchTerm(raw) ==
  LET trimmed == Inner(raw) IN
  IF Len(trimmed) < MinTermLength THEN NoTerm
  ELSE SubSeq(trimmed, 1, IF Len(trimmed) > MaxTermLength THEN MaxTermLength
                          ELSE Len(trimmed))

(* raw.replace(/c/g, '\\c') *)
Escaped(raw, c) ==
  FlattenSeq([i \in DOMAIN raw |-> IF raw[i] = c THEN <<Backslash, c>> ELSE <<raw[i]>>])

(* Faulty: the backslash comes last, and is found in front of the others.  *)
EscapedLast(raw) == Escaped(Escaped(Escaped(raw, Percent), Underscore), Backslash)

escapeLikePattern(raw) == Escaped(Escaped(Escaped(raw, Backslash), Percent), Underscore)

toContainsPattern(raw) ==
  LET term == normalizeSearchTerm(raw) IN
  IF term = NoTerm THEN NoTerm
  ELSE <<Percent>> \o escapeLikePattern(term) \o <<Percent>>

-------------------------------------------------------------------------------
(* Postgres: ILIKE, the backslash being its default escape. *)

Folded(c) == IF c = "A" THEN "a" ELSE c

(* Matches[i, j]: does the text from i on match the pattern from j on?      *)
ILike(text, pattern) ==
  LET Takes(i, c) == i <= Len(text) /\ Folded(text[i]) = Folded(c)
      Matches[i \in 1..Len(text) + 1, j \in 1..Len(pattern) + 1] ==
        IF j > Len(pattern) THEN i > Len(text)
        ELSE CASE pattern[j] = Percent ->
                    \/ Matches[i, j + 1]
                    \/ i <= Len(text) /\ Matches[i + 1, j]
               [] pattern[j] = Underscore ->
                    i <= Len(text) /\ Matches[i + 1, j + 1]
               [] pattern[j] = Backslash /\ j < Len(pattern) ->
                    Takes(i, pattern[j + 1]) /\ Matches[i + 1, j + 2]
               [] OTHER -> Takes(i, pattern[j]) /\ Matches[i + 1, j + 1]
  IN Matches[1, 1]

(* jsonb_each_text: a column holds NULL - no row - or some translations.   *)
localizedContains(column, pattern) == \E text \in column : ILike(text, pattern)

(* What is meant: the term as it was typed, in any case. *)
ContainsTerm(text, term) ==
  \E i \in 1..Len(text) :
    /\ i + Len(term) - 1 <= Len(text)
    /\ \A k \in DOMAIN term : Folded(text[i + k - 1]) = Folded(term[k])
===============================================================================
