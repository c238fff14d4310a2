---------------------------- MODULE MCHelperCalls ----------------------------
EXTENDS HelperCalls
AllTags == ContentLocales \union {"es", "none"}
(* Wildcards, the escape, letters of both cases and blanks.                 *)
Typed == {Percent, Underscore, Backslash, "a", Space}
Held == {Percent, Underscore, Backslash, "A", "b"}
ShortTerms == UNION {[1..n -> Typed] : n \in 0..4}
ShortTexts == UNION {[1..n -> Held] : n \in 0..4}
===============================================================================
