----------------------------- MODULE MCMatcher -----------------------------
(* Utterances and templates for checking Matcher with TLC. *)
EXTENDS Matcher

M(e, z) == [energy |-> e, zcr |-> z]

(* Silence, a frame just below and one above the trim threshold, a half    *)
(* loud and a loud frame.                                                  *)
Alphabet == {M(0, 0), M(2, 0), M(25, 1), M(50, 0)}

AllUtterances == UNION {[1 .. n -> Alphabet] : n \in 2 .. 5}

Rising  == <<M(0, 0), M(2, 1), M(4, 0)>>
Falling == <<M(4, 0), M(2, 1), M(0, 0), M(0, 0)>>
Steady  == <<M(4, 0), M(4, 0), M(4, 0), M(4, 0), M(3, 1)>>

OneOrTwo == {<<Rising>>, <<Falling, Rising>>, <<Steady, Falling>>}
=============================================================================
