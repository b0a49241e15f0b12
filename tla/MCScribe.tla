------------------------------ MODULE MCScribe ------------------------------
(* One input context; two session ids, interchangeable as far as safety goes, *)
(* or one.                                                                    *)
EXTENDS Scribe, TLC

CONSTANTS c1, s1, s2

MCContext == {c1}
MCSessionId == {s1, s2}
OneSessionId == {s1}

Symmetric == Permutations(MCSessionId)
=============================================================================
