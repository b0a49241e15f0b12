------------------------------ MODULE MCEngine ------------------------------
(* Engine with two contexts, three session ids and sequence numbers up to 3.  *)
(* Symmetry is not used: ImplementsDictation is a temporal property.          *)
EXTENDS Engine

CONSTANTS c1, c2, s1, s2, s3

MCContext == {c1, c2}
MCSessionId == {s1, s2, s3}
=============================================================================
