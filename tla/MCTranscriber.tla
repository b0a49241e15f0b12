---------------------------- MODULE MCTranscriber ----------------------------
(* Transcriber with two sessions, in both kinds of mode.                      *)
EXTENDS Transcriber

CONSTANTS s1, s2

MCSessionId == {s1, s2}
MCModes == {"result", "ended"}
=============================================================================
