------------------------------- MODULE MCAddon -------------------------------
(* Addon with two addresses, two objects and one session id.                  *)
EXTENDS Addon

CONSTANTS a1, a2, s1

MCAddress == {a1, a2}
MCContextId == 1..2
MCSessionId == {s1}
MCVariable == {"path", "token", "debug path"}
=============================================================================
