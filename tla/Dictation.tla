------------------------------ MODULE Dictation ------------------------------
(***************************************************************************)
(* What the engine promises its two neighbours, with no connection, no     *)
(* focus bookkeeping and no configuration in it.  One dictation at a time: *)
(* it is announced under an identity never used before, it types its       *)
(* fragments 1, 2, 3, ... without a gap into the one context it was begun  *)
(* for, and an interrupt message, if one is sent, is the last thing said   *)
(* about it.                                                               *)
(***************************************************************************)
EXTENDS Naturals

CONSTANTS Context, SessionId, None

VARIABLES
  active,   \* the identity of the running dictation, or None
  target,   \* the context it types into, or None
  typed,    \* how many of its fragments have been typed
  used,     \* the identities handed out so far
  output    \* what the latest step shows to the server and to the user

vars == <<active, target, typed, used, output>>

Announce(s)   == [type |-> "StartSession", session |-> s]
Interrupt(s)  == [type |-> "InterruptSession", session |-> s]
Typing(c, s, n) == [type |-> "CommitText", context |-> c, session |-> s, fragment |-> n]

Init == /\ active = None
        /\ target = None
        /\ typed = 0
        /\ used = {}
        /\ output = {}

Begin(s, c) ==
  /\ active = None
  /\ s \notin used
  /\ active' = s
  /\ target' = c
  /\ typed' = 0
  /\ used' = used \cup {s}
  /\ output' = {Announce(s)}

Type ==
  /\ active # None
  /\ typed' = typed + 1
  /\ output' = {Typing(target, active, typed')}
  /\ UNCHANGED <<active, target, used>>

End ==
  /\ active # None
  /\ active' = None
  /\ target' = None
  /\ typed' = 0
  /\ output' \in {{}, {Interrupt(active)}}
  /\ UNCHANGED used

\* Nothing is said or typed outside the three steps above.
Idle ==
  /\ output' = {}
  /\ UNCHANGED <<active, target, typed, used>>

Next ==
  \/ \E s \in SessionId, c \in Context : Begin(s, c)
  \/ Type
  \/ End
  \/ Idle

Spec == Init /\ [][Next]_vars
=============================================================================
