------------------------------- MODULE Engine -------------------------------
(***************************************************************************)
(* The session state machine of src/addon/engine.cpp: Engine::handle takes *)
(* one event, changes the engine's state and returns the effects the addon *)
(* is to perform, in order.  One action per event.                         *)
(*                                                                         *)
(* Effects are messages without their wording: Log effects are left out, a *)
(* SendEnvelope names its body and its session, and the text of a fragment *)
(* is identified by the session and the sequence number it came with.      *)
(*                                                                         *)
(* ConnectionClosed and ConnectionFailed change the same state (they       *)
(* differ in what they log), and so do VadTimeout and Error.               *)
(*                                                                         *)
(* A definition with a mistake in it precedes some of the definitions, for *)
(* the properties to be tried on: StartPendingIfFocused,                   *)
(* ConfiguredUnderInteraction, FocusInInterruptsLoser,                     *)
(* LoseContextButPending, CommitOutcomeSkipping, DropsSilently.            *)
(***************************************************************************)
EXTENDS Naturals, Sequences

CONSTANTS
  Context,      \* the opaque ids Addon::ensureContextId hands out
  SessionId,    \* the ids generateSessionId may return
  None,         \* std::nullopt
  MaxSequence   \* bound: the sequence numbers a fragment may carry

Session == [context : Context, id : SessionId, nextSequenceNo : Nat]

ASSUME NoneAssumption == None \notin Context /\ None \notin SessionId /\ None \notin Session
ASSUME MaxSequenceAssumption == MaxSequence \in Nat

VARIABLES
  contexts,         \* contexts_: "unseen" has no entry yet, "dead" has alive = false
  config,           \* connectionConfig_ ("valid"), connectionConfigError_ ("error") or neither
  focused,          \* focusedContext_
  pending,          \* pendingContext_
  session,          \* session_
  connectionState,  \* connectionState_
  issued,           \* every id the session id generator has returned
  effects           \* what handle returned for the latest event

engineVars == <<contexts, config, focused, pending, session, connectionState, issued, effects>>

ContextState == {"unseen", "alive", "dead"}
ConfigResult == {"unset", "valid", "error"}
ConnectionState == {"Disconnected", "Connecting", "Ready"}

AcceptKey  == [type |-> "AcceptKey"]
Connect    == [type |-> "Connect"]
Disconnect == [type |-> "Disconnect"]
StartSession(s) == [type |-> "StartSession", session |-> s]
InterruptSession(s) == [type |-> "InterruptSession", session |-> s]
CommitText(c, s, n) == [type |-> "CommitText", context |-> c, session |-> s, fragment |-> n]

Effect ==
  [type : {"AcceptKey", "Connect", "Disconnect"}]
    \cup [type : {"StartSession", "InterruptSession"}, session : SessionId]
    \cup [type : {"CommitText"}, context : Context, session : SessionId, fragment : Nat]

-----------------------------------------------------------------------------
Init ==
  /\ contexts = [c \in Context |-> "unseen"]
  /\ config = "unset"
  /\ focused = None
  /\ pending = None
  /\ session = None
  /\ connectionState = "Disconnected"
  /\ issued = {}
  /\ effects = <<>>

\* ensureContext and alive = true: the first lines of every handler of a context.
Touch(c) == contexts' = [contexts EXCEPT ![c] = "alive"]

ContextCanCommit(c) == contexts[c] = "alive" /\ focused = c

ActiveInteraction == pending # None \/ session # None

\* abortInteraction, less its log line.
AbortInteraction ==
  /\ connectionState' = "Disconnected"
  /\ pending' = None
  /\ session' = None

\* interruptSession while there is a session: the envelope is sent only over a
\* ready connection, the local state is cleared in any case.
InterruptMessage ==
  IF connectionState = "Ready" THEN <<InterruptSession(session.id)>> ELSE <<>>

InterruptActiveSession ==
  /\ session' = None
  /\ pending' = None

NewSession(c, s) == [context |-> c, id |-> s, nextSequenceNo |-> 1]

\* tryStartPending for the pending context c, its effects following `before`.
\* Its early returns (nothing pending, a context that may not commit, no id
\* from the generator) all leave no session and nothing pending.
StartPendingIfFocused(c, before) ==
  /\ pending' = None
  /\ \/ focused' = c /\ \E s \in SessionId \ issued :
          /\ session' = NewSession(c, s)
          /\ issued' = issued \cup {s}
          /\ effects' = Append(before, StartSession(s))
     \/ effects' = before /\ UNCHANGED <<session, issued>>

TryStartPending(c, before) ==
  /\ pending' = None
  /\ \/ /\ c # None
        /\ contexts'[c] = "alive" /\ focused' = c   \* contextCanCommit, as the event left it
        /\ \E s \in SessionId \ issued :
             /\ session' = NewSession(c, s)
             /\ issued' = issued \cup {s}
             /\ effects' = Append(before, StartSession(s))
     \/ /\ effects' = before
        /\ UNCHANGED <<session, issued>>

-----------------------------------------------------------------------------
ConfiguredUnderInteraction(result) ==
  /\ IF ActiveInteraction
       THEN AbortInteraction /\ effects' = <<Disconnect>>
       ELSE effects' = <<>> /\ UNCHANGED <<connectionState, pending, session>>
  /\ config' = result
  /\ UNCHANGED <<contexts, focused, issued>>

\* A new configuration invalidates whatever runs on the old one.
ConnectionConfigured(result) ==
  /\ IF connectionState # "Disconnected" \/ ActiveInteraction
       THEN AbortInteraction /\ effects' = <<Disconnect>>
       ELSE effects' = <<>> /\ UNCHANGED <<connectionState, pending, session>>
  /\ config' = result
  /\ UNCHANGED <<contexts, focused, issued>>

\* The first lines of the Toggle handler.
ToggleFocus(c, hasFocus) ==
  /\ Touch(c)
  /\ focused' = IF hasFocus THEN c ELSE IF focused = c THEN None ELSE focused

ToggleInterrupts ==
  /\ session # None
  /\ InterruptActiveSession
  /\ effects' = Append(InterruptMessage, AcceptKey)
  /\ UNCHANGED <<connectionState, issued>>

ToggleCancels(c) ==
  /\ session = None
  /\ pending = c
  /\ pending' = None
  /\ effects' = <<AcceptKey>>
  /\ UNCHANGED <<session, connectionState, issued>>

ToggleIgnored(c, hasFocus) ==
  /\ session = None
  /\ pending # c
  /\ ~hasFocus \/ config # "valid"
  /\ effects' = <<>>
  /\ UNCHANGED <<pending, session, connectionState, issued>>

ToggleStarts(c, hasFocus) ==
  /\ session = None
  /\ pending # c
  /\ hasFocus
  /\ config = "valid"
  /\ \/ /\ connectionState = "Disconnected"
        /\ connectionState' = "Connecting"
        /\ pending' = c
        /\ effects' = <<AcceptKey, Connect>>
        /\ UNCHANGED <<session, issued>>
     \/ /\ connectionState = "Connecting"
        /\ pending' = c
        /\ effects' = <<AcceptKey>>
        /\ UNCHANGED <<session, connectionState, issued>>
     \/ /\ connectionState = "Ready"
        /\ TryStartPending(c, <<AcceptKey>>)
        /\ UNCHANGED connectionState

Toggle(c, hasFocus) ==
  /\ contexts[c] # "dead"
  /\ ToggleFocus(c, hasFocus)
  /\ \/ ToggleInterrupts
     \/ ToggleCancels(c)
     \/ ToggleIgnored(c, hasFocus)
     \/ ToggleStarts(c, hasFocus)
  /\ UNCHANGED config

FocusInInterruptsLoser(c) ==
  /\ contexts[c] # "dead"
  /\ Touch(c)
  /\ focused' = c
  /\ IF session # None /\ focused \notin {c, session.context}
       THEN InterruptActiveSession /\ effects' = InterruptMessage
       ELSE /\ pending' = IF pending = c THEN c ELSE None
            /\ effects' = <<>>
            /\ UNCHANGED session
  /\ UNCHANGED <<config, connectionState, issued>>

FocusIn(c) ==
  /\ contexts[c] # "dead"
  /\ Touch(c)
  /\ focused' = c
  /\ IF session # None /\ session.context # c
       THEN InterruptActiveSession /\ effects' = InterruptMessage
       ELSE /\ pending' = IF pending = c THEN c ELSE None
            /\ effects' = <<>>
            /\ UNCHANGED session
  /\ UNCHANGED <<config, connectionState, issued>>

LoseContextButPending(c) ==
  /\ focused' = IF focused = c THEN None ELSE focused
  /\ IF session # None /\ session.context = c
       THEN InterruptActiveSession /\ effects' = InterruptMessage
       ELSE effects' = <<>> /\ UNCHANGED <<pending, session>>
  /\ UNCHANGED <<config, connectionState, issued>>

\* What FocusOut and ContextDestroyed do once they have noted the context's state.
LoseContext(c) ==
  /\ focused' = IF focused = c THEN None ELSE focused
  /\ IF session # None /\ session.context = c
       THEN InterruptActiveSession /\ effects' = InterruptMessage
       ELSE /\ pending' = IF pending = c THEN None ELSE pending
            /\ effects' = <<>>
            /\ UNCHANGED session
  /\ UNCHANGED <<config, connectionState, issued>>

FocusOut(c) ==
  /\ contexts[c] # "dead"
  /\ Touch(c)
  /\ LoseContext(c)

\* The addon reports only contexts it has seen, and forgets their id with the report.
ContextDestroyed(c) ==
  /\ contexts[c] = "alive"
  /\ contexts' = [contexts EXCEPT ![c] = "dead"]
  /\ LoseContext(c)

ConnectionAuthenticated ==
  /\ UNCHANGED <<contexts, config, focused>>
  /\ IF connectionState = "Connecting"
       THEN connectionState' = "Ready" /\ TryStartPending(pending, <<>>)
       ELSE effects' = <<Disconnect>> /\ UNCHANGED <<connectionState, pending, session, issued>>

\* ConnectionClosed and ConnectionFailed.
ConnectionEnded ==
  /\ AbortInteraction
  /\ effects' = <<>>
  /\ UNCHANGED <<contexts, config, focused, issued>>

CommitOutcomeSkipping(s, n) ==
  IF session = None \/ session.id # s THEN "ignored"
  ELSE IF n >= session.nextSequenceNo /\ ContextCanCommit(session.context) THEN "typed"
  ELSE "interrupted"

\* The checks of handleCommitText, in its order: what becomes of fragment n of session s.
CommitOutcome(s, n) ==
  IF session = None \/ session.id # s THEN "ignored"
  ELSE IF n = session.nextSequenceNo /\ ContextCanCommit(session.context) THEN "typed"
  ELSE "interrupted"

DropsSilently(s, n) ==
  /\ IF CommitOutcome(s, n) = "typed"
     THEN /\ session' = [session EXCEPT !.nextSequenceNo = @ + 1]
          /\ effects' = <<CommitText(session.context, s, n)>>
     ELSE /\ session' = IF CommitOutcome(s, n) = "ignored" THEN session ELSE None
          /\ effects' = <<>>
  /\ UNCHANGED <<contexts, config, focused, pending, connectionState, issued>>

HandleCommitText(s, n) ==
  /\ \/ /\ CommitOutcome(s, n) = "ignored"
        /\ effects' = <<>>
        /\ UNCHANGED <<session, pending>>
     \/ /\ CommitOutcome(s, n) = "interrupted"
        /\ InterruptActiveSession
        /\ effects' = InterruptMessage
     \/ /\ CommitOutcome(s, n) = "typed"
        /\ effects' = <<CommitText(session.context, s, n)>>
        /\ session' = [session EXCEPT !.nextSequenceNo = @ + 1]
        /\ UNCHANGED pending
  /\ UNCHANGED <<contexts, config, focused, connectionState, issued>>

\* VadTimeout and Error: the server has ended session s.
SessionEnded(s) ==
  /\ session' = IF session # None /\ session.id = s THEN None ELSE session
  /\ effects' = <<>>
  /\ UNCHANGED <<contexts, config, focused, pending, connectionState, issued>>

Next ==
  \/ \E result \in ConfigResult : ConnectionConfigured(result)
  \/ \E c \in Context, hasFocus \in BOOLEAN : Toggle(c, hasFocus)
  \/ \E c \in Context : FocusIn(c) \/ FocusOut(c) \/ ContextDestroyed(c)
  \/ ConnectionAuthenticated
  \/ ConnectionEnded
  \/ \E s \in SessionId, n \in 0..MaxSequence : HandleCommitText(s, n)
  \/ \E s \in SessionId : SessionEnded(s)

Spec == Init /\ [][Next]_engineVars

-----------------------------------------------------------------------------
(***************************************************************************)
(* Properties                                                              *)
(***************************************************************************)

TypeOK ==
  /\ contexts \in [Context -> ContextState]
  /\ config \in ConfigResult
  /\ focused \in Context \cup {None}
  /\ pending \in Context \cup {None}
  /\ session \in Session \cup {None}
  /\ connectionState \in ConnectionState
  /\ issued \subseteq SessionId
  /\ effects \in Seq(Effect)

\* A start that is still waiting is waiting for a handshake, on a valid
\* configuration, for the live context that has the focus (tryStartPending,
\* clearPending): the three reports that move the focus, the configuration and
\* the connection each have to withdraw it.
PendingInvariant ==
  pending # None =>
    /\ connectionState = "Connecting"
    /\ config = "valid"
    /\ session = None
    /\ ContextCanCommit(pending)

\* A session runs only over an authenticated connection and only while the
\* context it was started for is alive and focused, so the checks of
\* handleCommitText after the sequence check can never fail.
SessionInvariant ==
  session # None =>
    /\ connectionState = "Ready"
    /\ config = "valid"
    /\ session.id \in issued
    /\ ContextCanCommit(session.context)

\* A connection is asked for, waited for and used only while the configuration
\* is valid: ConnectionConfigured has to tear down what the old one carried.
ConfigInvariant == connectionState # "Disconnected" => config = "valid"

\* A session the engine gives up while the connection stays is ended on the
\* wire too (interruptSession): otherwise the server would go on transcribing
\* for nobody, and refuse the next StartSession.  A fragment out of sequence gives
\* a session up like that too, although the rest of the state is as if the server
\* had ended it.
EndIsTold ==
  [][session # None /\ session' = None /\ connectionState' = "Ready" =>
       \/ SessionEnded(session.id) /\ ~\E n \in 0..MaxSequence : HandleCommitText(session.id, n)
       \/ \E i \in DOMAIN effects' : effects'[i] = InterruptSession(session.id)]_engineVars

\* The effects the server or the user can see.
ShownIn(e) == {e[i] : i \in DOMAIN e} \ {AcceptKey, Connect, Disconnect}

D == INSTANCE Dictation WITH
  active <- IF session = None THEN None ELSE session.id,
  target <- IF session = None THEN None ELSE session.context,
  typed  <- IF session = None THEN 0 ELSE session.nextSequenceNo - 1,
  used   <- issued,
  output <- ShownIn(effects)

\* The engine implements the dictations of module Dictation: one at a time,
\* under a fresh id, typed without a gap into one context, interrupted last.
ImplementsDictation == D!Spec
=============================================================================
