---------------------------- MODULE EngineProofs ----------------------------
(***************************************************************************)
(* The invariants of module Engine, and that it implements Dictation, for  *)
(* every set of contexts and session ids.  Type correctness needs the      *)
(* interaction invariants (tryStartPending types its session only because  *)
(* the pending context is a context), so they are proved together as one   *)
(* inductive invariant.                                                    *)
(***************************************************************************)
EXTENDS Engine, TLAPS

Inv == TypeOK /\ PendingInvariant /\ SessionInvariant /\ ConfigInvariant

\* The sequences the handlers return are sequences of effects.
LEMMA EffectTypes ==
  /\ <<>> \in Seq(Effect)
  /\ <<AcceptKey>> \in Seq(Effect)
  /\ <<Disconnect>> \in Seq(Effect)
  /\ <<AcceptKey, Connect>> \in Seq(Effect)
  /\ \A s \in SessionId :
       /\ Append(<<>>, StartSession(s)) \in Seq(Effect)
       /\ Append(<<AcceptKey>>, StartSession(s)) \in Seq(Effect)
       /\ <<InterruptSession(s)>> \in Seq(Effect)
       /\ Append(<<InterruptSession(s)>>, AcceptKey) \in Seq(Effect)
  /\ Append(<<>>, AcceptKey) \in Seq(Effect)
  /\ \A c \in Context, s \in SessionId, n \in Nat : <<CommitText(c, s, n)>> \in Seq(Effect)
<1>1. /\ AcceptKey \in Effect
      /\ Connect \in Effect
      /\ Disconnect \in Effect
  BY DEF Effect, AcceptKey, Connect, Disconnect
<1>2. \A s \in SessionId : StartSession(s) \in Effect /\ InterruptSession(s) \in Effect
  BY DEF Effect, StartSession, InterruptSession
<1>3. \A c \in Context, s \in SessionId, n \in Nat : CommitText(c, s, n) \in Effect
  BY DEF Effect, CommitText
<1> QED
  BY <1>1, <1>2, <1>3

\* The engine starts idle.
LEMMA InitInv == Init => Inv
  BY EffectTypes DEF Init, Inv, TypeOK, PendingInvariant, SessionInvariant, ConfigInvariant,
     ContextState, ConfigResult, ConnectionState

\* A report that ends the connection, or changes its configuration, withdraws
\* the interaction with it.
LEMMA ConnectionConfiguredInv ==
  ASSUME Inv, NEW result \in ConfigResult, ConnectionConfigured(result) PROVE Inv'
  BY EffectTypes DEF ConnectionConfigured, AbortInteraction, ActiveInteraction, Inv, TypeOK,
     PendingInvariant, SessionInvariant, ConfigInvariant, ConnectionState, ContextCanCommit

\* The end of the connection leaves no interaction behind.
LEMMA ConnectionEndedInv ==
  ASSUME Inv, ConnectionEnded PROVE Inv'
  BY EffectTypes DEF ConnectionEnded, AbortInteraction, Inv, TypeOK,
     PendingInvariant, SessionInvariant, ConfigInvariant, ConnectionState, ContextCanCommit

\* Once the connection is ready the pending start becomes a session or is dropped.
LEMMA TryStartPendingInv ==
  ASSUME Inv, config = "valid", session = None,
         NEW c \in Context \cup {None}, NEW before \in {<<>>, <<AcceptKey>>},
         contexts' \in [Context -> ContextState],
         focused' \in Context \cup {None},
         config' = config, connectionState' = "Ready",
         TryStartPending(c, before)
  PROVE  Inv'
<1>1. CASE effects' = before /\ UNCHANGED <<session, issued>>
  BY <1>1, EffectTypes DEF TryStartPending, NewSession, Inv, TypeOK, PendingInvariant, SessionInvariant,
     ConfigInvariant, ConnectionState
<1>2. ASSUME c # None, contexts'[c] = "alive", focused' = c,
             NEW s \in SessionId \ issued,
             session' = [context |-> c, id |-> s, nextSequenceNo |-> 1],
             issued' = issued \cup {s},
             effects' = Append(before, StartSession(s))
      PROVE  Inv'
  <2>1. /\ issued' \subseteq SessionId
        /\ effects' \in Seq(Effect)
    BY <1>2, EffectTypes DEF Inv, TypeOK
  <2>2. /\ session' \in Session
        /\ session'.id \in issued'
        /\ session'.context = c
    BY <1>2 DEF Session
  <2> QED
    BY <1>2, <2>1, <2>2 DEF TryStartPending, NewSession, Inv, TypeOK, PendingInvariant, SessionInvariant,
       ConfigInvariant, ConnectionState, ContextCanCommit
<1> QED
  BY <1>1, <1>2 DEF TryStartPending, NewSession

\* The toggle moves the focus to the context it interacts with, or leaves the
\* context it takes the focus from without a pending start and without a session.
LEMMA ToggleInv ==
  ASSUME Inv, NEW c \in Context, NEW hasFocus \in BOOLEAN, Toggle(c, hasFocus) PROVE Inv'
<1> USE EffectTypes DEF Toggle, ToggleFocus, Touch
<1>1. /\ contexts' \in [Context -> ContextState]
      /\ contexts'[c] = "alive"
      /\ \A d \in Context \ {c} : contexts'[d] = contexts[d]
      /\ focused' \in Context \cup {None}
      /\ config' = config
  BY DEF Inv, TypeOK, ContextState
<1>2. CASE ToggleInterrupts
  BY <1>1, <1>2 DEF ToggleInterrupts, InterruptActiveSession, InterruptMessage, Inv, TypeOK,
     PendingInvariant, SessionInvariant, ConfigInvariant, Session
<1>3. CASE ToggleCancels(c)
  BY <1>1, <1>3 DEF ToggleCancels, Inv, TypeOK,
     PendingInvariant, SessionInvariant, ConfigInvariant, ContextCanCommit
<1>4. CASE ToggleIgnored(c, hasFocus)
  BY <1>1, <1>4, NoneAssumption DEF ToggleIgnored, Inv, TypeOK,
     PendingInvariant, SessionInvariant, ConfigInvariant, ContextCanCommit
<1>5. CASE ToggleStarts(c, hasFocus)
  <2>1. CASE connectionState # "Ready"
    BY <1>1, <1>5, <2>1 DEF ToggleStarts, Inv, TypeOK, ConnectionState,
       PendingInvariant, SessionInvariant, ConfigInvariant, ContextCanCommit
  <2>2. CASE connectionState = "Ready"
    BY <1>1, <1>5, <2>2, TryStartPendingInv DEF ToggleStarts
  <2> QED
    BY <2>1, <2>2
<1> QED
  BY <1>2, <1>3, <1>4, <1>5

\* Moving the focus to another context interrupts the session and withdraws the
\* pending start of the context that had it.
LEMMA FocusInInv ==
  ASSUME Inv, NEW c \in Context, FocusIn(c) PROVE Inv'
<1>1. /\ contexts' \in [Context -> ContextState]
      /\ contexts'[c] = "alive"
      /\ focused' = c
  BY DEF FocusIn, Touch, Inv, TypeOK, ContextState
<1>2. CASE session # None /\ session.context # c
  BY <1>1, <1>2, EffectTypes DEF FocusIn, InterruptActiveSession, InterruptMessage, Inv, TypeOK,
     PendingInvariant, SessionInvariant, ConfigInvariant, Session
<1>3. CASE ~(session # None /\ session.context # c)
  BY <1>1, <1>3, EffectTypes DEF FocusIn, Inv, TypeOK,
     PendingInvariant, SessionInvariant, ConfigInvariant, ContextCanCommit
<1> QED
  BY <1>2, <1>3

\* Losing a context, by focus or for good, leaves no interaction with it.
LEMMA LoseContextInv ==
  ASSUME Inv, NEW c \in Context, LoseContext(c),
         contexts' \in [Context -> ContextState],
         \A d \in Context \ {c} : contexts'[d] = contexts[d]
  PROVE  Inv'
<1>1. focused' \in (Context \cup {None}) \ {c}
  BY NoneAssumption DEF LoseContext, Inv, TypeOK
<1>2. CASE session # None /\ session.context = c
  BY <1>1, <1>2, EffectTypes DEF LoseContext, InterruptActiveSession, InterruptMessage, Inv, TypeOK,
     PendingInvariant, SessionInvariant, ConfigInvariant, Session
<1>3. CASE ~(session # None /\ session.context = c)
  <2>1. session' = session /\ pending' \in {None, pending} \ {c} /\ effects' = <<>>
    BY <1>3, NoneAssumption DEF LoseContext
  <2>2. session # None => session.context # c /\ focused' = focused
    BY <1>3, NoneAssumption DEF LoseContext, Inv, TypeOK, SessionInvariant, ContextCanCommit
  <2>3. pending' # None => pending' = pending /\ focused' = focused
    BY <2>1, NoneAssumption DEF LoseContext, Inv, TypeOK, PendingInvariant, ContextCanCommit
  <2> QED
    BY <1>1, <2>1, <2>2, <2>3, EffectTypes DEF LoseContext, Inv, TypeOK, Session,
       PendingInvariant, SessionInvariant, ConfigInvariant, ContextCanCommit
<1> QED
  BY <1>2, <1>3

\* Losing the focus is losing the context.
LEMMA FocusOutInv ==
  ASSUME Inv, NEW c \in Context, FocusOut(c) PROVE Inv'
  BY LoseContextInv DEF FocusOut, Touch, Inv, TypeOK, ContextState

\* So is losing the context for good.
LEMMA ContextDestroyedInv ==
  ASSUME Inv, NEW c \in Context, ContextDestroyed(c) PROVE Inv'
  BY LoseContextInv DEF ContextDestroyed, Inv, TypeOK, ContextState

\* An authenticated connection turns the pending start into a session.
LEMMA ConnectionAuthenticatedInv ==
  ASSUME Inv, ConnectionAuthenticated PROVE Inv'
<1>1. CASE connectionState = "Connecting"
  <2>1. /\ UNCHANGED <<contexts, config, focused>>
        /\ connectionState' = "Ready" /\ pending' = None
        /\ config = "valid" /\ session = None
    BY <1>1 DEF ConnectionAuthenticated, TryStartPending, NewSession, Inv, ConfigInvariant, SessionInvariant
  <2> QED
    BY <1>1, <2>1, TryStartPendingInv DEF ConnectionAuthenticated, Inv, TypeOK
<1>2. CASE connectionState # "Connecting"
  <2>1. UNCHANGED <<contexts, config, focused, pending, session, connectionState, issued>>
    BY <1>2 DEF ConnectionAuthenticated
  <2>2. effects' \in Seq(Effect)
    BY <1>2, EffectTypes DEF ConnectionAuthenticated
  <2> QED
    BY <2>1, <2>2 DEF Inv, TypeOK, PendingInvariant, SessionInvariant, ConfigInvariant,
       ContextCanCommit
<1> QED
  BY <1>1, <1>2

\* A fragment is typed, ends the session or is ignored.
LEMMA HandleCommitTextInv ==
  ASSUME Inv, NEW s \in SessionId, NEW n \in Nat, HandleCommitText(s, n) PROVE Inv'
<1> USE EffectTypes DEF HandleCommitText
<1>1. CASE CommitOutcome(s, n) = "ignored"
  BY <1>1 DEF Inv, TypeOK, PendingInvariant, SessionInvariant, ConfigInvariant, ContextCanCommit
<1>2. CASE CommitOutcome(s, n) = "interrupted"
  BY <1>2 DEF CommitOutcome, InterruptActiveSession, InterruptMessage, Inv, TypeOK,
     PendingInvariant, SessionInvariant, ConfigInvariant, Session
<1>3. CASE CommitOutcome(s, n) = "typed"
  <2>1. session \in Session /\ session # None /\ session.id = s
    BY <1>3 DEF CommitOutcome, Inv, TypeOK
  <2>2. /\ effects' = <<CommitText(session.context, s, n)>>
        /\ session' = [session EXCEPT !.nextSequenceNo = @ + 1]
        /\ pending' = pending
    BY <1>3
  <2>3. /\ session' \in Session
        /\ session'.id = session.id
        /\ session'.context = session.context
    BY <2>1, <2>2 DEF Session
  <2>4. effects' \in Seq(Effect)
    BY <2>1, <2>2 DEF Session
  <2> QED
    BY <2>1, <2>2, <2>3, <2>4 DEF Inv, TypeOK, PendingInvariant, SessionInvariant,
       ConfigInvariant, ContextCanCommit
<1> QED
  BY <1>1, <1>2, <1>3

\* The server's end of a session leaves the connection ready.
LEMMA SessionEndedInv ==
  ASSUME Inv, NEW s \in SessionId, SessionEnded(s) PROVE Inv'
  BY EffectTypes DEF SessionEnded, Inv, TypeOK, PendingInvariant, SessionInvariant,
     ConfigInvariant, ContextCanCommit

-----------------------------------------------------------------------------
\* Every event preserves the inductive invariant.
LEMMA NextInv == Inv /\ [Next]_engineVars => Inv'
<1> SUFFICES ASSUME Inv, [Next]_engineVars PROVE Inv'
  OBVIOUS
<1>1. CASE \E result \in ConfigResult : ConnectionConfigured(result)
  BY <1>1, ConnectionConfiguredInv
<1>2. CASE \E c \in Context, hasFocus \in BOOLEAN : Toggle(c, hasFocus)
  BY <1>2, ToggleInv
<1>3. CASE \E c \in Context : FocusIn(c) \/ FocusOut(c) \/ ContextDestroyed(c)
  BY <1>3, FocusInInv, FocusOutInv, ContextDestroyedInv
<1>4. CASE ConnectionAuthenticated
  BY <1>4, ConnectionAuthenticatedInv
<1>5. CASE ConnectionEnded
  BY <1>5, ConnectionEndedInv
<1>6. CASE \E s \in SessionId, n \in 0..MaxSequence : HandleCommitText(s, n)
  BY <1>6, HandleCommitTextInv, MaxSequenceAssumption
<1>7. CASE \E s \in SessionId : SessionEnded(s)
  BY <1>7, SessionEndedInv
<1>8. CASE UNCHANGED engineVars
  BY <1>8 DEF engineVars, Inv, TypeOK, PendingInvariant, SessionInvariant,
     ConfigInvariant, ContextCanCommit
<1> QED
  BY <1>1, <1>2, <1>3, <1>4, <1>5, <1>6, <1>7, <1>8 DEF Next

\* The inductive invariant holds throughout every run of the engine.
THEOREM EngineInvariant == Spec => []Inv
  BY InitInv, NextInv, PTL DEF Spec

\* Type correctness of the engine's state and effects.
THEOREM TypeCorrect == Spec => []TypeOK
  BY EngineInvariant, PTL DEF Inv

-----------------------------------------------------------------------------
\* A session given up while the connection stays is interrupted on the wire,
\* unless the server's own message ended it.
LEMMA StepEndIsTold ==
  ASSUME Inv, [Next]_engineVars,
         session # None, session' = None, connectionState' = "Ready"
  PROVE  \/ /\ SessionEnded(session.id)
            /\ ~\E n \in 0..MaxSequence : HandleCommitText(session.id, n)
         \/ \E i \in DOMAIN effects' : effects'[i] = InterruptSession(session.id)
<1> DEFINE Told == \E i \in DOMAIN effects' : effects'[i] = InterruptSession(session.id)
<1>1. connectionState = "Ready" /\ pending = None /\ session \in Session
  BY DEF Inv, TypeOK, SessionInvariant, PendingInvariant
<1>2. /\ Len(Append(<<InterruptSession(session.id)>>, AcceptKey)) = 2
      /\ Append(<<InterruptSession(session.id)>>, AcceptKey)[1] = InterruptSession(session.id)
      /\ Len(<<InterruptSession(session.id)>>) = 1
      /\ <<InterruptSession(session.id)>>[1] = InterruptSession(session.id)
  OBVIOUS
<1>3. ASSUME effects' = InterruptMessage \/ effects' = Append(InterruptMessage, AcceptKey)
      PROVE  Told
  BY <1>1, <1>2, <1>3 DEF InterruptMessage
<1>4. CASE \E result \in ConfigResult : ConnectionConfigured(result)
  BY <1>1, <1>4 DEF ConnectionConfigured, AbortInteraction, ActiveInteraction
<1>5. CASE \E c \in Context, hasFocus \in BOOLEAN : Toggle(c, hasFocus)
  BY <1>3, <1>5 DEF Toggle, ToggleInterrupts, ToggleCancels, ToggleIgnored, ToggleStarts
<1>6. CASE \E c \in Context : FocusIn(c) \/ FocusOut(c) \/ ContextDestroyed(c)
  BY <1>3, <1>6 DEF FocusIn, FocusOut, ContextDestroyed, LoseContext
<1>7. CASE ConnectionAuthenticated
  BY <1>1, <1>7 DEF ConnectionAuthenticated
<1>8. CASE ConnectionEnded
  BY <1>8 DEF ConnectionEnded, AbortInteraction
<1> HIDE DEF Told
<1>9. ASSUME NEW s, NEW n, HandleCommitText(s, n) PROVE Told
  <2>1. CASE CommitOutcome(s, n) = "typed"
    <3>1. session' = [session EXCEPT !.nextSequenceNo = @ + 1]
      BY <1>9, <2>1 DEF HandleCommitText
    <3> QED
      BY <1>1, <3>1, NoneAssumption DEF Session
  <2>2. CASE CommitOutcome(s, n) # "typed"
    BY <1>3, <1>9, <2>2 DEF HandleCommitText
  <2> QED
    BY <2>1, <2>2
<1>10. CASE \E n \in 0..MaxSequence : \E s \in SessionId : HandleCommitText(s, n)
  BY <1>9, <1>10 DEF Told
<1>11. CASE \E s \in SessionId : SessionEnded(s)
  <2>1. SessionEnded(session.id)
    BY <1>11 DEF SessionEnded
  <2>2. (\E n \in 0..MaxSequence : HandleCommitText(session.id, n)) => Told
    BY <1>9
  <2> QED
    BY <2>1, <2>2 DEF Told
<1>12. CASE UNCHANGED engineVars
  BY <1>12 DEF engineVars
<1> QED
  BY <1>4, <1>5, <1>6, <1>7, <1>8, <1>10, <1>11, <1>12 DEF Next

\* No session is left running on the server by the engine.
THEOREM EndsAreTold == Spec => EndIsTold
<1>1. Inv /\ [Next]_engineVars =>
        [session # None /\ session' = None /\ connectionState' = "Ready" =>
           \/ /\ SessionEnded(session.id)
              /\ ~\E n \in 0..MaxSequence : HandleCommitText(session.id, n)
           \/ \E i \in DOMAIN effects' : effects'[i] = InterruptSession(session.id)]_engineVars
  BY StepEndIsTold
<1> QED
  BY <1>1, EngineInvariant, PTL DEF Spec, EndIsTold

\* A pending start waits, focused and alive, for a handshake on a valid configuration.
THEOREM PendingIsOnTarget == Spec => []PendingInvariant
  BY EngineInvariant, PTL DEF Inv

\* A session runs only over a ready connection into the live, focused context
\* it was started for.
THEOREM SessionIsOnTarget == Spec => []SessionInvariant
  BY EngineInvariant, PTL DEF Inv

\* The engine asks for and uses a connection only under a valid configuration.
THEOREM ConnectionIsConfigured == Spec => []ConfigInvariant
  BY EngineInvariant, PTL DEF Inv

-----------------------------------------------------------------------------
(***************************************************************************)
(* The engine implements Dictation: every step begins, types, ends or      *)
(* leaves alone the one dictation the session stands for.                  *)
(***************************************************************************)

\* What is visible in each sequence of effects a handler returns.
LEMMA ShownEffects ==
  /\ ShownIn(<<>>) = {}
  /\ ShownIn(<<AcceptKey>>) = {}
  /\ ShownIn(<<Disconnect>>) = {}
  /\ ShownIn(<<AcceptKey, Connect>>) = {}
  /\ ShownIn(Append(<<>>, AcceptKey)) = {}
  /\ \A s \in SessionId :
       /\ ShownIn(Append(<<>>, StartSession(s))) = {StartSession(s)}
       /\ ShownIn(Append(<<AcceptKey>>, StartSession(s))) = {StartSession(s)}
       /\ ShownIn(<<InterruptSession(s)>>) = {InterruptSession(s)}
       /\ ShownIn(Append(<<InterruptSession(s)>>, AcceptKey)) = {InterruptSession(s)}
  /\ \A c, s, n : ShownIn(<<CommitText(c, s, n)>>) = {CommitText(c, s, n)}
<1> DEFINE Range(e) == {e[i] : i \in DOMAIN e}
<1>1. Range(<<>>) = {} /\ \A a : Range(<<a>>) = {a}
  OBVIOUS
<1>2. \A a, b : Range(<<a, b>>) = {a, b}
  OBVIOUS
<1>3. \A a \in Effect : Range(Append(<<>>, a)) = {a}
  OBVIOUS
<1>4. \A a \in Effect, b \in Effect : Range(Append(<<a>>, b)) = {a, b}
  <2> TAKE a \in Effect, b \in Effect
  <2>1. <<a>> \in Seq(Effect) /\ DOMAIN Append(<<a>>, b) = 1..2
    OBVIOUS
  <2>2. Append(<<a>>, b)[1] = a /\ Append(<<a>>, b)[2] = b
    BY <2>1
  <2> QED
    BY <2>1, <2>2
<1>5. \A e : ShownIn(e) = Range(e) \ {AcceptKey, Connect, Disconnect}
  BY DEF ShownIn
<1>6. AcceptKey \in Effect /\ \A s \in SessionId : StartSession(s) \in Effect /\ InterruptSession(s) \in Effect
  BY DEF Effect, AcceptKey, StartSession, InterruptSession
<1> HIDE DEF Range
<1>7. \A s : StartSession(s) \notin {AcceptKey, Connect, Disconnect}
  BY DEF StartSession, AcceptKey, Connect, Disconnect
<1>8. \A s : InterruptSession(s) \notin {AcceptKey, Connect, Disconnect}
  BY DEF InterruptSession, AcceptKey, Connect, Disconnect
<1>9. \A c, s, n : CommitText(c, s, n) \notin {AcceptKey, Connect, Disconnect}
  BY DEF CommitText, AcceptKey, Connect, Disconnect
<1> QED
  BY <1>1, <1>2, <1>3, <1>4, <1>5, <1>6, <1>7, <1>8, <1>9

\* A step that shows nothing and leaves the session alone is an idle one.
LEMMA IdleStep ==
  ASSUME UNCHANGED <<session, issued>>, ShownIn(effects') = {}
  PROVE  D!Idle
  BY DEF D!Idle, ShownIn

\* Dropping the session, with an interrupt message or without, is an end.
LEMMA EndStep ==
  ASSUME session \in Session, session' = None, issued' = issued,
         ShownIn(effects') \in {{}, {InterruptSession(session.id)}}
  PROVE  D!End
<1>1. session # None /\ session.id # None
  BY NoneAssumption DEF Session
<1> QED
  BY <1>1 DEF D!End, D!Interrupt, InterruptSession, ShownIn

\* Setting a fresh session and announcing it is a beginning.
LEMMA BeginStep ==
  ASSUME session = None, NEW c \in Context, NEW s \in SessionId \ issued,
         session' = [context |-> c, id |-> s, nextSequenceNo |-> 1],
         issued' = issued \cup {s},
         ShownIn(effects') = {StartSession(s)}
  PROVE  \E d \in Context, i \in SessionId : D!Begin(i, d)
<1>1. session' \in Session
  BY DEF Session
<1>2. session' # None /\ session'.id = s /\ session'.context = c /\ session'.nextSequenceNo - 1 = 0
  BY <1>1, NoneAssumption
<1>3. D!Begin(s, c)
  BY <1>2 DEF D!Begin, D!Announce, StartSession, ShownIn
<1> QED
  BY <1>3

\* Committing the expected fragment is a typing.
LEMMA TypeStep ==
  ASSUME session \in Session, issued' = issued,
         session' = [session EXCEPT !.nextSequenceNo = @ + 1],
         ShownIn(effects') = {CommitText(session.context, session.id, session.nextSequenceNo)}
  PROVE  D!Type
<1>1. /\ session' \in Session
      /\ session'.id = session.id
      /\ session'.context = session.context
      /\ session'.nextSequenceNo = session.nextSequenceNo + 1
  BY DEF Session
<1>2. session # None /\ session' # None /\ session.id # None /\ session.nextSequenceNo \in Nat
  BY <1>1, NoneAssumption DEF Session
<1>3. (session.nextSequenceNo + 1) - 1 = (session.nextSequenceNo - 1) + 1
  BY <1>2
<1>4. (session.nextSequenceNo - 1) + 1 = session.nextSequenceNo
  BY <1>2
<1> QED
  BY <1>1, <1>2, <1>3, <1>4 DEF D!Type, D!Typing, CommitText, ShownIn

\* The idle engine has no dictation.
LEMMA InitDictation == Init => D!Init
  BY ShownEffects DEF Init, D!Init, ShownIn

\* Every event is a step of Dictation.
LEMMA StepDictation ==
  ASSUME Inv, [Next]_engineVars PROVE [D!Next]_(D!vars)
<1> USE ShownEffects
<1>1. session # None => session \in Session /\ session.id \in SessionId /\ connectionState = "Ready"
  BY DEF Inv, TypeOK, SessionInvariant, Session
<1>2. ASSUME UNCHANGED <<session, issued>>, ShownIn(effects') = {}
      PROVE  D!Next
  BY <1>2, IdleStep DEF D!Next
<1>3. ASSUME session' = None, issued' = issued,
             \/ ShownIn(effects') = {}
             \/ session # None /\ ShownIn(effects') = {InterruptSession(session.id)}
      PROVE  D!Next
  BY <1>1, <1>2, <1>3, EndStep DEF D!Next
<1>4. ASSUME session # None, session' = None, issued' = issued,
             effects' \in {InterruptMessage, Append(InterruptMessage, AcceptKey)}
      PROVE  D!Next
  BY <1>1, <1>3, <1>4 DEF InterruptMessage
<1>5. ASSUME session = None, NEW c \in Context \cup {None}, NEW before \in {<<>>, <<AcceptKey>>},
             TryStartPending(c, before)
      PROVE  D!Next
  <2>1. CASE effects' = before /\ UNCHANGED <<session, issued>>
    BY <1>2, <2>1
  <2>2. CASE c # None /\ \E s \in SessionId \ issued :
                 /\ session' = [context |-> c, id |-> s, nextSequenceNo |-> 1]
                 /\ issued' = issued \cup {s}
                 /\ effects' = Append(before, StartSession(s))
    BY <1>5, <2>2, BeginStep DEF D!Next
  <2> QED
    BY <1>5, <2>1, <2>2 DEF TryStartPending, NewSession
<1>6. CASE \E result \in ConfigResult : ConnectionConfigured(result)
  BY <1>2, <1>3, <1>6 DEF ConnectionConfigured, AbortInteraction
<1>7. CASE \E c \in Context, hasFocus \in BOOLEAN : Toggle(c, hasFocus)
  <2> PICK c \in Context, hasFocus \in BOOLEAN : Toggle(c, hasFocus)
    BY <1>7
  <2>1. CASE ToggleInterrupts
    BY <1>4, <2>1 DEF ToggleInterrupts, InterruptActiveSession
  <2>2. CASE ToggleCancels(c) \/ ToggleIgnored(c, hasFocus)
    BY <1>2, <2>2 DEF ToggleCancels, ToggleIgnored
  <2>3. CASE ToggleStarts(c, hasFocus)
    BY <1>2, <1>5, <2>3 DEF ToggleStarts
  <2> QED
    BY <2>1, <2>2, <2>3 DEF Toggle
<1>8. CASE \E c \in Context : FocusIn(c) \/ FocusOut(c) \/ ContextDestroyed(c)
  BY <1>2, <1>4, <1>8 DEF FocusIn, FocusOut, ContextDestroyed, LoseContext, InterruptActiveSession
<1>9. CASE ConnectionAuthenticated
  <2>1. CASE connectionState = "Connecting"
    BY <1>1, <1>5, <1>9, <2>1 DEF ConnectionAuthenticated, Inv, TypeOK
  <2>2. CASE connectionState # "Connecting"
    BY <1>2, <1>9, <2>2 DEF ConnectionAuthenticated
  <2> QED
    BY <2>1, <2>2
<1>10. CASE ConnectionEnded
  BY <1>3, <1>10 DEF ConnectionEnded, AbortInteraction
<1>11. CASE \E s \in SessionId, n \in 0..MaxSequence : HandleCommitText(s, n)
  <2> PICK s \in SessionId, n \in 0..MaxSequence : HandleCommitText(s, n)
    BY <1>11
  <2>1. CASE CommitOutcome(s, n) = "ignored"
    BY <1>2, <2>1 DEF HandleCommitText
  <2>2. CASE CommitOutcome(s, n) = "interrupted"
    BY <1>4, <2>2 DEF HandleCommitText, CommitOutcome, InterruptActiveSession
  <2>3. CASE CommitOutcome(s, n) = "typed"
    <3>1. session # None /\ session.id = s /\ n = session.nextSequenceNo
      BY <2>3 DEF CommitOutcome
    <3>2. /\ effects' = <<CommitText(session.context, session.id, session.nextSequenceNo)>>
          /\ session' = [session EXCEPT !.nextSequenceNo = @ + 1]
          /\ issued' = issued
      BY <2>3, <3>1 DEF HandleCommitText
    <3>3. D!Type
      BY <1>1, <3>1, <3>2, TypeStep
    <3> QED
      BY <3>3 DEF D!Next
  <2> QED
    BY <2>1, <2>2, <2>3 DEF HandleCommitText
<1>12. CASE \E s \in SessionId : SessionEnded(s)
  BY <1>2, <1>3, <1>12 DEF SessionEnded
<1>13. CASE UNCHANGED engineVars
  BY <1>13 DEF engineVars, D!vars, ShownIn
<1> QED
  BY <1>6, <1>7, <1>8, <1>9, <1>10, <1>11, <1>12, <1>13 DEF Next

\* The engine implements the dictations of module Dictation.
THEOREM EngineImplementsDictation == Spec => ImplementsDictation
<1>1. Inv /\ [Next]_engineVars => [D!Next]_(D!vars)
  BY StepDictation
<1> QED
  BY <1>1, InitDictation, EngineInvariant, PTL DEF Spec, ImplementsDictation, D!Spec

-----------------------------------------------------------------------------
(***************************************************************************)
(* What the engine tells the server, for the modules it is a part of.      *)
(***************************************************************************)
Message == {StartSession(s) : s \in SessionId} \cup {InterruptSession(s) : s \in SessionId}
Told(e) == {e[i] : i \in DOMAIN e} \cap Message

\* An event may end the session, if there is one, leave it alone, ...
Ends ==
  /\ session' = None /\ issued' = issued
  /\ \A f \in Told(effects') : session # None /\ f = InterruptSession(session.id)
Stays == session' = session /\ issued' = issued /\ Told(effects') = {}
\* ... or begin one, of which the server is told, once.
Begins ==
  \E s \in SessionId \ issued :
    /\ session = None /\ session' \in Session
    /\ session'.id = s /\ session'.nextSequenceNo = 1
    /\ issued' = issued \cup {s}
    /\ Told(effects') = {StartSession(s)}
    /\ \A i, j \in DOMAIN effects' : effects'[i] = StartSession(s) /\ effects'[j] = StartSession(s) => i = j

\* The events that carry no text.
Wordless ==
  \/ \E result \in ConfigResult : ConnectionConfigured(result)
  \/ \E c \in Context, hasFocus \in BOOLEAN : Toggle(c, hasFocus)
  \/ \E c \in Context : FocusIn(c) \/ FocusOut(c) \/ ContextDestroyed(c)
  \/ ConnectionAuthenticated
  \/ ConnectionEnded
  \/ \E s \in SessionId : SessionEnded(s)

\* What the sequences of effects tell the server.
LEMMA ToldEffects ==
  /\ Told(<<>>) = {}
  /\ Told(<<AcceptKey>>) = {}
  /\ Told(<<Disconnect>>) = {}
  /\ Told(<<AcceptKey, Connect>>) = {}
  /\ Told(Append(<<>>, AcceptKey)) = {}
  /\ \A s \in SessionId :
       /\ Told(Append(<<>>, StartSession(s))) = {StartSession(s)}
       /\ Told(Append(<<AcceptKey>>, StartSession(s))) = {StartSession(s)}
       /\ Told(<<InterruptSession(s)>>) = {InterruptSession(s)}
       /\ Told(Append(<<InterruptSession(s)>>, AcceptKey)) = {InterruptSession(s)}
  /\ \A c, s, n : Told(<<CommitText(c, s, n)>>) = {}
<1>1. \A e : Told(e) = ShownIn(e) \cap Message
  BY DEF Told, ShownIn, Message, StartSession, InterruptSession, AcceptKey, Connect, Disconnect
<1>2. \A c, s, n : CommitText(c, s, n) \notin Message
  BY DEF CommitText, Message, StartSession, InterruptSession
<1>3. \A s \in SessionId : StartSession(s) \in Message /\ InterruptSession(s) \in Message
  BY DEF Message
<1> QED
  BY <1>1, <1>2, <1>3, ShownEffects

\* A start is said once.
LEMMA StartOnce ==
  ASSUME NEW s \in SessionId, NEW before \in {<<>>, <<AcceptKey>>}, NEW e, e = Append(before, StartSession(s))
  PROVE  \A i, j \in DOMAIN e : e[i] = StartSession(s) /\ e[j] = StartSession(s) => i = j
<1>1. AcceptKey # StartSession(s)
  BY DEF AcceptKey, StartSession
<1>2. CASE before = <<>>
  <2>1. DOMAIN e = {1}
    BY <1>2
  <2> QED
    BY <2>1
<1>3. CASE before = <<AcceptKey>>
  <2>1. DOMAIN e = {1, 2} /\ e[1] = AcceptKey
    BY <1>3
  <2> QED
    BY <1>1, <2>1
<1> QED
  BY <1>2, <1>3

\* Interrupting the session ends it.
LEMMA InterruptEnds ==
  ASSUME Inv, session # None, session' = None, issued' = issued,
         effects' \in {InterruptMessage, Append(InterruptMessage, AcceptKey)}
  PROVE  Ends
<1>1. session.id \in SessionId
  BY DEF Inv, TypeOK, Session
<1>2. Told(effects') \subseteq {InterruptSession(session.id)}
  BY <1>1, ToldEffects DEF InterruptMessage
<1> QED
  BY <1>1, <1>2 DEF Ends

\* The pending start is dropped, or it becomes a session.
LEMMA TryStartTells ==
  ASSUME Inv, session = None, NEW c \in Context \cup {None}, NEW before \in {<<>>, <<AcceptKey>>},
         TryStartPending(c, before)
  PROVE  Stays \/ Begins
<1>1. CASE effects' = before /\ UNCHANGED <<session, issued>>
  BY <1>1, ToldEffects DEF Stays
<1>2. ASSUME c # None, NEW s \in SessionId \ issued,
             session' = [context |-> c, id |-> s, nextSequenceNo |-> 1],
             issued' = issued \cup {s},
             effects' = Append(before, StartSession(s))
      PROVE  Begins
  <2>1. session' \in Session /\ session'.id = s /\ session'.nextSequenceNo = 1
    BY <1>2 DEF Session
  <2>2. Told(effects') = {StartSession(s)}
    BY <1>2, ToldEffects
  <2>3. \A i, j \in DOMAIN effects' : effects'[i] = StartSession(s) /\ effects'[j] = StartSession(s) => i = j
    BY <1>2, StartOnce
  <2> QED
    BY <1>2, <2>1, <2>2, <2>3 DEF Begins
<1> QED
  BY <1>1, <1>2 DEF TryStartPending, NewSession

\* What the events without a text do to the session.
LEMMA WordlessTells ==
  ASSUME Inv, Wordless
  PROVE  Ends \/ Stays \/ Begins
<1> USE ToldEffects
<1>1. session # None => connectionState = "Ready"
  BY DEF Inv, SessionInvariant
<1>2. ASSUME UNCHANGED <<session, issued>>, Told(effects') = {} PROVE Stays
  BY <1>2 DEF Stays
<1>3. ASSUME session' = None, issued' = issued, Told(effects') = {} PROVE Ends
  BY <1>3 DEF Ends
<1>4. CASE \E result \in ConfigResult : ConnectionConfigured(result)
  BY <1>2, <1>3, <1>4 DEF ConnectionConfigured, AbortInteraction
<1>5. CASE \E c \in Context, hasFocus \in BOOLEAN : Toggle(c, hasFocus)
  <2> PICK c \in Context, hasFocus \in BOOLEAN : Toggle(c, hasFocus)
    BY <1>5
  <2>1. CASE ToggleInterrupts
    BY <2>1, InterruptEnds DEF ToggleInterrupts, InterruptActiveSession
  <2>2. CASE ToggleCancels(c) \/ ToggleIgnored(c, hasFocus)
    BY <1>2, <2>2 DEF ToggleCancels, ToggleIgnored
  <2>3. CASE ToggleStarts(c, hasFocus)
    BY <1>2, <2>3, TryStartTells DEF ToggleStarts
  <2> QED
    BY <2>1, <2>2, <2>3 DEF Toggle
<1>6. CASE \E c \in Context : FocusIn(c) \/ FocusOut(c) \/ ContextDestroyed(c)
  BY <1>2, <1>6, InterruptEnds DEF FocusIn, FocusOut, ContextDestroyed, LoseContext, InterruptActiveSession
<1>7. CASE ConnectionAuthenticated
  <2>1. CASE connectionState = "Connecting"
    BY <1>1, <1>7, <2>1, TryStartTells DEF ConnectionAuthenticated, Inv, TypeOK
  <2>2. CASE connectionState # "Connecting"
    BY <1>2, <1>7, <2>2 DEF ConnectionAuthenticated
  <2> QED
    BY <2>1, <2>2
<1>8. CASE ConnectionEnded
  BY <1>3, <1>8 DEF ConnectionEnded, AbortInteraction
<1>9. CASE \E s \in SessionId : SessionEnded(s)
  BY <1>2, <1>3, <1>9 DEF SessionEnded
<1> QED
  BY <1>4, <1>5, <1>6, <1>7, <1>8, <1>9 DEF Wordless

\* What a fragment does to it: the expected one is typed, another one ends it.
LEMMA FragmentTells ==
  ASSUME Inv, NEW s \in SessionId, NEW n \in Nat, HandleCommitText(s, n)
  PROVE  \/ Ends /\ session # None /\ session.id = s
         \/ Stays /\ (session = None \/ session.id # s)
         \/ /\ session # None /\ session.id = s /\ session.nextSequenceNo = n
            /\ session' = [session EXCEPT !.nextSequenceNo = n + 1]
            /\ issued' = issued /\ Told(effects') = {}
<1>1. CASE CommitOutcome(s, n) = "ignored"
  BY <1>1, ToldEffects DEF HandleCommitText, CommitOutcome, Stays
<1>2. CASE CommitOutcome(s, n) = "interrupted"
  BY <1>2, InterruptEnds DEF HandleCommitText, CommitOutcome, InterruptActiveSession
<1>3. CASE CommitOutcome(s, n) = "typed"
  <2>1. session # None /\ session.id = s /\ n = session.nextSequenceNo
    BY <1>3 DEF CommitOutcome
  <2>2. /\ effects' = <<CommitText(session.context, s, n)>>
        /\ session' = [session EXCEPT !.nextSequenceNo = n + 1]
        /\ issued' = issued
    BY <1>3, <2>1 DEF HandleCommitText
  <2> QED
    BY <2>1, <2>2, ToldEffects
<1> QED
  BY <1>1, <1>2, <1>3 DEF HandleCommitText
=============================================================================
