---------------------------- MODULE AddonProofs ----------------------------
(***************************************************************************)
(* The properties of module Addon, for any addresses, ids and sessions and *)
(* any number of objects.  What the engine promises is taken from          *)
(* EngineProofs, of which the addon's engine is an instance; on it rest    *)
(* the agreement of the two maps, the burial of dead ids, and at last that *)
(* text goes to the object whose key has asked for it.                     *)
(***************************************************************************)
EXTENDS Addon, TLAPS

P == INSTANCE EngineProofs WITH Context <- ContextId

\* The types the maps and fcitx's objects keep.
Objects ==
  /\ living \in [Address -> Nat]
  /\ created \in Nat
  /\ hasFocus \subseteq {a \in Address : living[a] # 0}
  /\ dying \in Address \cup {None}

MapTypes ==
  /\ nextContextId \in Nat \ {0}
  /\ idOf \in [Address -> ContextId \cup {0}]
  /\ watched \in [ContextId -> Nat]

MapInv == Objects /\ MapTypes /\ MapsAgree

\* What a step does to the maps.
MapStep ==
  \/ \E a \in Address : living[a] # 0 /\ EnsureContextId(a)
  \/ \E c : EraseContext(c)
  \/ UNCHANGED mapVars

\* The maps begin empty.
LEMMA InitMaps == Init => MapInv
  BY ContextIdAssumption DEF Init, MapInv, Objects, MapTypes, MapsAgree

\* ensureContextId keeps the maps in agreement, and returns an id of theirs.
LEMMA EnsureKeeps ==
  ASSUME MapInv, NEW a \in Address, living[a] # 0, EnsureContextId(a)
  PROVE  EnsuredId(a) \in ContextId /\ MapTypes' /\ MapsAgree'
<1>1. CASE idOf[a] # 0
  BY <1>1 DEF MapInv, MapTypes, MapsAgree, mapVars, EnsureContextId, EnsuredId
<1>2. CASE idOf[a] = 0
  <2>1. /\ nextContextId \in ContextId /\ nextContextId' = nextContextId + 1
        /\ watched' = [watched EXCEPT ![nextContextId] = living[a]]
        /\ idOf' = [idOf EXCEPT ![a] = nextContextId]
    BY <1>2 DEF EnsureContextId
  <2>2. MapTypes'
    BY <2>1 DEF MapInv, MapTypes, Objects
  <2>3. \A c \in ContextId : watched[c] # 0 => c < nextContextId
    BY DEF MapInv, MapsAgree
  <2>4. \A b \in Address : idOf[b] # 0 => idOf[b] \in ContextId /\ watched[idOf[b]] # 0
    BY DEF MapInv, MapTypes, MapsAgree
  <2>5. {idOf'[b] : b \in Address} \ {0} = {c \in ContextId : watched'[c] # 0}
    <3>1. {idOf'[b] : b \in Address} \ {0} \subseteq {c \in ContextId : watched'[c] # 0}
      BY <2>1, <2>3, <2>4, ContextIdAssumption DEF MapInv, MapTypes
    <3>2. ASSUME NEW c \in ContextId, watched'[c] # 0 PROVE c \in {idOf'[b] : b \in Address} \ {0}
      <4>1. CASE c = nextContextId
        BY <2>1, <4>1, ContextIdAssumption DEF MapInv, MapTypes
      <4>2. CASE c # nextContextId
        <5>1. watched[c] # 0
          BY <2>1, <3>2, <4>2 DEF MapInv, MapTypes
        <5>2. PICK b \in Address : idOf[b] = c
          BY <5>1 DEF MapInv, MapsAgree
        <5> QED
          BY <1>2, <2>1, <5>2, ContextIdAssumption DEF MapInv, MapTypes
      <4> QED
        BY <4>1, <4>2
    <3> QED
      BY <3>1, <3>2
  <2>6. \A b, d \in Address : idOf'[b] = idOf'[d] /\ idOf'[b] # 0 => b = d
    BY <2>1, <2>3, <2>4, ContextIdAssumption DEF MapInv, MapTypes, MapsAgree
  <2>7. \A c \in ContextId : watched'[c] # 0 => c < nextContextId'
    BY <2>1, <2>3, ContextIdAssumption DEF MapInv, MapTypes
  <2> QED
    BY <1>2, <2>1, <2>2, <2>5, <2>6, <2>7 DEF MapsAgree, EnsuredId
<1> QED
  BY <1>1, <1>2

\* eraseContext keeps the maps in agreement.
LEMMA EraseKeeps ==
  ASSUME MapInv, NEW c, EraseContext(c)
  PROVE  MapTypes' /\ MapsAgree'
<1>1. MapTypes'
  BY DEF MapInv, MapTypes, EraseContext
<1>2. \A b \in Address : idOf'[b] # 0 => idOf'[b] = idOf[b]
  BY DEF MapInv, MapTypes, EraseContext
<1>3. CASE c \in ContextId /\ watched[c] # 0
  <2>1. \A d \in ContextId : watched'[d] # 0 <=> watched[d] # 0 /\ d # c
    BY <1>3 DEF MapInv, MapTypes, EraseContext
  <2>2. \A b \in Address : idOf'[b] = IF idOf[b] = c THEN 0 ELSE idOf[b]
    BY <1>3 DEF MapInv, MapTypes, EraseContext
  <2>3. \A d \in ContextId : watched[d] # 0 <=> \E b \in Address : idOf[b] = d
    BY ContextIdAssumption DEF MapInv, MapsAgree
  <2>4. \A b \in Address : idOf[b] \in ContextId \cup {0}
    BY DEF MapInv, MapTypes
  <2>5. {idOf'[b] : b \in Address} \ {0} = {d \in ContextId : watched'[d] # 0}
    <3>1. \A d \in ContextId : watched'[d] # 0 <=> \E b \in Address : idOf'[b] = d
      BY <2>1, <2>2, <2>3, ContextIdAssumption
    <3>2. \A b \in Address : idOf'[b] \in ContextId \cup {0}
      BY <2>2, <2>4
    <3>3. ASSUME NEW b \in Address, idOf'[b] # 0
          PROVE  idOf'[b] \in {d \in ContextId : watched'[d] # 0}
      BY <3>1, <3>2, <3>3
    <3>4. ASSUME NEW d \in ContextId, watched'[d] # 0
          PROVE  d \in {idOf'[b] : b \in Address} \ {0}
      BY <3>1, <3>4, ContextIdAssumption
    <3> QED
      BY <3>3, <3>4
  <2> QED
    BY <1>1, <1>2, <2>1, <2>5 DEF MapInv, MapsAgree, EraseContext
<1>4. CASE ~(c \in ContextId /\ watched[c] # 0)
  <2>1. watched' = watched /\ nextContextId' = nextContextId
    BY <1>4 DEF MapInv, MapTypes, EraseContext
  <2>2. \A b \in Address : idOf[b] = c => c = 0
    BY <1>4 DEF MapInv, MapTypes, MapsAgree
  <2>3. \A b \in Address : idOf'[b] = idOf[b]
    BY <2>2 DEF EraseContext
  <2> QED
    BY <1>1, <2>1, <2>3 DEF MapInv, MapsAgree
<1> QED
  BY <1>3, <1>4

\* Every step is one of the maps, and leaves fcitx's objects well formed.
LEMMA MapSteps ==
  ASSUME MapInv, [Next]_vars PROVE MapStep /\ Objects'
<1> USE DEF MapInv
<1>1. CASE Apply
  <2>1. UNCHANGED <<dying, fcitxVars>>
    BY <1>1 DEF Apply
  <2>2. MapStep
    BY <1>1 DEF Apply, ApplyToIo, ApplyCommitText, MapStep
  <2> QED
    BY <2>1, <2>2 DEF Objects, fcitxVars
<1>2. CASE DispatchNext
  BY <1>2 DEF DispatchNext, MapStep, Objects, fcitxVars
<1>3. CASE ContextDied
  BY <1>3 DEF ContextDied, ContextGone, MapStep, Objects, DispatchReturned
<1>4. ASSUME NEW a \in Address, KeyPressed(a) PROVE MapStep /\ Objects'
  BY <1>4 DEF KeyPressed, MapStep, Objects, fcitxVars
<1>5. ASSUME NEW a \in Address, FocusGained(a) PROVE MapStep /\ Objects'
  BY <1>5 DEF FocusGained, MapStep, Objects
<1>6. ASSUME NEW a \in Address, FocusLost(a) PROVE MapStep /\ Objects'
  BY <1>6 DEF FocusLost, MapStep, Objects
<1>7. ASSUME NEW a \in Address, ContextDying(a) PROVE MapStep /\ Objects'
  BY <1>7 DEF ContextDying, MapStep, Objects, fcitxVars
<1>8. ASSUME NEW a \in Address, ContextVanishes(a) PROVE MapStep /\ Objects'
  BY <1>8 DEF ContextVanishes, ContextGone, MapStep, Objects
<1>9. ASSUME NEW a \in Address, ContextCreated(a) PROVE MapStep /\ Objects'
  BY <1>9, MaxObjectsAssumption DEF ContextCreated, MapStep, Objects
<1>10. CASE Reconfigure \/ EnvironmentChanges \/ Callback
  BY <1>10 DEF Reconfigure, EnvironmentChanges, Callback, MapStep, Objects, fcitxVars
<1>11. CASE UNCHANGED vars
  BY <1>11 DEF vars, MapStep, Objects, fcitxVars
<1> QED
  BY <1>1, <1>2, <1>3, <1>4, <1>5, <1>6, <1>7, <1>8, <1>9, <1>10, <1>11
     DEF Next, HandlerStep, FcitxEvent

\* The agreement of the maps is inductive.
LEMMA NextMaps == MapInv /\ [Next]_vars => MapInv'
<1> SUFFICES ASSUME MapInv, [Next]_vars PROVE MapTypes' /\ MapsAgree'
  BY MapSteps DEF MapInv
<1>1. CASE UNCHANGED mapVars
  BY <1>1 DEF MapInv, MapTypes, MapsAgree, mapVars
<1> QED
  BY <1>1, MapSteps, EnsureKeeps, EraseKeeps DEF MapStep

\* The two maps name the same contexts, and no id goes to two pointers or is
\* handed out twice (MapsAgree).
THEOREM MapsAlwaysAgree == Spec => []MapsAgree
  BY InitMaps, NextMaps, PTL DEF Spec, MapInv

-----------------------------------------------------------------------------
\* A path that is not empty and valid has been expanded.
PathInv == socketPath # None /\ socketPathValid => resolvedSocketPath # None

\* setConfig and reloadConfig expand the path they take.
LEMMA NextPath == PathInv /\ [Next]_vars => PathInv'
<1> SUFFICES ASSUME PathInv, [Next]_vars PROVE PathInv'
  OBVIOUS
<1>1. CASE C!Replace
  BY <1>1, NoneAssumption DEF C!Replace, C!ResolveSocketPath, PathInv
<1>2. CASE UNCHANGED <<socketPath, resolvedSocketPath, socketPathValid>>
  BY <1>2 DEF PathInv
<1>3. C!Replace \/ UNCHANGED <<socketPath, resolvedSocketPath, socketPathValid>>
  BY DEF Next, HandlerStep, Apply, DispatchNext, ContextDied, FcitxEvent, KeyPressed, FocusGained,
     FocusLost, ContextDying, ContextVanishes, ContextCreated, Reconfigure, EnvironmentChanges,
     C!EnvironmentChanges, C!optionVars, Callback, configVars, vars
<1> QED
  BY <1>1, <1>2, <1>3

\* A path and a token, whenever they are looked up.
LEMMA PathIsComplete == PathInv => ConnectIsComplete
  BY NoneAssumption DEF PathInv, ConnectIsComplete, C!Resolved, C!EffectiveSocketPath,
     C!EffectiveAuthToken

\* A connection is attempted with a path and a token or not at all
\* (ConnectIsComplete), whatever of the options and the environment is set.
THEOREM ConnectsComplete == Spec => []ConnectIsComplete
<1>1. Init => PathInv
  BY DEF Init, C!Init, PathInv
<1> QED
  BY <1>1, NextPath, PathIsComplete, PTL DEF Spec

-----------------------------------------------------------------------------
\* The engine is Engine, whose theorems hold of it.
LEMMA EngineAssumptions == P!NoneAssumption /\ P!MaxSequenceAssumption
  BY NoneAssumption, MaxSequenceAssumption
     DEF P!NoneAssumption, P!MaxSequenceAssumption, E!Session, P!Session

\* An event of the addon's engine is one of module Engine.
LEMMA SameEngine == E!Next => P!Next
  BY DEF E!Next, P!Next, E!ConfigResult, P!ConfigResult,
     E!ConnectionConfigured, P!ConnectionConfigured, E!ActiveInteraction, P!ActiveInteraction,
     E!AbortInteraction, P!AbortInteraction, E!Toggle, P!Toggle, E!ToggleFocus, P!ToggleFocus,
     E!Touch, P!Touch, E!ToggleInterrupts, P!ToggleInterrupts, E!ToggleCancels, P!ToggleCancels,
     E!ToggleIgnored, P!ToggleIgnored, E!ToggleStarts, P!ToggleStarts,
     E!InterruptActiveSession, P!InterruptActiveSession, E!InterruptMessage, P!InterruptMessage,
     E!TryStartPending, P!TryStartPending, E!NewSession, P!NewSession,
     E!FocusIn, P!FocusIn, E!FocusOut, P!FocusOut, E!ContextDestroyed, P!ContextDestroyed,
     E!LoseContext, P!LoseContext, E!ConnectionAuthenticated, P!ConnectionAuthenticated,
     E!ConnectionEnded, P!ConnectionEnded, E!HandleCommitText, P!HandleCommitText,
     E!CommitOutcome, P!CommitOutcome, E!ContextCanCommit, P!ContextCanCommit,
     E!CommitText, P!CommitText, E!SessionEnded, P!SessionEnded,
     E!AcceptKey, P!AcceptKey, E!Connect, P!Connect, E!Disconnect, P!Disconnect,
     E!StartSession, P!StartSession, E!InterruptSession, P!InterruptSession

\* Hence it keeps the engine's invariant.
LEMMA EngineNextInv == P!Inv /\ E!Next => P!Inv'
  BY SameEngine, EngineAssumptions, P!NextInv

-----------------------------------------------------------------------------
\* The engine's invariants, the maps, and the queue of dispatch.
AddonInv == P!Inv /\ MapInv /\ followUps \in Seq(FollowUpEvent)

\* The first effect of a queue of effects is one, and so are the others.
LEMMA EffectsAre ==
  ASSUME P!Inv, effects # <<>>
  PROVE  /\ Tail(effects) \in Seq(P!Effect)
         /\ Head(effects) \in P!Effect
         /\ Head(effects).type = "CommitText" => Head(effects).context \in ContextId
<1>1. effects \in Seq(P!Effect)
  BY DEF P!Inv, P!TypeOK
<1>2. Head(effects) \in P!Effect
  BY <1>1
<1> QED
  BY <1>1, <1>2 DEF P!Effect

\* An event of the engine, one of its effects performed, or neither.
EngineRests == UNCHANGED <<contexts, config, focused, pending, session, connectionState, issued>>
EngineStep ==
  \/ E!Next
  \/ effects # <<>> /\ effects' = Tail(effects) /\ EngineRests
  \/ UNCHANGED engineVars

\* Every step of the addon is an event of the engine, an effect performed, or neither.
LEMMA EngineSteps ==
  ASSUME AddonInv, [Next]_vars PROVE EngineStep
<1> USE DEF EngineStep
<1>1. CASE Apply
  BY <1>1 DEF Apply, EngineRests
<1>2. CASE DispatchNext
  <2>1. Head(followUps) \in FollowUpEvent
    BY <1>2 DEF DispatchNext, AddonInv
  <2>2. Head(followUps).type = "ContextDestroyed" => Head(followUps).context \in ContextId
    BY <2>1 DEF FollowUpEvent, ConnectionFailed, ConnectionConfigured, ContextDestroyed
  <2> QED
    BY <1>2, <2>2 DEF DispatchNext, TellEngine, E!Next, E!ConfigResult
<1>3. ASSUME NEW a \in Address, KeyPressed(a) \/ FocusGained(a) \/ FocusLost(a) PROVE EngineStep
  <2>1. living[a] # 0 /\ EnsureContextId(a)
    BY <1>3 DEF KeyPressed, FocusGained, FocusLost, AddonInv, MapInv, Objects
  <2>2. EnsuredId(a) \in ContextId
    BY <2>1, EnsureKeeps DEF AddonInv
  <2>3. (a \in hasFocus) \in BOOLEAN
    OBVIOUS
  <2> QED
    BY <1>3, <2>2, <2>3 DEF KeyPressed, FocusGained, FocusLost, E!Next
<1>4. ASSUME NEW a \in Address, ContextDying(a) PROVE EngineStep
  BY <1>4 DEF ContextDying, E!Next, AddonInv, MapInv, MapTypes
<1>5. CASE Callback
  BY <1>5 DEF Callback, E!Next
<1>6. CASE ContextDied \/ Reconfigure \/ EnvironmentChanges \/ UNCHANGED vars
  BY <1>6 DEF ContextDied, Reconfigure, EnvironmentChanges, vars
<1>7. ASSUME NEW a \in Address, ContextVanishes(a) \/ ContextCreated(a) PROVE EngineStep
  BY <1>7 DEF ContextVanishes, ContextCreated
<1> QED
  BY <1>1, <1>2, <1>3, <1>4, <1>5, <1>6, <1>7 DEF Next, HandlerStep, FcitxEvent

\* dispatch queues nothing but follow-up events.
LEMMA NextFollowUps ==
  ASSUME AddonInv, [Next]_vars PROVE followUps' \in Seq(FollowUpEvent)
<1>1. /\ ConnectionFailed \in FollowUpEvent
      /\ ConnectionConfigured \in FollowUpEvent
      /\ \A c \in ContextId : ContextDestroyed(c) \in FollowUpEvent
  BY DEF FollowUpEvent
<1>2. CASE Apply
  BY <1>1, <1>2, EffectsAre DEF Apply, ApplyToIo, ApplyCommitText, FollowUp, AddonInv
<1>3. CASE DispatchNext
  BY <1>3 DEF DispatchNext, AddonInv
<1>4. CASE Reconfigure
  BY <1>1, <1>4 DEF Reconfigure, FollowUp, AddonInv
<1>5. CASE UNCHANGED followUps
  BY <1>5 DEF AddonInv
<1> QED
  BY <1>2, <1>3, <1>4, <1>5 DEF Next, HandlerStep, ContextDied, FcitxEvent, KeyPressed, FocusGained,
     FocusLost, ContextDying, ContextVanishes, ContextCreated, EnvironmentChanges, Callback, vars

\* The constructor leaves the engine, the maps and the queue in order.
LEMMA InitAddon == Init => AddonInv
<1>1. E!Init => P!Init
  BY DEF E!Init, P!Init
<1>2. Init => followUps \in Seq(FollowUpEvent)
  BY DEF Init, FollowUpEvent
<1> QED
  BY <1>1, <1>2, InitMaps, EngineAssumptions, P!InitInv DEF Init, AddonInv

\* The invariants of the engine, the maps and the queue hold together.
LEMMA NextAddon == AddonInv /\ [Next]_vars => AddonInv'
<1> SUFFICES ASSUME AddonInv, [Next]_vars PROVE AddonInv'
  OBVIOUS
<1>1. P!Inv'
  <2>1. CASE E!Next
    BY <2>1, EngineNextInv DEF AddonInv
  <2>2. CASE effects # <<>> /\ effects' = Tail(effects) /\ EngineRests
    BY <2>2, EffectsAre DEF EngineRests, AddonInv, P!Inv, P!TypeOK, P!PendingInvariant,
       P!SessionInvariant, P!ConfigInvariant, P!ContextCanCommit
  <2>3. CASE UNCHANGED engineVars
    BY <2>3 DEF engineVars, AddonInv, P!Inv, P!TypeOK, P!PendingInvariant,
       P!SessionInvariant, P!ConfigInvariant, P!ContextCanCommit
  <2> QED
    BY <2>1, <2>2, <2>3, EngineSteps DEF EngineStep
<1> QED
  BY <1>1, NextMaps, NextFollowUps DEF AddonInv

-----------------------------------------------------------------------------
\* What the engine's actions do to the contexts and to the configuration.
LEMMA EngineEffects ==
  /\ \A result : E!ConnectionConfigured(result) => contexts' = contexts /\ config' = result
  /\ \A c, hasF :
       E!Toggle(c, hasF) \/ E!FocusIn(c) \/ E!FocusOut(c) =>
         contexts' = [contexts EXCEPT ![c] = "alive"] /\ contexts[c] # "dead" /\ config' = config
  /\ \A c : E!ContextDestroyed(c) =>
         contexts' = [contexts EXCEPT ![c] = "dead"] /\ contexts[c] = "alive" /\ config' = config
  /\ E!ConnectionAuthenticated \/ E!ConnectionEnded => UNCHANGED <<contexts, config>>
  /\ \A s, n : E!HandleCommitText(s, n) \/ E!SessionEnded(s) => UNCHANGED <<contexts, config>>
  BY DEF E!ConnectionConfigured, E!Toggle, E!ToggleFocus, E!Touch, E!FocusIn, E!FocusOut,
     E!ContextDestroyed, E!LoseContext, E!ConnectionAuthenticated, E!ConnectionEnded,
     E!HandleCommitText, E!SessionEnded

\* The engine's configuration is that of the environment it was told it in.
Told == INSTANCE Config WITH environment <- told

AllTold == \A i \in DOMAIN followUps : followUps[i] # ConnectionConfigured

Known == AllTold => ((config = "valid") <=> (Told!Resolved # None))

\* Only a change of the options, or of what they are looked up in, parts the
\* engine from the configuration, and that queues the event which tells it.
LEMMA NextKnown ==
  ASSUME AddonInv, Known, [Next]_vars PROVE Known'
<1> DEFINE Same == UNCHANGED <<socketPath, authTokenEnv, resolvedSocketPath, socketPathValid, told>>
<1>1. Same => (Told!Resolved)' = Told!Resolved
  BY DEF Told!Resolved, Told!EffectiveSocketPath, Told!EffectiveAuthToken
<1>2. followUps \in Seq(FollowUpEvent)
  BY DEF AddonInv
<1>3. CASE Apply
  <2>1. Same /\ config' = config
    BY <1>3 DEF Apply, configVars
  <2>2. AllTold' => AllTold
    <3>1. UNCHANGED followUps \/ \E e : followUps' = Append(followUps, e)
      BY <1>3 DEF Apply, ApplyToIo, ApplyCommitText, FollowUp
    <3> QED
      BY <1>2, <3>1 DEF AllTold
  <2> QED
    BY <1>1, <2>1, <2>2 DEF Known
<1>4. CASE DispatchNext
  <2>1. Head(followUps) = followUps[1] /\ 1 \in DOMAIN followUps
    BY <1>2, <1>4 DEF DispatchNext
  <2>2. followUps' = Tail(followUps) /\ UNCHANGED configVars
    BY <1>4 DEF DispatchNext
  <2>3. CASE Head(followUps) = ConnectionConfigured /\ TellEngine
    <3>1. config' = (IF C!Resolved # None THEN "valid" ELSE "error") /\ told' = environment
      BY <2>3, EngineEffects DEF TellEngine
    <3>2. (Told!Resolved)' = C!Resolved
      BY <2>2, <3>1 DEF configVars, Told!Resolved, Told!EffectiveSocketPath, Told!EffectiveAuthToken,
         C!Resolved, C!EffectiveSocketPath, C!EffectiveAuthToken
    <3> QED
      BY <3>1, <3>2 DEF Known
  <2>4. CASE Head(followUps) # ConnectionConfigured /\ Same /\ config' = config
    <3>1. AllTold' => AllTold
      <4>1. ASSUME AllTold', NEW i \in DOMAIN followUps PROVE followUps[i] # ConnectionConfigured
        <5>1. CASE i = 1
          BY <2>1, <2>4, <5>1
        <5>2. CASE i # 1
          <6>1. i - 1 \in DOMAIN Tail(followUps) /\ Tail(followUps)[i - 1] = followUps[i]
            BY <1>2, <4>1, <5>2
          <6> QED
            BY <2>2, <4>1, <6>1 DEF AllTold
        <5> QED
          BY <5>1, <5>2
      <4> QED
        BY <4>1 DEF AllTold
    <3> QED
      BY <1>1, <2>4, <3>1 DEF Known
  <2>5. \/ Head(followUps) = ConnectionConfigured /\ TellEngine
        \/ Head(followUps) # ConnectionConfigured /\ Same /\ config' = config
    BY <1>4, <2>2, EngineEffects DEF DispatchNext, configVars, ConnectionFailed,
       ConnectionConfigured, ContextDestroyed
  <2> QED
    BY <2>3, <2>4, <2>5
<1>5. CASE Reconfigure
  <2>1. followUps' = Append(followUps, ConnectionConfigured)
    BY <1>5 DEF Reconfigure, FollowUp
  <2>2. /\ Len(followUps) + 1 \in DOMAIN followUps'
        /\ followUps'[Len(followUps) + 1] = ConnectionConfigured
    BY <1>2, <2>1
  <2> QED
    BY <2>2 DEF Known, AllTold
<1>6. CASE Same /\ config' = config /\ followUps' = followUps
  BY <1>1, <1>6 DEF Known, AllTold
<1>7. CASE ContextDied \/ EnvironmentChanges \/ Callback \/ UNCHANGED vars
  BY <1>6, <1>7, EngineEffects DEF ContextDied, EnvironmentChanges, C!EnvironmentChanges,
     C!optionVars, Callback, engineVars, configVars, vars
<1>8. ASSUME NEW a \in Address,
             \/ KeyPressed(a) \/ FocusGained(a) \/ FocusLost(a)
             \/ ContextDying(a) \/ ContextVanishes(a) \/ ContextCreated(a)
      PROVE  Known'
  BY <1>6, <1>8, EngineEffects DEF KeyPressed, FocusGained, FocusLost, ContextDying, ContextVanishes,
     ContextCreated, engineVars, configVars
<1> QED
  BY <1>3, <1>4, <1>5, <1>7, <1>8 DEF Next, HandlerStep, FcitxEvent

\* Between events the engine goes by the configuration there is
\* (EngineKnowsConfig), unless a variable has changed under it.
THEOREM EngineIsTold == Spec => []EngineKnowsConfig
<1>1. Init => Known
  <2>1. Init => followUps[1] = ConnectionConfigured /\ 1 \in DOMAIN followUps
    BY DEF Init
  <2> QED
    BY <2>1 DEF Known, AllTold
<1>2. Known => EngineKnowsConfig
  <2>1. told = environment => Told!Resolved = C!Resolved
    BY DEF Told!Resolved, Told!EffectiveSocketPath, Told!EffectiveAuthToken,
       C!Resolved, C!EffectiveSocketPath, C!EffectiveAuthToken
  <2>2. Idle => AllTold
    BY DEF Idle, DispatchReturned, AllTold
  <2> QED
    BY <2>1, <2>2 DEF Known, EngineKnowsConfig
<1> QED
  BY <1>1, <1>2, InitAddon, NextAddon, NextKnown, PTL DEF Spec

-----------------------------------------------------------------------------
\* A dead context is out of the maps, or about to be, and so is one whose death
\* the engine is going to be told of; ids the engine has seen are used up.
Buried ==
  /\ \A c \in ContextId : contexts[c] # "unseen" => c < nextContextId
  /\ \A c \in ContextId :
       contexts[c] = "dead" => watched[c] = 0 \/ (dying # None /\ idOf[dying] = c)
  /\ \A i \in DOMAIN followUps :
       followUps[i].type = "ContextDestroyed" =>
         /\ followUps[i].context < nextContextId
         /\ watched[followUps[i].context] = 0

\* The engine sees a context of the maps, and none is dying or being told of.
LEMMA EnsureBuried ==
  ASSUME AddonInv, Buried, Idle, NEW a \in Address, living[a] # 0, EnsureContextId(a),
         contexts' = [contexts EXCEPT ![EnsuredId(a)] = "alive"],
         UNCHANGED <<followUps, dying>>
  PROVE  Buried'
<1>1. EnsuredId(a) \in ContextId /\ MapTypes' /\ MapsAgree'
  BY EnsureKeeps DEF AddonInv
<1>2. /\ nextContextId' \in Nat /\ nextContextId <= nextContextId'
      /\ EnsuredId(a) < nextContextId'
      /\ \A c \in ContextId : c < nextContextId => watched'[c] = watched[c]
  <2>1. CASE idOf[a] # 0
    BY <1>1, <2>1 DEF EnsureContextId, EnsuredId, mapVars, AddonInv, MapInv, MapTypes, MapsAgree
  <2>2. CASE idOf[a] = 0
    BY <2>2, ContextIdAssumption DEF EnsureContextId, EnsuredId, AddonInv, MapInv, MapTypes
  <2> QED
    BY <2>1, <2>2
<1>3. contexts \in [ContextId -> {"unseen", "alive", "dead"}]
  BY DEF AddonInv, P!Inv, P!TypeOK, P!ContextState
<1>4. \A c \in ContextId : c \in Nat
  BY ContextIdAssumption
<1>5. dying = None /\ dying' = None /\ followUps' = <<>> /\ nextContextId \in Nat
  BY DEF Idle, DispatchReturned, AddonInv, MapInv, MapTypes
<1>6. \A c \in ContextId : contexts'[c] # "unseen" => c < nextContextId'
  BY <1>1, <1>2, <1>3, <1>4, <1>5 DEF Buried
<1>7. \A c \in ContextId : contexts'[c] = "dead" => watched'[c] = 0
  BY <1>1, <1>2, <1>3, <1>5 DEF Buried
<1> QED
  BY <1>5, <1>6, <1>7 DEF Buried

\* Erasing a context cannot dig up another.
LEMMA EraseBuried ==
  ASSUME AddonInv, Buried, NEW c, EraseContext(c)
  PROVE  /\ nextContextId' = nextContextId
         /\ c \in ContextId => watched'[c] = 0
         /\ \A d \in ContextId : watched[d] = 0 => watched'[d] = 0
         /\ \A d \in ContextId : d # c => \A a \in Address : idOf[a] = d => idOf'[a] = d
  BY DEF EraseContext, AddonInv, MapInv, MapTypes

\* No step revives a dead context.
LEMMA NextBuried ==
  ASSUME AddonInv, Buried, [Next]_vars PROVE Buried'
<1>1. /\ contexts \in [ContextId -> {"unseen", "alive", "dead"}]
      /\ followUps \in Seq(FollowUpEvent)
      /\ dying # None => dying \in Address
      /\ idOf \in [Address -> ContextId \cup {0}]
  BY DEF AddonInv, P!Inv, P!TypeOK, P!ContextState, MapInv, MapTypes, Objects
<1>2. \A i \in DOMAIN followUps :
        followUps[i].type = "ContextDestroyed" => followUps[i].context \in ContextId
  <2>1. \A i \in DOMAIN followUps : followUps[i] \in FollowUpEvent
    BY <1>1
  <2> QED
    BY <2>1 DEF FollowUpEvent, ConnectionFailed, ConnectionConfigured, ContextDestroyed
<1>3. CASE Apply
  <2>1. UNCHANGED <<contexts, dying>>
    BY <1>3 DEF Apply
  <2>2. CASE UNCHANGED <<followUps, mapVars>>
    BY <2>1, <2>2 DEF Buried, mapVars
  <2>3. CASE FollowUp(ConnectionFailed) /\ UNCHANGED mapVars
    BY <1>1, <2>1, <2>3 DEF FollowUp, Buried, mapVars, ConnectionFailed
  <2>4. ASSUME NEW c \in ContextId, watched[c] # 0, EraseContext(c), FollowUp(ContextDestroyed(c))
        PROVE  Buried'
    <3>1. /\ nextContextId' = nextContextId
          /\ watched'[c] = 0
          /\ \A d \in ContextId : watched[d] = 0 => watched'[d] = 0
          /\ \A d \in ContextId : d # c => \A a \in Address : idOf[a] = d => idOf'[a] = d
      BY <2>4, EraseBuried
    <3>2. c < nextContextId
      BY <2>4 DEF AddonInv, MapInv, MapsAgree
    <3>3. \A i \in DOMAIN followUps' :
            followUps'[i] = ContextDestroyed(c) \/ (i \in DOMAIN followUps /\ followUps'[i] = followUps[i])
      BY <1>1, <2>4 DEF FollowUp
    <3>4. \A i \in DOMAIN followUps' :
            followUps'[i].type = "ContextDestroyed" =>
              followUps'[i].context < nextContextId /\ watched'[followUps'[i].context] = 0
      BY <1>2, <3>1, <3>2, <3>3 DEF Buried, ContextDestroyed
    <3> QED
      BY <1>1, <2>1, <3>1, <3>4 DEF Buried
  <2>5. Head(effects).type = "CommitText" => Head(effects).context \in ContextId
    BY <1>3, EffectsAre DEF Apply, AddonInv
  <2> QED
    BY <1>3, <2>2, <2>3, <2>4, <2>5 DEF Apply, ApplyToIo, ApplyCommitText
<1>4. CASE DispatchNext
  <2>1. /\ followUps # <<>> /\ followUps' = Tail(followUps)
        /\ Head(followUps) = followUps[1] /\ 1 \in DOMAIN followUps
        /\ UNCHANGED mapVars /\ dying' = dying
    BY <1>1, <1>4 DEF DispatchNext
  <2>2. \A i \in DOMAIN followUps' : i + 1 \in DOMAIN followUps /\ followUps'[i] = followUps[i + 1]
    BY <1>1, <2>1
  <2>3. CASE contexts' = contexts
    BY <2>1, <2>2, <2>3 DEF Buried, mapVars
  <2>4. ASSUME Head(followUps).type = "ContextDestroyed",
               contexts' = [contexts EXCEPT ![Head(followUps).context] = "dead"]
        PROVE  Buried'
    <3>1. /\ Head(followUps).context \in ContextId
          /\ Head(followUps).context < nextContextId
          /\ watched[Head(followUps).context] = 0
      BY <1>2, <2>1, <2>4 DEF Buried
    <3> QED
      BY <1>1, <2>1, <2>2, <2>4, <3>1 DEF Buried, mapVars
  <2> QED
    BY <1>4, <2>3, <2>4, EngineEffects DEF DispatchNext, TellEngine
<1>5. CASE ContextDied
  <2>1. /\ followUps = <<>> /\ followUps' = followUps /\ contexts' = contexts
        /\ dying # None /\ dying' = None /\ EraseContext(idOf[dying])
    BY <1>5 DEF ContextDied, DispatchReturned, engineVars
  <2> QED
    BY <1>1, <2>1, EraseBuried DEF Buried
<1>6. ASSUME NEW a \in Address, KeyPressed(a) \/ FocusGained(a) \/ FocusLost(a) PROVE Buried'
  <2>1. /\ Idle /\ living[a] # 0 /\ EnsureContextId(a) /\ UNCHANGED <<followUps, dying>>
    BY <1>6 DEF KeyPressed, FocusGained, FocusLost, AddonInv, MapInv, Objects
  <2>2. contexts' = [contexts EXCEPT ![EnsuredId(a)] = "alive"]
    BY <1>6, EngineEffects DEF KeyPressed, FocusGained, FocusLost
  <2> QED
    BY <2>1, <2>2, EnsureBuried
<1>7. ASSUME NEW a \in Address, ContextDying(a) PROVE Buried'
  <2>1. /\ followUps' = followUps /\ followUps = <<>> /\ dying' = a /\ UNCHANGED mapVars
        /\ contexts' = [contexts EXCEPT ![idOf[a]] = "dead"]
        /\ idOf[a] \in ContextId /\ dying = None
    BY <1>1, <1>7, EngineEffects DEF ContextDying, Idle, DispatchReturned
  <2>2. idOf[a] < nextContextId
    BY <2>1, ContextIdAssumption DEF AddonInv, MapInv, MapTypes, MapsAgree
  <2>3. a # None
    BY NoneAssumption
  <2> QED
    BY <1>1, <2>1, <2>2, <2>3 DEF Buried, mapVars
<1>8. CASE UNCHANGED <<contexts, mapVars, dying, followUps>>
  BY <1>8 DEF Buried, mapVars
<1>9. CASE Reconfigure
  <2>1. UNCHANGED <<contexts, mapVars, dying>> /\ followUps' = Append(followUps, ConnectionConfigured)
    BY <1>9 DEF Reconfigure, FollowUp, engineVars
  <2> QED
    BY <1>1, <2>1 DEF Buried, mapVars, ConnectionConfigured
<1>10. CASE EnvironmentChanges \/ Callback \/ UNCHANGED vars
  BY <1>8, <1>10, EngineEffects DEF EnvironmentChanges, Callback, engineVars, mapVars, vars
<1>11. ASSUME NEW a \in Address, ContextVanishes(a) \/ ContextCreated(a) PROVE Buried'
  BY <1>8, <1>11 DEF ContextVanishes, ContextCreated, engineVars
<1> QED
  BY <1>3, <1>4, <1>5, <1>6, <1>7, <1>9, <1>10, <1>11 DEF Next, HandlerStep, FcitxEvent

\* An id in use is not one the engine has buried (IdsAreNotDead).
THEOREM DeadIdsAreGone == Spec => []IdsAreNotDead
<1>1. Init => Buried
  BY DEF Init, E!Init, Buried, ConnectionConfigured
<1>2. ASSUME AddonInv, Buried, NEW a \in Address, idOf[a] # 0, contexts[idOf[a]] = "dead"
      PROVE  dying = a
  <2>1. idOf[a] \in ContextId
    BY <1>2 DEF AddonInv, MapInv, MapTypes
  <2>2. watched[idOf[a]] # 0
    BY <1>2, <2>1 DEF AddonInv, MapInv, MapsAgree
  <2>3. dying \in Address /\ idOf[dying] = idOf[a]
    BY <1>2, <2>1, <2>2 DEF Buried, AddonInv, MapInv, Objects
  <2> QED
    BY <1>2, <2>3 DEF AddonInv, MapInv, MapsAgree
<1>3. AddonInv /\ Buried => IdsAreNotDead
  BY <1>2 DEF IdsAreNotDead
<1> QED
  BY <1>1, <1>3, InitAddon, NextAddon, NextBuried, PTL DEF Spec

-----------------------------------------------------------------------------
\* Objects are told apart, and a context's id is that of the address its object
\* lives at.
Homes ==
  /\ \A a, b \in Address : living[a] = living[b] /\ living[a] # 0 => a = b
  /\ \A a \in Address : living[a] <= created
  /\ \A c \in ContextId : watched[c] <= created
  /\ \A a, b \in Address :
       idOf[a] # 0 /\ living[b] # 0 /\ watched[idOf[a]] = living[b] => a = b

\* Objects come under numbers never used before, and ids follow them.
LEMMA NextHomes ==
  ASSUME MapInv, Homes, [Next]_vars PROVE Homes'
<1>1. /\ living \in [Address -> Nat] /\ created \in Nat
      /\ idOf \in [Address -> ContextId \cup {0}]
      /\ watched \in [ContextId -> Nat] /\ nextContextId \in Nat
      /\ \A a \in Address : idOf[a] # 0 => watched[idOf[a]] # 0 /\ idOf[a] < nextContextId
  <2>1. \A a \in Address : idOf[a] # 0 => idOf[a] \in {c \in ContextId : watched[c] # 0}
    BY DEF MapInv, MapsAgree
  <2>2. \A a \in Address : idOf[a] # 0 => watched[idOf[a]] # 0 /\ idOf[a] < nextContextId
    BY <2>1 DEF MapInv, MapsAgree
  <2> QED
    BY <2>2 DEF MapInv, Objects, MapTypes
<1>2. CASE UNCHANGED <<mapVars, living, created>>
  <2>1. UNCHANGED <<idOf, watched, living, created>>
    BY <1>2 DEF mapVars
  <2> QED
    BY <2>1 DEF Homes
<1>3. ASSUME UNCHANGED <<living, created>>, NEW a \in Address, living[a] # 0, EnsureContextId(a)
      PROVE  Homes'
  <2>1. CASE idOf[a] # 0
    BY <1>2, <1>3, <2>1 DEF EnsureContextId
  <2>2. CASE idOf[a] = 0
    <3>1. /\ nextContextId \in ContextId
          /\ watched' = [watched EXCEPT ![nextContextId] = living[a]]
          /\ idOf' = [idOf EXCEPT ![a] = nextContextId]
      BY <1>3, <2>2 DEF EnsureContextId
    <3>2. \A b \in Address : idOf'[b] # 0 =>
            \/ b = a /\ watched'[idOf'[b]] = living[a]
            \/ idOf[b] # 0 /\ idOf'[b] = idOf[b] /\ watched'[idOf'[b]] = watched[idOf[b]]
      BY <1>1, <3>1
    <3> QED
      BY <1>1, <1>3, <3>1, <3>2 DEF Homes
  <2> QED
    BY <2>1, <2>2
<1>4. ASSUME NEW c, EraseContext(c), created' = created,
             \A b \in Address : living'[b] \in {0, living[b]}
      PROVE  Homes'
  <2>1. \A d \in ContextId : watched'[d] \in {0, watched[d]}
    BY <1>1, <1>4 DEF EraseContext
  <2>2. \A b \in Address : idOf'[b] # 0 => idOf'[b] = idOf[b]
    BY <1>1, <1>4 DEF EraseContext
  <2> QED
    BY <1>1, <1>4, <2>1, <2>2 DEF Homes
<1>5. CASE Apply
  BY <1>2, <1>4, <1>5 DEF Apply, ApplyToIo, ApplyCommitText, fcitxVars, mapVars
<1>6. CASE ContextDied
  <2>1. /\ EraseContext(idOf[dying]) /\ created' = created
        /\ \A b \in Address : living'[b] \in {0, living[b]}
    BY <1>1, <1>6 DEF ContextDied, ContextGone
  <2> QED
    BY <1>4, <2>1
<1>7. ASSUME NEW a \in Address, KeyPressed(a) \/ FocusGained(a) \/ FocusLost(a) PROVE Homes'
  BY <1>3, <1>7 DEF KeyPressed, FocusGained, FocusLost, fcitxVars, MapInv, Objects
<1>8. ASSUME NEW a \in Address, ContextVanishes(a) PROVE Homes'
  BY <1>1, <1>8 DEF ContextVanishes, ContextGone, Homes, mapVars
<1>9. ASSUME NEW a \in Address, ContextCreated(a) PROVE Homes'
  BY <1>1, <1>9 DEF ContextCreated, Homes, mapVars
<1>10. CASE DispatchNext \/ Reconfigure \/ EnvironmentChanges \/ Callback \/ UNCHANGED vars
  BY <1>2, <1>10 DEF DispatchNext, Reconfigure, EnvironmentChanges, Callback, fcitxVars, vars
<1>11. ASSUME NEW a \in Address, ContextDying(a) PROVE Homes'
  BY <1>2, <1>11 DEF ContextDying, fcitxVars
<1> QED
  BY <1>5, <1>6, <1>7, <1>8, <1>9, <1>10, <1>11 DEF Next, HandlerStep, FcitxEvent

-----------------------------------------------------------------------------
\* The contexts a start waits for and a session types into.
Targets ==
  (IF pending = None THEN {} ELSE {pending}) \cup (IF session = None THEN {} ELSE {session.context})

\* Text is meant for the context of the session.
TextHasSession ==
  \A i \in DOMAIN effects :
    effects[i].type = "CommitText" => session # None /\ session.context = effects[i].context

Shrinks == Targets' \subseteq Targets /\ TextHasSession'

\* A target has the engine's focus.
LEMMA TargetsAre ==
  ASSUME P!Inv, NEW c \in Targets PROVE c = focused /\ c \in ContextId /\ c # None
<1>1. CASE c = pending /\ pending # None
  BY <1>1 DEF P!Inv, P!TypeOK, P!PendingInvariant, P!ContextCanCommit
<1>2. CASE session # None /\ c = session.context
  <2>1. c \in ContextId /\ c = focused
    BY <1>2 DEF P!Inv, P!TypeOK, P!SessionInvariant, P!ContextCanCommit, P!Session
  <2> QED
    BY <2>1, NoneAssumption
<1> QED
  BY <1>1, <1>2 DEF Targets

\* Appending to a sequence of one.
LEMMA AppendToOne ==
  ASSUME NEW x, NEW y, NEW i \in DOMAIN Append(<<x>>, y) PROVE Append(<<x>>, y)[i] \in {x, y}
<1>1. <<x>> \in Seq({x, y}) /\ y \in {x, y}
  OBVIOUS
<1> QED
  BY <1>1

\* The engine gives up targets in every event but a toggle, which may make its
\* own context one.
LEMMA EngineTargets ==
  ASSUME P!Inv
  PROVE
  /\ \A result : E!ConnectionConfigured(result) => Shrinks /\ focused' = focused
  /\ E!ConnectionAuthenticated \/ E!ConnectionEnded => Shrinks /\ focused' = focused
  /\ \A s, n : E!HandleCommitText(s, n) \/ E!SessionEnded(s) => Shrinks /\ focused' = focused
  /\ \A c : E!FocusIn(c) => Shrinks /\ focused' = c
  /\ \A c : E!FocusOut(c) \/ E!ContextDestroyed(c) =>
              Shrinks /\ focused' = IF focused = c THEN None ELSE focused
  /\ \A c, h : E!Toggle(c, h) =>
       /\ focused' = IF h THEN c ELSE IF focused = c THEN None ELSE focused
       /\ TextHasSession'
       /\ \/ Targets' = {}
          \/ Targets' = {c} /\ <<pending', session'>> # <<pending, session>>
          \/ UNCHANGED <<pending, session>>
<1> USE DEF Shrinks
<1>0. session # None => session \in P!Session
  BY DEF P!Inv, P!TypeOK
<1>1. ASSUME NEW result, E!ConnectionConfigured(result) PROVE Shrinks /\ focused' = focused
  BY <1>1 DEF E!ConnectionConfigured, E!AbortInteraction, E!Disconnect, Targets, TextHasSession
<1>2. ASSUME E!ConnectionAuthenticated PROVE Shrinks /\ focused' = focused
  BY <1>2 DEF E!ConnectionAuthenticated, E!TryStartPending, E!NewSession, E!StartSession,
     E!Disconnect, Targets, TextHasSession
<1>3. ASSUME E!ConnectionEnded PROVE Shrinks /\ focused' = focused
  BY <1>3 DEF E!ConnectionEnded, E!AbortInteraction, Targets, TextHasSession
<1>4. ASSUME NEW s, NEW n, E!HandleCommitText(s, n) PROVE Shrinks /\ focused' = focused
  BY <1>0, <1>4, NoneAssumption DEF E!HandleCommitText, E!CommitOutcome, E!InterruptActiveSession,
     E!InterruptMessage, E!InterruptSession, E!CommitText, P!Session, E!Session, Targets, TextHasSession
<1>5. ASSUME NEW s, E!SessionEnded(s) PROVE Shrinks /\ focused' = focused
  BY <1>5 DEF E!SessionEnded, Targets, TextHasSession
<1>6. ASSUME NEW c, E!FocusIn(c) PROVE Shrinks /\ focused' = c
  BY <1>6 DEF E!FocusIn, E!InterruptActiveSession, E!InterruptMessage, E!InterruptSession,
     Targets, TextHasSession
<1>7. ASSUME NEW c, E!FocusOut(c) \/ E!ContextDestroyed(c)
      PROVE  Shrinks /\ focused' = IF focused = c THEN None ELSE focused
  BY <1>7 DEF E!FocusOut, E!ContextDestroyed, E!LoseContext, E!InterruptActiveSession,
     E!InterruptMessage, E!InterruptSession, Targets, TextHasSession
<1>8. ASSUME NEW c, NEW h, E!Toggle(c, h)
      PROVE  /\ focused' = IF h THEN c ELSE IF focused = c THEN None ELSE focused
             /\ TextHasSession'
             /\ \/ Targets' = {}
                \/ Targets' = {c} /\ <<pending', session'>> # <<pending, session>>
                \/ UNCHANGED <<pending, session>>
  <2>1. focused' = IF h THEN c ELSE IF focused = c THEN None ELSE focused
    BY <1>8 DEF E!Toggle, E!ToggleFocus
  <2>2. CASE E!ToggleInterrupts
    BY <2>1, <2>2 DEF E!ToggleInterrupts, E!InterruptActiveSession, E!InterruptMessage,
       E!InterruptSession, E!AcceptKey, Targets, TextHasSession
  <2>3. CASE E!ToggleCancels(c)
    BY <2>1, <2>3 DEF E!ToggleCancels, E!AcceptKey, Targets, TextHasSession
  <2>4. CASE E!ToggleIgnored(c, h)
    BY <2>1, <2>4 DEF E!ToggleIgnored, TextHasSession
  <2>5. CASE E!ToggleStarts(c, h)
    <3>1. TextHasSession'
      <4>1. \/ effects' = <<E!AcceptKey, E!Connect>> \/ effects' = <<E!AcceptKey>>
            \/ \E s : effects' = Append(<<E!AcceptKey>>, E!StartSession(s))
        BY <2>5 DEF E!ToggleStarts, E!TryStartPending
      <4>2. ASSUME NEW s, effects' = Append(<<E!AcceptKey>>, E!StartSession(s)),
                   NEW i \in DOMAIN effects'
            PROVE  effects'[i].type # "CommitText"
        <5>1. effects'[i] \in {E!AcceptKey, E!StartSession(s)}
          BY <4>2, AppendToOne
        <5> QED
          BY <5>1 DEF E!AcceptKey, E!StartSession
      <4> QED
        BY <4>1, <4>2 DEF E!AcceptKey, E!Connect, TextHasSession
    <3>2. \/ pending' = c /\ session' = None
          \/ pending' = None /\ session' = None
          \/ pending' = None /\ \E s : session' = E!NewSession(c, s)
      BY <2>5 DEF E!ToggleStarts, E!TryStartPending
    <3>3. session = None /\ pending # c
      BY <2>5 DEF E!ToggleStarts
    <3>4. session' # None => Targets' = {c} \/ pending' # None
      BY <3>2 DEF Targets, E!NewSession
    <3> QED
      BY <2>1, <3>1, <3>2, <3>3, <3>4 DEF Targets
  <2> QED
    BY <1>8, <2>1, <2>2, <2>3, <2>4, <2>5 DEF E!Toggle
<1> QED
  BY <1>1, <1>2, <1>3, <1>4, <1>5, <1>6, <1>7, <1>8

\* The object of a target is the starter's, that of the engine's focus has
\* fcitx's.
InFocus(c) == Valid(c) => \E a \in hasFocus : living[a] = watched[c]

Wanted ==
  /\ \A c \in Targets : Valid(c) => watched[c] = starter
  /\ focused # None => focused < nextContextId /\ InFocus(focused)
  /\ TextHasSession

\* A context whose object is still there is the one ensureContextId finds for it.
LEMMA EnsureFinds ==
  ASSUME AddonInv, Homes, NEW a \in Address, living[a] # 0, EnsureContextId(a), living' = living,
         NEW own, own = EnsuredId(a)
  PROVE  /\ own \in ContextId /\ own < nextContextId' /\ nextContextId <= nextContextId'
         /\ \A c \in ContextId : c < nextContextId => watched'[c] = watched[c]
         /\ Valid(own)' => watched'[own] = living[a]
         /\ \A c \in ContextId : watched[c] = living[a] => c = own
<1>1. own \in ContextId
  BY EnsureKeeps DEF AddonInv
<1>2. /\ living \in [Address -> Nat]
      /\ idOf \in [Address -> ContextId \cup {0}]
      /\ watched \in [ContextId -> Nat] /\ nextContextId \in Nat
      /\ \A c \in ContextId : c \in Nat /\ c # 0
  BY ContextIdAssumption DEF AddonInv, MapInv, Objects, MapTypes
<1>3. \A c \in ContextId : watched[c] = living[a] => idOf[a] = c
  <2>1. ASSUME NEW c \in ContextId, watched[c] = living[a] PROVE idOf[a] = c
    <3>1. PICK b \in Address : idOf[b] = c
      BY <2>1 DEF AddonInv, MapInv, MapsAgree
    <3> QED
      BY <1>2, <2>1, <3>1 DEF Homes
  <2> QED
    BY <2>1
<1>4. CASE idOf[a] # 0
  <2>1. own = idOf[a] /\ UNCHANGED mapVars
    BY <1>4 DEF EnsureContextId, EnsuredId
  <2>2. Valid(own) => watched[own] = living[a]
    BY <1>2, <1>4, <2>1 DEF Valid, Homes
  <2>3. own < nextContextId
    BY <1>4, <2>1, <1>1 DEF AddonInv, MapInv, MapTypes, MapsAgree
  <2> QED
    BY <1>1, <1>2, <1>3, <2>1, <2>2, <2>3 DEF mapVars, Valid
<1>5. CASE idOf[a] = 0
  <2>1. /\ own = nextContextId /\ nextContextId' = nextContextId + 1
        /\ watched' = [watched EXCEPT ![own] = living[a]]
    BY <1>5 DEF EnsureContextId, EnsuredId
  <2> QED
    BY <1>1, <1>2, <1>3, <1>5, <2>1
<1> QED
  BY <1>4, <1>5

\* Nothing is made valid by erasing a context, nor by the end of an object.
LEMMA EraseFinds ==
  ASSUME AddonInv, NEW c, EraseContext(c) \/ UNCHANGED mapVars,
         \A b \in Address : living'[b] \in {0, living[b]}
  PROVE  /\ nextContextId' = nextContextId
         /\ \A d \in ContextId : Valid(d)' => Valid(d) /\ watched'[d] = watched[d]
<1>1. watched \in [ContextId -> Nat] /\ living \in [Address -> Nat]
  BY DEF AddonInv, MapInv, MapTypes, Objects
<1>2. \A d \in ContextId : watched'[d] \in {0, watched[d]}
  BY <1>1 DEF EraseContext, mapVars
<1> QED
  BY <1>1, <1>2 DEF EraseContext, mapVars, Valid

\* A step that gives up targets and moves no focus in fcitx keeps the others wanted.
LEMMA WantedShrinks ==
  ASSUME AddonInv, Wanted, Shrinks, focused' \in {None, focused}, starter' = starter,
         nextContextId' = nextContextId,
         \A d \in ContextId : Valid(d)' => Valid(d) /\ watched'[d] = watched[d],
         \A d \in ContextId, a \in hasFocus :
            Valid(d)' /\ d = focused' /\ living[a] = watched[d] => a \in hasFocus' /\ living'[a] = living[a]
  PROVE  Wanted'
<1>1. \A d \in Targets : d \in ContextId
  BY TargetsAre DEF AddonInv
<1>2. \A d \in Targets' : Valid(d)' => watched'[d] = starter'
  BY <1>1 DEF Wanted, Shrinks
<1>3. focused \in ContextId \cup {None}
  BY DEF AddonInv, P!Inv, P!TypeOK
<1>4. ASSUME focused' # None PROVE focused' < nextContextId' /\ InFocus(focused)'
  BY <1>3, <1>4 DEF Wanted, InFocus
<1> QED
  BY <1>2, <1>4 DEF Wanted, Shrinks

\* Every step keeps the targets wanted.
LEMMA NextWanted ==
  ASSUME AddonInv, Homes, Wanted, [Next]_vars PROVE Wanted'
<1> USE DEF AddonInv
<1>1. P!Inv /\ P!Inv'
  BY NextAddon
<1>2. CASE Apply
  <2>1. /\ UNCHANGED <<contexts, focused, pending, session, fcitxVars, starter>>
        /\ effects' = Tail(effects) /\ effects \in Seq(P!Effect) /\ effects # <<>>
    BY <1>1, <1>2 DEF Apply, P!Inv, P!TypeOK
  <2>2. \E c : EraseContext(c) \/ UNCHANGED mapVars
    BY <1>2 DEF Apply, ApplyToIo, ApplyCommitText
  <2>3. TextHasSession'
    BY <2>1 DEF Wanted, TextHasSession
  <2>4. Targets' = Targets
    BY <2>1 DEF Targets
  <2>5. /\ nextContextId' = nextContextId
        /\ \A d \in ContextId : Valid(d)' => Valid(d) /\ watched'[d] = watched[d]
    BY <2>1, <2>2, EraseFinds DEF fcitxVars
  <2> QED
    BY <2>1, <2>3, <2>4, <2>5, WantedShrinks DEF Shrinks, fcitxVars
<1>3. CASE Shrinks /\ focused' \in {None, focused} /\ UNCHANGED <<mapVars, fcitxVars, starter>>
  BY <1>3, WantedShrinks DEF mapVars, fcitxVars, Valid
<1>4. CASE DispatchNext
  BY <1>1, <1>3, <1>4, EngineTargets DEF DispatchNext, TellEngine
<1>5. CASE Callback
  BY <1>1, <1>3, <1>5, EngineTargets DEF Callback
<1>6. CASE Reconfigure \/ EnvironmentChanges \/ UNCHANGED vars
  <2>1. UNCHANGED <<engineVars, mapVars, fcitxVars, starter>>
    BY <1>6 DEF Reconfigure, EnvironmentChanges, vars
  <2> QED
    BY <1>3, <2>1 DEF engineVars, Targets, TextHasSession, Wanted, Shrinks
<1>7. ASSUME NEW a \in Address, ContextDying(a) PROVE Wanted'
  BY <1>1, <1>3, <1>7, EngineTargets DEF ContextDying
<1>8. ASSUME NEW a \in Address, ContextGone(a), UNCHANGED <<engineVars, starter>>,
             UNCHANGED mapVars \/ \E c : EraseContext(c)
      PROVE  Wanted'
  <2>1. Shrinks /\ focused' = focused
    BY <1>8 DEF engineVars, Targets, TextHasSession, Wanted, Shrinks
  <2>2. living \in [Address -> Nat] /\ hasFocus \subseteq Address /\ watched \in [ContextId -> Nat]
    BY DEF MapInv, Objects, MapTypes
  <2>3. /\ \A b \in Address : living'[b] = IF b = a THEN 0 ELSE living[b]
        /\ hasFocus' = hasFocus \ {a}
    BY <1>8, <2>2 DEF ContextGone
  <2>4. /\ nextContextId' = nextContextId
        /\ \A d \in ContextId : Valid(d)' => Valid(d) /\ watched'[d] = watched[d]
    BY <1>8, <2>2, <2>3, EraseFinds
  <2>5. ASSUME NEW d \in ContextId, NEW b \in hasFocus, Valid(d)', living[b] = watched[d]
        PROVE  b \in hasFocus' /\ living'[b] = living[b]
    <3>1. PICK e \in Address : living'[e] = watched[d] /\ watched[d] # 0
      BY <2>4, <2>5 DEF Valid
    <3>2. living[e] = watched[d] /\ e # a
      BY <2>3, <3>1
    <3>3. b = e
      BY <2>2, <2>5, <3>1, <3>2 DEF Homes
    <3> QED
      BY <2>2, <2>3, <3>2, <3>3
  <2> QED
    BY <1>8, <2>1, <2>4, <2>5, WantedShrinks
<1>9. CASE ContextDied
  BY <1>8, <1>9 DEF ContextDied, MapInv, Objects
<1>10. ASSUME NEW a \in Address, ContextVanishes(a) PROVE Wanted'
  BY <1>8, <1>10 DEF ContextVanishes
<1>11. ASSUME NEW a \in Address, ContextCreated(a) PROVE Wanted'
  <2>1. Shrinks /\ focused' = focused /\ UNCHANGED <<mapVars, starter, hasFocus>>
    BY <1>11 DEF ContextCreated, engineVars, Targets, TextHasSession, Wanted, Shrinks
  <2>2. /\ living \in [Address -> Nat] /\ hasFocus \subseteq {b \in Address : living[b] # 0}
        /\ watched \in [ContextId -> Nat] /\ created \in Nat
    BY DEF MapInv, Objects, MapTypes
  <2>3. /\ living[a] = 0
        /\ \A b \in Address : living'[b] = IF b = a THEN created + 1 ELSE living[b]
    BY <1>11, <2>2 DEF ContextCreated
  <2>4. \A d \in ContextId : Valid(d)' => Valid(d) /\ watched'[d] = watched[d]
    BY <2>1, <2>2, <2>3 DEF Valid, Homes, mapVars
  <2> QED
    BY <2>1, <2>2, <2>3, <2>4, WantedShrinks DEF mapVars
<1>12. ASSUME NEW a \in Address, KeyPressed(a) \/ FocusGained(a) \/ FocusLost(a) PROVE Wanted'
  <2>1. PICK own : own = EnsuredId(a)
    OBVIOUS
  <2>2. living[a] # 0 /\ EnsureContextId(a) /\ living' = living
    BY <1>12 DEF KeyPressed, FocusGained, FocusLost, fcitxVars, MapInv, Objects
  <2>3. /\ own \in ContextId /\ own < nextContextId' /\ nextContextId <= nextContextId'
        /\ \A c \in ContextId : c < nextContextId => watched'[c] = watched[c]
        /\ Valid(own)' => watched'[own] = living[a]
        /\ \A c \in ContextId : watched[c] = living[a] => c = own
    BY <2>1, <2>2, EnsureFinds
  <2>4. /\ focused \in ContextId \cup {None} /\ own # None
        /\ nextContextId \in Nat /\ nextContextId' \in Nat
        /\ \A c \in ContextId : c \in Nat
    BY <1>1, <2>2, <2>3, EnsureKeeps, ContextIdAssumption, NoneAssumption
       DEF P!Inv, P!TypeOK, MapInv, MapTypes
  <2>5. \A c \in Targets : c \in ContextId /\ c = focused /\ c # None
    BY <1>1, TargetsAre
  <2>6. ASSUME focused # None
        PROVE  /\ focused < nextContextId'
               /\ \A c : c = focused => (Valid(c)' <=> Valid(c)) /\ watched'[c] = watched[c]
    BY <2>2, <2>3, <2>4, <2>6 DEF Wanted, Valid
  <2>7. /\ TextHasSession'
        /\ \/ Targets' \subseteq Targets /\ starter' = starter
           \/ Targets' \subseteq {own} /\ starter' = living[a]
        /\ \/ focused' = own /\ a \in hasFocus'
           \/ focused' = None
           \/ focused' = focused /\ focused # own
        /\ hasFocus \ {a} \subseteq hasFocus'
    <3>1. CASE KeyPressed(a)
      <4>1. (a \in hasFocus) \in BOOLEAN /\ E!Toggle(own, a \in hasFocus)
        BY <2>1, <3>1 DEF KeyPressed
      <4>2. PICK h \in BOOLEAN : E!Toggle(own, h) /\ h = (a \in hasFocus)
        BY <4>1, Zenon
      <4>3. /\ focused' = IF h THEN own ELSE IF focused = own THEN None ELSE focused
            /\ TextHasSession'
            /\ \/ Targets' = {}
               \/ Targets' = {own} /\ <<pending', session'>> # <<pending, session>>
               \/ UNCHANGED <<pending, session>>
        BY <1>1, <4>2, EngineTargets
      <4>4. /\ hasFocus' = hasFocus
            /\ starter' = IF <<pending', session'>> # <<pending, session>> THEN living[a] ELSE starter
        BY <3>1 DEF KeyPressed, fcitxVars
      <4> QED
        BY <4>2, <4>3, <4>4 DEF Targets
    <3>2. CASE FocusGained(a)
      BY <1>1, <2>1, <3>2, EngineTargets DEF FocusGained, Shrinks
    <3>3. CASE FocusLost(a)
      BY <1>1, <2>1, <3>3, EngineTargets DEF FocusLost, Shrinks
    <3> QED
      BY <1>12, <3>1, <3>2, <3>3
  <2>8. \A c \in Targets' : Valid(c)' => watched'[c] = starter'
    BY <2>3, <2>5, <2>6, <2>7 DEF Wanted
  <2>9. ASSUME focused' # None PROVE focused' < nextContextId' /\ InFocus(focused)'
    <3>1. CASE focused' = own /\ a \in hasFocus'
      BY <2>2, <2>3, <3>1 DEF InFocus
    <3>2. CASE focused' = focused /\ focused # own
      <4>1. /\ focused \in ContextId /\ focused # None /\ focused < nextContextId'
            /\ Valid(focused)' <=> Valid(focused)
            /\ watched'[focused] = watched[focused]
        BY <2>4, <2>6, <2>9, <3>2
      <4> QED
        BY <2>2, <2>3, <2>7, <3>2, <4>1 DEF Wanted, InFocus
    <3> QED
      BY <2>7, <2>9, <3>1, <3>2
  <2> QED
    BY <2>7, <2>8, <2>9 DEF Wanted
<1> QED
  BY <1>2, <1>4, <1>5, <1>6, <1>7, <1>9, <1>10, <1>11, <1>12 DEF Next, HandlerStep, FcitxEvent

\* Text reaches no object but the starter's, and that only while it has the
\* focus (TextIsWanted), for any number of contexts.
THEOREM TextGoesWhereWanted == Spec => []TextIsWanted
<1>1. Init => Homes /\ Wanted
  BY DEF Init, E!Init, Homes, Wanted, Targets, TextHasSession
<1>2. ASSUME AddonInv, Wanted PROVE TextIsWanted
  <2>1. SUFFICES ASSUME effects # <<>>, Head(effects).type = "CommitText",
                        NEW object, object = Recipient(Head(effects).context), object # 0
                 PROVE  object = starter /\ \E a \in hasFocus : living[a] = object
    BY DEF TextIsWanted
  <2>2. Head(effects) = effects[1] /\ 1 \in DOMAIN effects
    BY <1>2, <2>1 DEF AddonInv, P!Inv, P!TypeOK
  <2>3. PICK c : c = Head(effects).context
    OBVIOUS
  <2>4. c \in Targets
    BY <1>2, <2>1, <2>2, <2>3 DEF Wanted, TextHasSession, Targets
  <2>5. c = focused /\ c \in ContextId /\ c # None
    BY <1>2, <2>4, TargetsAre DEF AddonInv
  <2>6. Valid(c) /\ object = watched[c]
    BY <2>1, <2>3 DEF Recipient
  <2> QED
    BY <1>2, <2>4, <2>5, <2>6 DEF Wanted, InFocus
<1> QED
  BY <1>1, <1>2, InitAddon, NextAddon, NextHomes, NextWanted, PTL DEF Spec, AddonInv

-----------------------------------------------------------------------------
\* Every variable of the addon and of its engine keeps its type (TypeOK).
THEOREM AddonTypeCorrect == Spec => []TypeOK
<1> DEFINE Few == created <= MaxObjects
<1>1. Init => Homes /\ Few
  BY MaxObjectsAssumption DEF Init, Homes
<1>2. ASSUME AddonInv, Few, [Next]_vars PROVE Few'
  <2>1. CASE UNCHANGED created
    BY <1>2, <2>1
  <2>2. CASE \E a \in Address : ContextCreated(a)
    BY <1>2, <2>2, MaxObjectsAssumption DEF ContextCreated, AddonInv, MapInv, Objects
  <2> QED
    BY <1>2, <2>1, <2>2 DEF Next, HandlerStep, Apply, DispatchNext, ContextDied, ContextGone,
       FcitxEvent, KeyPressed, FocusGained, FocusLost, ContextDying, ContextVanishes, Reconfigure,
       EnvironmentChanges, Callback, fcitxVars, vars
<1>3. ASSUME AddonInv, Homes, Few PROVE TypeOK
  <2>1. P!TypeOK => E!TypeOK
    BY DEF P!TypeOK, E!TypeOK, P!ContextState, E!ContextState, P!ConfigResult, E!ConfigResult,
       P!ConnectionState, E!ConnectionState, P!Session, E!Session, P!Effect, E!Effect
  <2>2. /\ watched \in [ContextId -> 0..MaxObjects]
        /\ living \in [Address -> 0..MaxObjects]
    BY <1>3, MaxObjectsAssumption DEF AddonInv, MapInv, Objects, MapTypes, Homes
  <2> QED
    BY <1>3, <2>1, <2>2 DEF TypeOK, AddonInv, MapInv, Objects, MapTypes, P!Inv
<1> QED
  BY <1>1, <1>2, <1>3, InitAddon, NextAddon, NextHomes, PTL DEF Spec, AddonInv
=============================================================================
