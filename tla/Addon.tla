-------------------------------- MODULE Addon --------------------------------
(***************************************************************************)
(* The addon of src/addon/addon.cpp: between fcitx and the engine it keeps *)
(* which input context goes by which id, and the configuration; it runs an *)
(* event of the engine to completion (dispatch).                           *)
(*                                                                         *)
(* fcitx owns the input contexts.  It may create one at the address of one *)
(* it has destroyed, and one may go without its InputContextDestroyed      *)
(* reaching the addon; contexts of different focus groups may have the     *)
(* focus at once.  An object is a number, never used again.                *)
(*                                                                         *)
(* Io may fail a Connect or a Send at any time and call back at any time:  *)
(* the order of those is the subject of Scribe.                            *)
(*                                                                         *)
(* A definition with a mistake in it precedes some of the definitions, for *)
(* the properties to be tried on: EnsureWithoutPointer, EraseContextOnly,  *)
(* RecipientByPointer, FollowUpStays, ReplaceOnly, DiedUnerased.           *)
(***************************************************************************)
EXTENDS Naturals, Sequences, FiniteSets

CONSTANTS
  Address, SessionId, None, MaxSequence, Variable,
  ContextId,      \* the ids the addon may hand out; a bound, unless it is Nat \ {0}
  MaxObjects      \* bound: input contexts fcitx ever creates

ASSUME ContextIdAssumption == ContextId \subseteq Nat \ {0}
ASSUME MaxObjectsAssumption == MaxObjects \in Nat \ {0}
ASSUME VariableAssumption == Variable \subseteq {"path", "token", "debug path", "debug token"}
ASSUME MaxSequenceAssumption == MaxSequence \in Nat

VARIABLES
  contexts, config, focused, pending, session, connectionState, issued, effects,  \* engine_
  socketPath, authTokenEnv, resolvedSocketPath, socketPathValid, environment,     \* config_
  followUps,      \* the rest of dispatch's queue
  nextContextId,
  idOf,           \* contexts_: the id of the pointer, 0 for none
  watched,        \* contextsById_: the object the id's reference was made for, 0 for none
  dying,          \* the address whose InputContextDestroyed is being handled, or None
  living,         \* fcitx: the object at the address, 0 for none
  created,        \* fcitx: how many objects there have been
  hasFocus,       \* fcitx: the addresses of contexts with the focus
  starter,        \* the object whose key has made the start that waits or runs
  told            \* the environment when the engine was told the configuration

E == INSTANCE Engine WITH Context <- ContextId
C == INSTANCE Config

ASSUME NoneAssumption ==
  /\ None \notin ContextId \cup SessionId \cup Address \cup E!Session
  /\ None \notin {"plain", "variable", "token", "debug"}

engineVars == <<contexts, config, focused, pending, session, connectionState, issued, effects>>
configVars == <<socketPath, authTokenEnv, resolvedSocketPath, socketPathValid, environment>>
mapVars    == <<nextContextId, idOf, watched>>
fcitxVars  == <<living, created, hasFocus>>
vars == <<engineVars, configVars, followUps, mapVars, dying, fcitxVars, starter, told>>

ConnectionFailed     == [type |-> "ConnectionFailed"]
ConnectionConfigured == [type |-> "ConnectionConfigured"]
ContextDestroyed(c)  == [type |-> "ContextDestroyed", context |-> c]
FollowUpEvent ==
  {ConnectionFailed, ConnectionConfigured} \cup {ContextDestroyed(c) : c \in ContextId}

\* The constructor loads the configuration and tells the engine.
Init ==
  /\ E!Init
  /\ C!Init
  /\ followUps = <<ConnectionConfigured>>
  /\ nextContextId = 1
  /\ idOf = [a \in Address |-> 0]
  /\ watched = [c \in ContextId |-> 0]
  /\ dying = None
  /\ living = [a \in Address |-> 0] /\ created = 0 /\ hasFocus = {}
  /\ starter = 0
  /\ told = environment

-----------------------------------------------------------------------------
(***************************************************************************)
(* The two maps.                                                           *)
(***************************************************************************)
\* TrackableObjectReference: the object is still there.
Valid(c) == watched[c] # 0 /\ \E a \in Address : living[a] = watched[c]

\* ensureContextId: the id, and what it adds to the maps.  Bound: ContextId.
EnsuredId(a) == IF idOf[a] # 0 THEN idOf[a] ELSE nextContextId

EnsureWithoutPointer(a) ==
  IF idOf[a] # 0 THEN UNCHANGED mapVars
  ELSE /\ nextContextId \in ContextId
       /\ nextContextId' = nextContextId + 1
       /\ watched' = [watched EXCEPT ![nextContextId] = living[a]]
       /\ UNCHANGED idOf

EnsureContextId(a) ==
  IF idOf[a] # 0 THEN UNCHANGED mapVars
  ELSE /\ nextContextId \in ContextId
       /\ nextContextId' = nextContextId + 1
       /\ watched' = [watched EXCEPT ![nextContextId] = living[a]]
       /\ idOf' = [idOf EXCEPT ![a] = nextContextId]

EraseContextOnly(c) ==
  /\ watched' = [watched EXCEPT ![c] = 0]
  /\ UNCHANGED <<idOf, nextContextId>>

EraseContext(c) ==
  /\ watched' = [watched EXCEPT ![c] = 0]
  /\ idOf' = [a \in Address |-> IF idOf[a] = c /\ watched[c] # 0 THEN 0 ELSE idOf[a]]
  /\ UNCHANGED nextContextId

-----------------------------------------------------------------------------
(***************************************************************************)
(* dispatch and apply.                                                     *)
(***************************************************************************)
DispatchReturned == effects = <<>> /\ followUps = <<>>
Idle == DispatchReturned /\ dying = None

FollowUp(event) == followUps' = Append(followUps, event)

\* Connect resolves the configuration again and may be refused by Io; a Send
\* may be refused; neither an accepted key nor a refused Disconnect matters.
ApplyToIo ==
  /\ Head(effects).type # "CommitText"
  /\ \/ /\ Head(effects).type = "Connect" => C!Resolved # None
        /\ UNCHANGED followUps
     \/ /\ Head(effects).type \in {"Connect", "StartSession", "InterruptSession"}
        /\ FollowUp(ConnectionFailed)
  /\ UNCHANGED mapVars

\* commitString on an object that is still there; else the context is erased.
RecipientByPointer(c) ==
  IF \E a \in Address : idOf[a] = c THEN living[CHOOSE a \in Address : idOf[a] = c] ELSE 0

Recipient(c) == IF Valid(c) THEN watched[c] ELSE 0

ApplyCommitText ==
  LET c == Head(effects).context
  IN /\ Head(effects).type = "CommitText"
     /\ IF watched[c] = 0 \/ Recipient(c) # 0 THEN UNCHANGED <<followUps, mapVars>>
        ELSE EraseContext(c) /\ FollowUp(ContextDestroyed(c))

Apply ==
  /\ effects # <<>>
  /\ ApplyToIo \/ ApplyCommitText
  /\ effects' = Tail(effects)
  /\ UNCHANGED <<contexts, config, focused, pending, session, connectionState, issued,
                 configVars, dying, fcitxVars, starter, told>>

\* reloadResolvedConfig: the event carries what the options and the environment are.
TellEngine ==
  /\ E!ConnectionConfigured(IF C!Resolved # None THEN "valid" ELSE "error")
  /\ told' = environment

FollowUpStays ==
  /\ effects = <<>> /\ followUps # <<>>
  /\ UNCHANGED followUps
  /\ \/ Head(followUps) = ConnectionFailed /\ E!ConnectionEnded /\ UNCHANGED told
     \/ Head(followUps) = ConnectionConfigured /\ TellEngine
     \/ /\ Head(followUps).type = "ContextDestroyed"
        /\ E!ContextDestroyed(Head(followUps).context)
        /\ UNCHANGED told
  /\ UNCHANGED <<configVars, mapVars, dying, fcitxVars, starter>>

\* The next event in the queue.
DispatchNext ==
  /\ effects = <<>> /\ followUps # <<>>
  /\ followUps' = Tail(followUps)
  /\ \/ Head(followUps) = ConnectionFailed /\ E!ConnectionEnded /\ UNCHANGED told
     \/ Head(followUps) = ConnectionConfigured /\ TellEngine
     \/ /\ Head(followUps).type = "ContextDestroyed"
        /\ E!ContextDestroyed(Head(followUps).context)
        /\ UNCHANGED told
  /\ UNCHANGED <<configVars, mapVars, dying, fcitxVars, starter>>

-----------------------------------------------------------------------------
(***************************************************************************)
(* What fcitx calls the addon with.                                        *)
(***************************************************************************)
KeyPressed(a) ==
  /\ Idle
  /\ living[a] # 0
  /\ EnsureContextId(a)
  /\ E!Toggle(EnsuredId(a), a \in hasFocus)
  /\ starter' = IF <<pending', session'>> # <<pending, session>> THEN living[a] ELSE starter
  /\ UNCHANGED <<configVars, followUps, dying, fcitxVars, told>>

FocusGained(a) ==
  /\ Idle
  /\ living[a] # 0 /\ a \notin hasFocus
  /\ hasFocus' = hasFocus \cup {a}
  /\ EnsureContextId(a)
  /\ E!FocusIn(EnsuredId(a))
  /\ UNCHANGED <<configVars, followUps, dying, living, created, starter, told>>

FocusLost(a) ==
  /\ Idle
  /\ a \in hasFocus
  /\ hasFocus' = hasFocus \ {a}
  /\ EnsureContextId(a)
  /\ E!FocusOut(EnsuredId(a))
  /\ UNCHANGED <<configVars, followUps, dying, living, created, starter, told>>

\* InputContextDestroyed, while the object is still there.
ContextDying(a) ==
  /\ Idle
  /\ living[a] # 0
  /\ idOf[a] # 0
  /\ E!ContextDestroyed(idOf[a])
  /\ dying' = a
  /\ UNCHANGED <<configVars, followUps, mapVars, fcitxVars, starter, told>>

ContextGone(a) ==
  /\ living' = [living EXCEPT ![a] = 0]
  /\ hasFocus' = hasFocus \ {a}
  /\ UNCHANGED created

DiedUnerased ==
  /\ DispatchReturned
  /\ dying # None
  /\ ContextGone(dying)
  /\ dying' = None
  /\ UNCHANGED <<engineVars, configVars, followUps, mapVars, starter, told>>

\* The rest of the handler, and of the object's destructor.
ContextDied ==
  /\ DispatchReturned
  /\ dying # None
  /\ EraseContext(idOf[dying])
  /\ ContextGone(dying)
  /\ dying' = None
  /\ UNCHANGED <<engineVars, configVars, followUps, starter, told>>

\* The object goes unknown to the addon, or without a word to it.
ContextVanishes(a) ==
  /\ Idle
  /\ living[a] # 0
  /\ ContextGone(a)
  /\ UNCHANGED <<engineVars, configVars, followUps, mapVars, dying, starter, told>>

\* Bound: MaxObjects.
ContextCreated(a) ==
  /\ Idle
  /\ living[a] = 0
  /\ created < MaxObjects
  /\ created' = created + 1
  /\ living' = [living EXCEPT ![a] = created + 1]
  /\ UNCHANGED <<engineVars, configVars, followUps, mapVars, dying, hasFocus, starter, told>>

ReplaceOnly ==
  /\ Idle
  /\ C!Replace
  /\ UNCHANGED <<engineVars, followUps, mapVars, dying, fcitxVars, starter, told>>

\* setConfig and reloadConfig.
Reconfigure ==
  /\ Idle
  /\ C!Replace
  /\ FollowUp(ConnectionConfigured)
  /\ UNCHANGED <<engineVars, mapVars, dying, fcitxVars, starter, told>>

EnvironmentChanges ==
  /\ Idle
  /\ C!EnvironmentChanges
  /\ UNCHANGED <<engineVars, followUps, mapVars, dying, fcitxVars, starter, told>>

FcitxEvent ==
  \/ \E a \in Address :
       \/ KeyPressed(a) \/ FocusGained(a) \/ FocusLost(a)
       \/ ContextDying(a) \/ ContextVanishes(a) \/ ContextCreated(a)
  \/ Reconfigure
  \/ EnvironmentChanges

\* A callback of Io.
Callback ==
  /\ Idle
  /\ \/ E!ConnectionAuthenticated
     \/ E!ConnectionEnded
     \/ \E s \in SessionId, n \in 0..MaxSequence : E!HandleCommitText(s, n)
     \/ \E s \in SessionId : E!SessionEnded(s)
  /\ UNCHANGED <<configVars, followUps, mapVars, dying, fcitxVars, starter, told>>

HandlerStep == Apply \/ DispatchNext \/ ContextDied

Next == HandlerStep \/ FcitxEvent \/ Callback

Spec == Init /\ [][Next]_vars

\* The fcitx thread completes what it has begun.
FairSpec == Spec /\ WF_vars(HandlerStep)

-----------------------------------------------------------------------------
(***************************************************************************)
(* Properties                                                              *)
(***************************************************************************)
TypeOK ==
  /\ E!TypeOK
  /\ followUps \in Seq(FollowUpEvent)
  /\ nextContextId \in Nat \ {0}
  /\ idOf \in [Address -> ContextId \cup {0}]
  /\ watched \in [ContextId -> 0..MaxObjects]
  /\ dying \in Address \cup {None}
  /\ living \in [Address -> 0..MaxObjects]

\* The two maps name the same contexts, no id goes to two pointers, and none is
\* ever handed out twice, however objects come and go at an address
\* (ensureContextId, eraseContext).
MapsAgree ==
  /\ {idOf[a] : a \in Address} \ {0} = {c \in ContextId : watched[c] # 0}
  /\ \A a, b \in Address : idOf[a] = idOf[b] /\ idOf[a] # 0 => a = b
  /\ \A c \in ContextId : watched[c] # 0 => c < nextContextId

\* An id the addon may still use is not one the engine has buried: no event can
\* revive a destroyed context (handleInputContextDestroyedEvent, apply).
IdsAreNotDead ==
  \A a \in Address :
    idOf[a] # 0 /\ contexts[idOf[a]] = "dead" => dying = a

\* Text is typed only into the very object whose key has started the session,
\* and while it has the focus, even where a new object has taken the address
\* and the id of one that went unnoticed (apply(CommitText)).
TextIsWanted ==
  effects # <<>> /\ Head(effects).type = "CommitText" =>
    LET object == Recipient(Head(effects).context)
    IN object # 0 => object = starter /\ \E a \in hasFocus : living[a] = object

\* The engine goes by the configuration there is: unless a variable has been
\* changed under it, it is told of every change before the next event
\* (setConfig, reloadConfig, reloadResolvedConfig).
EngineKnowsConfig ==
  Idle /\ told = environment => (config = "valid") = (C!Resolved # None)

\* No connection is ever attempted without a path or without a token, although
\* the path is a cached one and the token and the overrides are looked up later
\* (connectionConfig, resolveSocketPath).
ConnectIsComplete == C!Resolved # None => C!Resolved.path # None /\ C!Resolved.token # None

\* dispatch returns: the follow-up events of failures do not breed others for
\* ever, which would hang fcitx in a key press (dispatch).
DispatchReturns == []<>Idle
=============================================================================
