------------------------------- MODULE Scribe -------------------------------
(***************************************************************************)
(* The whole addon: the engine and the addon around it on the fcitx        *)
(* thread, the transport on its worker thread, and the transcriber at the  *)
(* other end of the socket, a Server, which the repository's reference     *)
(* server implements (Transcriber).                                        *)
(*                                                                         *)
(* On the fcitx thread Addon::dispatch hands one event to the engine,      *)
(* applies the effects it returns in order, and goes on with the events    *)
(* those effects gave rise to; only then may another key, focus change,    *)
(* configuration or callback of Io be handled.  A dispatch calls Io at     *)
(* most once, so a step the worker thread takes in the middle of it might  *)
(* as well be taken before or after it: the worker is let run in between.  *)
(*                                                                         *)
(* The server acts on a frame as soon as it is written and sends a message *)
(* as its frame is read; all delays are those of Io's queues.              *)
(*                                                                         *)
(* ConnectLogged and SendLogged are the definitions that follow them with  *)
(* a mistake in them, for the properties to be tried on.                   *)
(***************************************************************************)
EXTENDS Naturals, Sequences, FiniteSets

CONSTANTS
  Context, SessionId, None, MaxSequence,
  Capacity, MaxGeneration, MaxConnects, MaxWriters, MaxOutgoing, MaxPublished,
  MaxQueued       \* bound: the user waits while this many commands are queued

ASSUME BoundsAssumption ==
  /\ {MaxSequence, MaxQueued} \subseteq Nat
  /\ {Capacity, MaxGeneration, MaxConnects, MaxWriters, MaxOutgoing, MaxPublished} \subseteq Nat \ {0}

\* A follow-up that names the context it is about is told from the other kind.
ASSUME ContextAssumption == "ConnectionFailed" \notin Context

VARIABLES
  contexts, config, focused, pending, session, connectionState, issued, effects,
  commands, ready, co, connected, connectionActive, writerRunning, outgoingFrames,
  generationCounter, activeGeneration, currentConfig, clientNonce, socket,
  dispatcher, corrupt,
  followUps,      \* Addon::dispatch: the rest of its queue
  overrun,           \* the full command channel has refused a Disconnect or a Send
  served, sequenceNo,   \* the Server at the other end of the open connection
  refused         \* the server has received StartSession during a session

E == INSTANCE Engine
S == INSTANCE Server WITH unread <- <<>>

\* What the engine may send and what the server may send back; its Ended stands
\* for VadTimeout and for Error.
Frame == {E!StartSession(s) : s \in SessionId} \cup {E!InterruptSession(s) : s \in SessionId}
Inbound == {S!Fragment(s, n) : s \in SessionId, n \in 1..MaxSequence}
             \cup {S!Ended(s) : s \in SessionId}

ASSUME NoneAssumption == None \notin Context \cup SessionId \cup E!Session \cup Frame \cup Inbound

T == INSTANCE Io

engineVars == <<contexts, config, focused, pending, session, connectionState, issued, effects>>
ioVars == <<commands, ready, co, connected, connectionActive, writerRunning, outgoingFrames,
            generationCounter, activeGeneration, currentConfig, clientNonce, socket,
            dispatcher, corrupt>>
serverVars == <<served, sequenceNo, refused>>
vars       == <<engineVars, ioVars, followUps, overrun, serverVars>>

Init ==
  /\ E!Init
  /\ T!Init
  /\ followUps = <<>>
  /\ overrun = FALSE
  /\ served = None
  /\ sequenceNo = 1
  /\ refused = FALSE

-----------------------------------------------------------------------------
(***************************************************************************)
(* The fcitx thread: Addon::dispatch and Addon::apply.                     *)
(***************************************************************************)
\* Undefined behaviour on the worker thread is the end of the process here.
Running == ~corrupt

DispatchReturned == Running /\ effects = <<>> /\ followUps = <<>>

EffectDone == effects' = Tail(effects)
EngineRests == UNCHANGED <<contexts, config, focused, pending, session, connectionState, issued>>

\* An effect that failed at once becomes an event of its own.
FollowUp(event) == followUps' = Append(followUps, event) /\ UNCHANGED ioVars
NoFollowUp == UNCHANGED followUps

ApplyAcceptKey ==
  /\ Head(effects) = E!AcceptKey
  /\ NoFollowUp /\ UNCHANGED <<ioVars, overrun>>

ConnectLogged ==
  /\ Head(effects) = E!Connect
  /\ NoFollowUp
  /\ T!TrySend(T!Connect) \/ UNCHANGED ioVars
  /\ UNCHANGED overrun

\* The configuration is resolved again, which may fail by now.
ApplyConnect ==
  /\ Head(effects) = E!Connect
  /\ \/ T!TrySend(T!Connect) /\ NoFollowUp
     \/ FollowUp("ConnectionFailed")
  /\ UNCHANGED overrun

\* A disconnect that cannot be queued is only logged.
ApplyDisconnect ==
  /\ Head(effects) = E!Disconnect
  /\ NoFollowUp
  /\ \/ T!TrySend(T!Disconnect) /\ UNCHANGED overrun
     \/ T!ChannelFull /\ overrun' = TRUE /\ UNCHANGED ioVars

SendLogged ==
  /\ Head(effects) \in Frame
  /\ NoFollowUp
  /\ \/ connected /\ T!TrySend(T!Send(Head(effects))) /\ UNCHANGED overrun
     \/ ~connected /\ UNCHANGED <<ioVars, overrun>>
     \/ connected /\ T!ChannelFull /\ UNCHANGED ioVars /\ overrun' = TRUE

\* Io::send fails on what the worker thread has made of `connected` by now, or
\* on a full channel.
ApplySendEnvelope ==
  /\ Head(effects) \in Frame
  /\ \/ connected /\ T!TrySend(T!Send(Head(effects))) /\ NoFollowUp /\ UNCHANGED overrun
     \/ ~connected /\ FollowUp("ConnectionFailed") /\ UNCHANGED overrun
     \/ connected /\ T!ChannelFull /\ FollowUp("ConnectionFailed") /\ overrun' = TRUE

\* The input context gets the text, unless it is gone.
ApplyCommitText ==
  /\ Head(effects).type = "CommitText"
  /\ \/ NoFollowUp /\ UNCHANGED ioVars
     \/ FollowUp(Head(effects).context)
  /\ UNCHANGED overrun

Apply ==
  /\ Running
  /\ effects # <<>>
  /\ ApplyAcceptKey \/ ApplyConnect \/ ApplyDisconnect \/ ApplySendEnvelope \/ ApplyCommitText
  /\ EffectDone
  /\ EngineRests
  /\ UNCHANGED serverVars

\* The next event of dispatch's own queue.
DispatchFollowUp ==
  /\ Running
  /\ effects = <<>>
  /\ followUps # <<>>
  /\ followUps' = Tail(followUps)
  /\ IF Head(followUps) = "ConnectionFailed" THEN E!ConnectionEnded
     ELSE E!ContextDestroyed(Head(followUps))
  /\ UNCHANGED <<ioVars, overrun, serverVars>>

\* Keys, focus changes and configurations.  Bounds: MaxQueued, and generations
\* for the connections the user can ask for.
UserEvent ==
  /\ DispatchReturned
  /\ Len(commands) < MaxQueued
  /\ \/ \E c \in Context, hasFocus \in BOOLEAN :
          /\ connectionState = "Disconnected" => T!MayConnect
          /\ E!Toggle(c, hasFocus)
     \/ \E c \in Context : E!FocusIn(c) \/ E!FocusOut(c) \/ E!ContextDestroyed(c)
     \/ \E result \in {"valid", "error"} : E!ConnectionConfigured(result)
  /\ UNCHANGED <<ioVars, followUps, overrun, serverVars>>

\* A callback of Io.
Callback ==
  /\ DispatchReturned
  /\ T!Deliver
  /\ LET event == Head(dispatcher)
     IN \/ event.type = "Authenticated" /\ E!ConnectionAuthenticated
        \/ event.type \in {"Closed", "Failed"} /\ E!ConnectionEnded
        \/ /\ event.type = "Inbound"
           /\ \/ /\ event.data.type = "CommitText"
                 /\ E!HandleCommitText(event.data.session, event.data.fragment)
              \/ event.data.type = "Ended" /\ E!SessionEnded(event.data.session)
  /\ UNCHANGED <<followUps, overrun, serverVars>>

-----------------------------------------------------------------------------
(***************************************************************************)
(* The server, and the steps of the transport that reach it.               *)
(***************************************************************************)

\* A second session is a protocol error, on which the server gives the
\* connection up.
ServerStarts(s) ==
  \/ S!Starts(s) /\ UNCHANGED refused
  \/ served # None /\ S!Forgets /\ refused' = TRUE

ServerReads(frame) ==
  IF frame.type = "StartSession" THEN ServerStarts(frame.session)
  ELSE S!Interrupted(frame.session) /\ UNCHANGED refused

\* A write that is over has reached the server; a new connection has a new handler.
ServerFollows ==
  LET written == {c \in T!Writer : co'[c].result = "ok" /\ co'[c] # co[c]}
  IN IF socket' # socket THEN S!Forgets /\ UNCHANGED refused
     ELSE IF written = {} THEN UNCHANGED serverVars
     ELSE ServerReads(co'[CHOOSE c \in written : TRUE].data)

\* The next fragment, or the end of the session.  Bound: MaxSequence.
ServerSends(c) ==
  \E m \in Inbound :
    /\ S!Says(m)
    /\ T!FrameArrives(c, m)
    /\ UNCHANGED refused

WorkerRuns ==
  DispatchReturned /\ T!WorkerStep /\ ServerFollows /\ UNCHANGED <<engineVars, followUps, overrun>>

OperationEnds(c, result) ==
  /\ DispatchReturned
  /\ T!OperationEnds(c, result)
  /\ ServerFollows
  /\ UNCHANGED <<engineVars, followUps, overrun>>

PeerActs ==
  \E c \in T!Coroutine :
    /\ co[c].result = "pending"
    /\ \/ \E result \in {"ok", "eof", "error"} : OperationEnds(c, result)
       \/ DispatchReturned /\ ServerSends(c) /\ UNCHANGED <<engineVars, followUps, overrun>>

Next ==
  \/ Apply
  \/ DispatchFollowUp
  \/ UserEvent
  \/ Callback
  \/ WorkerRuns
  \/ PeerActs

Spec == Init /\ [][Next]_vars

\* Both threads run, timers expire, a ClientHello can be written; the user and
\* the server may stop at any time.  Strong fairness where a dispatch holds a
\* step back: keys cannot keep the fcitx thread from its other callbacks, nor
\* the worker thread and the clock from going on.
Fairness ==
  /\ WF_vars(Apply)
  /\ WF_vars(DispatchFollowUp)
  /\ SF_vars(Callback)
  /\ SF_vars(WorkerRuns)
  /\ SF_vars(\E c \in T!Connection : T!Timed(co[c].at) /\ OperationEnds(c, "error"))
  /\ SF_vars(\E c \in T!Connection : co[c].at = "hello" /\ OperationEnds(c, "ok"))

FairSpec == Spec /\ Fairness

-----------------------------------------------------------------------------
(***************************************************************************)
(* Properties                                                              *)
(***************************************************************************)
InQueue(q, P(_)) == \E i \in DOMAIN q : P(q[i])
Terminal(event) == event.type \in {"Closed", "Failed"}

\* News that the connection is gone is on its way to the engine.
EndIsComing ==
  InQueue(dispatcher, Terminal) \/ "ConnectionFailed" \in {followUps[i] : i \in DOMAIN followUps}

\* The engine takes the connection for ready only while it is, or until the
\* callback that says otherwise is run: an engine left "Ready" without one
\* would refuse to connect and fail every start (ConnectionClosed, ConnectionFailed).
ReadyHasLink == connectionState = "Ready" => connected \/ EndIsComing

\* What a waiting engine may be waiting for: a connect effect or command, an
\* attempt under way, or a callback.
AttemptUnderWay ==
  \/ connectionActive /\ ~connected
  \/ InQueue(effects, LAMBDA e : e = E!Connect)
  \/ InQueue(commands, LAMBDA m : m = T!Connect)
  \/ InQueue(dispatcher, LAMBDA e : e.type # "Inbound")
  \/ EndIsComing

\* Nothing else gets the engine out of "Connecting", in which toggling only sets
\* and clears the pending context.  Holds as long as the command channel has
\* room for what ends a connection or makes the engine believe it has ended.
ConnectingHasAttempt == connectionState = "Connecting" /\ ~overrun => AttemptUnderWay

\* A session the engine runs is run by the server, or its start or its end is
\* under way: never is the user left dictating to nobody.
SessionIsServed ==
  session # None =>
    \/ served = session.id
    \/ InQueue(effects, LAMBDA e : e = E!StartSession(session.id))
    \/ InQueue(commands, LAMBDA m : m = T!Send(E!StartSession(session.id)))
    \/ InQueue(outgoingFrames, LAMBDA f : f = E!StartSession(session.id))
    \/ EndIsComing
    \/ InQueue(dispatcher, LAMBDA e : e.type = "Inbound" /\ e.data = S!Ended(session.id))
    \/ \E c \in T!Reader : co[c].data = S!Ended(session.id)
    \/ refused

\* No fragment is overrun, repeated or overtaken between the server and the engine,
\* so the engine never interrupts a session of this server for its sequence
\* numbers (readLoop, the dispatcher, handleCommitText): those on their way are
\* the next ones, up to the one the server will say next, in order.
FragmentsInOrder ==
  session # None =>
    LET mine == {S!Fragment(session.id, n) : n \in 1..MaxSequence}
        underway == {i \in DOMAIN T!Unheard : T!Unheard[i] \in mine}
        Number(i) == T!Unheard[i].fragment
    IN /\ \A i, j \in underway : i < j => Number(i) < Number(j)
       /\ \E next \in 1..MaxSequence + 1 :
            /\ session.nextSequenceNo <= next
            /\ {Number(i) : i \in underway} = session.nextSequenceNo..next - 1
            /\ served = session.id => sequenceNo = next

\* docs/protocol.md, "Connection Lifecycle": every Connect leads to an attempt
\* that ends in ConnectionAuthenticated or ConnectionFailed.  Violated: a Send or
\* Disconnect refused by the full command channel leaves the engine disconnected
\* and the transport connected, which ignores the next Connect.
ConnectIsAnswered == connectionState = "Connecting" => AttemptUnderWay

\* docs/protocol.md, "Session Lifecycle": at most one session is active at a
\* time; the server refuses a second one.  Violated: after a reconfiguration in
\* the middle of a handshake the engine takes the old connection's Authenticated
\* for the new one's, and starts a session of which the late Closed of the old
\* connection makes it forget, but not the server.
OneSession == ~refused

\* The comment on runConnection: generations prevent stale coroutines from
\* operating on a newly reopened socket.  Violated: a coroutine of an older
\* connection whose operation failed closes whatever connection is current.
StaleLeavesSocketAlone ==
  [][\A c \in T!Coroutine :
       T!CoroutineStep(c) /\ socket = generationCounter /\ co[c].generation # generationCounter =>
         /\ socket' = socket
         /\ co'[c].result # "pending"]_vars

\* The comment on writeLoop: queued frames are drained in order.  Violated: a
\* write that has succeeded pops the queue after closeConnection has cleared it.
WriterPopsItsFrame ==
  \A c \in T!Writer :
    T!AtFront(c) /\ co[c].result = "ok" =>
      outgoingFrames # <<>> /\ Head(outgoingFrames) = co[c].data

\* The comment on authenticate: currentConfig is populated for this generation.
\* Violated: it is read again after each wait, when closeConnection may have
\* reset it or a new connection replaced it.
HandshakeHasConfig ==
  \A c \in T!Connection :
    T!AtFront(c) /\ co[c].at \in {"hello", "hello header"} /\ co[c].result = "ok" =>
      currentConfig = co[c].generation

\* A start never hangs: an engine waiting for a connection gets one, or is told
\* that it failed, whatever the server does (cancel_after, closeConnection,
\* ConnectionAuthenticated, ConnectionFailed).
StartsResolve ==
  connectionState = "Connecting" ~> connectionState # "Connecting" \/ overrun \/ corrupt
=============================================================================
