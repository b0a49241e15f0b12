---------------------------- MODULE ScribeProofs ----------------------------
(***************************************************************************)
(* The safety properties of module Scribe, for any capacities and bounds,  *)
(* any contexts and any sessions.  The engine's part is taken from         *)
(* EngineProofs and the transport's from IoSteps, of which the engine and  *)
(* the transport of Scribe are instances.                                  *)
(***************************************************************************)
EXTENDS Scribe, TLAPS

P == INSTANCE EngineProofs
Q == INSTANCE IoSteps

-----------------------------------------------------------------------------
(***************************************************************************)
(* The engine and the transport are those of the proofs.                   *)
(***************************************************************************)
\* Of the constants the proofs assume no more than Scribe.
LEMMA EngineAssumptions == P!NoneAssumption /\ P!MaxSequenceAssumption
  BY NoneAssumption, BoundsAssumption DEF P!NoneAssumption, P!MaxSequenceAssumption, E!Session, P!Session

\* The same for the transport.
LEMMA IoAssumptions == Q!CapacityAssumption /\ Q!BoundsAssumption /\ Q!FrameAssumption
  BY NoneAssumption, BoundsAssumption DEF Q!CapacityAssumption, Q!BoundsAssumption, Q!FrameAssumption

\* An event of this engine is one of the proofs'.
LEMMA SameEvents ==
  /\ E!Init => P!Init
  /\ (\/ \E result \in {"valid", "error"} : E!ConnectionConfigured(result)
      \/ \E c \in Context, hasFocus \in BOOLEAN : E!Toggle(c, hasFocus)
      \/ \E c \in Context : E!FocusIn(c) \/ E!FocusOut(c) \/ E!ContextDestroyed(c)
      \/ E!ConnectionAuthenticated
      \/ E!ConnectionEnded
      \/ \E s \in SessionId : E!SessionEnded(s)) => P!Wordless
  /\ \A s, n : E!HandleCommitText(s, n) => P!HandleCommitText(s, n)
  BY DEF E!Init, P!Init, P!Wordless, P!ConfigResult,
     E!ConnectionConfigured, P!ConnectionConfigured, E!ActiveInteraction, P!ActiveInteraction,
     E!AbortInteraction, P!AbortInteraction, E!Toggle, P!Toggle, E!ToggleFocus, P!ToggleFocus,
     E!Touch, P!Touch, E!ToggleInterrupts, P!ToggleInterrupts, E!ToggleCancels, P!ToggleCancels,
     E!ToggleIgnored, P!ToggleIgnored, E!ToggleStarts, P!ToggleStarts,
     E!InterruptActiveSession, P!InterruptActiveSession, E!InterruptMessage, P!InterruptMessage,
     E!TryStartPending, P!TryStartPending, E!NewSession, P!NewSession,
     E!FocusIn, P!FocusIn, E!FocusOut, P!FocusOut, E!ContextDestroyed, P!ContextDestroyed,
     E!LoseContext, P!LoseContext, E!ConnectionAuthenticated, P!ConnectionAuthenticated,
     E!ConnectionEnded, P!ConnectionEnded, E!HandleCommitText, P!HandleCommitText,
     E!CommitOutcome, P!CommitOutcome, E!ContextCanCommit, P!ContextCanCommit,
     E!CommitText, P!CommitText, E!SessionEnded, P!SessionEnded,
     E!AcceptKey, P!AcceptKey, E!Connect, P!Connect, E!Disconnect, P!Disconnect,
     E!StartSession, P!StartSession, E!InterruptSession, P!InterruptSession

\* The state of this transport, and what is on its way, is that of the proofs.
LEMMA SameState ==
  /\ T!Init <=> Q!Init
  /\ T!Unheard = Q!Unheard
  /\ T!Writer = Q!Writer /\ T!Reader = Q!Reader /\ T!Coroutine = Q!Coroutine
  BY DEF T!Init, Q!Init, T!Coroutine, Q!Coroutine, T!Connection, Q!Connection, T!Generation,
     Q!Generation, T!Reader, Q!Reader, T!Writer, Q!Writer, T!Idle, Q!Idle, T!Op, Q!Op,
     T!Unheard, Q!Unheard, T!Held, Q!Held

\* What the addon and the peer do to it.
LEMMA SameCalls ==
  /\ \A command : T!TrySend(command) => Q!TrySend(command)
  /\ T!Deliver => Q!Deliver
  /\ \A c, result : T!OperationEnds(c, result) => Q!OperationEnds(c, result)
  /\ \A c, m : T!FrameArrives(c, m) => Q!FrameArrives(c, m)
  BY DEF T!TrySend, Q!TrySend, T!ChannelFull, Q!ChannelFull, T!Run, Q!Run, T!stateVars,
     Q!stateVars, T!Deliver, Q!Deliver, T!OperationEnds, Q!OperationEnds, T!Completes,
     Q!Completes, T!Results, Q!Results, T!Reader, Q!Reader, T!Generation, Q!Generation,
     T!FrameArrives, Q!FrameArrives

\* How the worker closes a connection.
LEMMA SameClosing ==
  /\ \A c, reportFailure : T!Closes(c, reportFailure) <=> Q!Closes(c, reportFailure)
  /\ T!HandleDisconnect <=> Q!HandleDisconnect
  BY DEF T!Closes, Q!Closes, T!CloseConnection, Q!CloseConnection, T!HadConnection,
     Q!HadConnection, T!Coroutine, Q!Coroutine, T!Connection, Q!Connection, T!Generation,
     Q!Generation, T!Reader, Q!Reader, T!Writer, Q!Writer, T!Report, Q!Report, T!Event, Q!Event,
     T!Finished, Q!Finished, T!Idle, Q!Idle, T!Op, Q!Op, T!Aborted, Q!Aborted, T!InTurn,
     Q!InTurn, T!Orders, Q!Orders, T!Bijection, Q!Bijection, T!Injection, Q!Injection,
     T!IsInjective, Q!IsInjective, T!Surjection, Q!Surjection, T!Cardinality, Q!Cardinality,
     T!Reading, Q!Reading, T!Pending, Q!Pending, T!HandleDisconnect, Q!HandleDisconnect,
     T!TakesCommand, Q!TakesCommand, T!Run, Q!Run, T!RunAgain, Q!RunAgain

\* The steps of its coroutines, ...
LEMMA SameCoroutines == \A c : T!CoroutineStep(c) <=> Q!CoroutineStep(c)
<1> SUFFICES ASSUME NEW c PROVE T!CoroutineStep(c) <=> Q!CoroutineStep(c)
  OBVIOUS
<1>1. /\ (T!HandshakeFails(c) <=> Q!HandshakeFails(c))
      /\ (T!HandshakeCannotStart(c) <=> Q!HandshakeCannotStart(c))
      /\ (T!ReaderFails(c) <=> Q!ReaderFails(c))
      /\ (T!ReaderReachesEnd(c) <=> Q!ReaderReachesEnd(c))
      /\ (T!WriterFails(c) <=> Q!WriterFails(c))
  BY SameClosing DEF T!HandshakeFails, Q!HandshakeFails, T!Resumes, Q!Resumes, T!AtFront,
     Q!AtFront, T!HandshakeCannotStart, Q!HandshakeCannotStart, T!ReaderFails,
     Q!ReaderFails, T!ReaderReachesEnd, Q!ReaderReachesEnd, T!WriterFails, Q!WriterFails
<1>2. /\ (T!CancelsTimer(c) <=> Q!CancelsTimer(c))
      /\ (T!HandshakeStarts(c) <=> Q!HandshakeStarts(c))
      /\ (T!HelloWritten(c) <=> Q!HelloWritten(c))
      /\ (T!HelloHeaderRead(c) <=> Q!HelloHeaderRead(c))
      /\ (T!TimeoutOfNoConfig(c) <=> Q!TimeoutOfNoConfig(c))
  BY SameClosing DEF T!CancelsTimer, Q!CancelsTimer, T!AtFront, Q!AtFront, T!Timed, Q!Timed,
     T!stateVars, Q!stateVars, T!HandshakeStarts, Q!HandshakeStarts, T!Resumes, Q!Resumes,
     T!GoesOn, Q!GoesOn, T!Await, Q!Await, T!Op, Q!Op, T!HelloWritten, Q!HelloWritten,
     T!HelloHeaderRead, Q!HelloHeaderRead, T!TimeoutOfNoConfig, Q!TimeoutOfNoConfig, T!Corrupts,
     Q!Corrupts
<1>3. (T!HandshakeEnds(c) <=> Q!HandshakeEnds(c))
  BY SameClosing DEF T!HandshakeEnds, Q!HandshakeEnds, T!Resumes, Q!Resumes, T!AtFront,
     Q!AtFront, T!Event, Q!Event, T!Finished, Q!Finished, T!Idle, Q!Idle, T!Op, Q!Op
<1>4. /\ (T!LengthRead(c) <=> Q!LengthRead(c))
      /\ (T!FrameRead(c) <=> Q!FrameRead(c))
      /\ (T!FrameWritten(c) <=> Q!FrameWritten(c))
      /\ (T!PopsNothing(c) <=> Q!PopsNothing(c))
  BY SameClosing DEF T!LengthRead, Q!LengthRead, T!Resumes, Q!Resumes, T!AtFront, Q!AtFront,
     T!GoesOn, Q!GoesOn, T!Await, Q!Await, T!Op, Q!Op, T!FrameRead, Q!FrameRead, T!Event, Q!Event,
     T!Finished, Q!Finished, T!Idle, Q!Idle, T!FrameWritten, Q!FrameWritten, T!PopsNothing,
     Q!PopsNothing, T!Corrupts, Q!Corrupts, T!stateVars, Q!stateVars
<1> QED
  BY <1>1, <1>2, <1>3, <1>4 DEF T!CoroutineStep, Q!CoroutineStep

\* ... and of run.
LEMMA SameCommands == T!HandleCommand <=> Q!HandleCommand
  BY SameClosing DEF T!HandleCommand, Q!HandleCommand, T!ConnectIgnored, Q!ConnectIgnored,
     T!TakesCommand, Q!TakesCommand, T!Run, Q!Run, T!Free, Q!Free, T!RunAgain, Q!RunAgain,
     T!stateVars, Q!stateVars, T!ConnectStarts, Q!ConnectStarts, T!Op, Q!Op, T!ConnectThrows,
     Q!ConnectThrows, T!Event, Q!Event, T!Coroutine, Q!Coroutine, T!Connection, Q!Connection,
     T!Generation, Q!Generation, T!Reader, Q!Reader, T!Writer, Q!Writer, T!SendDropped,
     Q!SendDropped, T!SendQueued, Q!SendQueued, T!SendStartsWriter, Q!SendStartsWriter, T!Idle,
     Q!Idle

\* Together, those of the worker.
LEMMA SameWorker == T!WorkerStep => Q!WorkerStep
<1>1. \A c : T!AtFront(c) <=> Q!AtFront(c)
  BY DEF T!AtFront, Q!AtFront
<1> QED
  BY <1>1, SameCoroutines, SameCommands, SameState DEF T!WorkerStep, Q!WorkerStep

-----------------------------------------------------------------------------
(***************************************************************************)
(* The parts of the invariant that the whole adds: what callbacks carry,   *)
(* what the server is doing, and that the engine does not take the         *)
(* connection for ready when it is not, now or from a callback under way.  *)
(***************************************************************************)
EventInv == \A i \in DOMAIN dispatcher : dispatcher[i].type = "Inbound" <=> dispatcher[i].data # None

ServerInv ==
  /\ served \in SessionId \cup {None}
  /\ sequenceNo \in 1..MaxSequence + 1
  /\ served = None => sequenceNo = 1

FollowUpInv == followUps \in Seq(Context \cup {"ConnectionFailed"})

AuthenticatedInv ==
  \A i \in DOMAIN dispatcher :
    dispatcher[i].type = "Authenticated" =>
      connected \/ \E j \in DOMAIN dispatcher : j > i /\ Terminal(dispatcher[j])

PartsInv == P!Inv /\ Q!IInv /\ Q!HeldInv
LinkInv == EventInv /\ FollowUpInv /\ AuthenticatedInv /\ ReadyHasLink

\* What the transport does while the engine rests: steps of the worker and of the peer, ...
Transports == Q!IInv' /\ Q!Hears /\ Q!Sends /\ UNCHANGED <<engineVars, followUps>>
\* ... and the arrival of an envelope.
Arrives(m) ==
  /\ Q!IInv' /\ Q!HeldInv' /\ Q!Sends /\ Q!JustWritten = {}
  /\ UNCHANGED <<dispatcher, connected, socket, engineVars, followUps>>
  /\ Q!Gains(Q!Unheard, Q!Unheard', m)

\* The steps of the worker and of the operations.
LEMMA TransportSteps ==
  ASSUME PartsInv, WorkerRuns \/ \E c \in T!Coroutine : \E result : OperationEnds(c, result)
  PROVE  Transports /\ ServerFollows
<1>1. CASE WorkerRuns
  <2>1. Q!WorkerStep /\ ServerFollows /\ UNCHANGED <<engineVars, followUps>>
    BY <1>1, SameWorker DEF WorkerRuns
  <2>2. Q!IInv'
    BY <2>1, IoAssumptions, Q!WorkerKeeps DEF PartsInv
  <2> QED
    BY <2>1, <2>2, IoAssumptions, Q!WorkerHears, Q!WorkerSends DEF PartsInv, Transports
<1>2. CASE \E c \in T!Coroutine : \E result : OperationEnds(c, result)
  <2>0. PICK c \in T!Coroutine : \E result : OperationEnds(c, result)
    BY <1>2
  <2>1. PICK result : OperationEnds(c, result)
    BY <2>0
  <2>2. c \in Q!Coroutine /\ Q!OperationEnds(c, result) /\ ServerFollows /\ UNCHANGED <<engineVars, followUps>>
    BY <2>1, SameState, SameCalls DEF OperationEnds
  <2>3. Q!IInv'
    BY <2>2, IoAssumptions, Q!OperationKeeps DEF PartsInv
  <2> QED
    BY <2>2, <2>3, IoAssumptions, Q!OperationHears, Q!OperationSends DEF PartsInv, Transports
<1> QED
  BY <1>1, <1>2

\* A message of the server arrives.
LEMMA ArrivalSteps ==
  ASSUME PartsInv, NEW c \in T!Coroutine, NEW m \in Inbound,
         T!FrameArrives(c, m), UNCHANGED <<engineVars, followUps>>
  PROVE  Arrives(m)
<1>1. c \in Q!Coroutine /\ Q!FrameArrives(c, m)
  BY SameState, SameCalls
<1>2. Q!IInv'
  BY <1>1, IoAssumptions, Q!ArrivalKeeps DEF PartsInv
<1>3. /\ Q!HeldInv' /\ UNCHANGED <<dispatcher, connected, socket>>
      /\ Q!Gains(Q!Unheard, Q!Unheard', m)
  BY <1>1, IoAssumptions, Q!ArrivalHears DEF PartsInv
<1>4. Q!Sends /\ Q!JustWritten = {}
  BY <1>1, IoAssumptions, Q!ArrivalSends DEF PartsInv
<1> QED
  BY <1>2, <1>3, <1>4 DEF Arrives
-----------------------------------------------------------------------------
(***************************************************************************)
(* The callbacks, and the events a dispatch still has before it.           *)
(***************************************************************************)
Closing(d) == \E i \in DOMAIN d : Terminal(d[i])
Failing(f) == \E i \in DOMAIN f : f[i] = "ConnectionFailed"

\* EventInv and AuthenticatedInv, of any queue.
Carries(d) == \A i \in DOMAIN d : d[i].type = "Inbound" <=> d[i].data # None
Vouched(d, up) ==
  \A i \in DOMAIN d :
    d[i].type = "Authenticated" => up \/ \E j \in DOMAIN d : j > i /\ Terminal(d[j])
VouchedBy(e, up, d) == e.type = "Authenticated" => up \/ Closing(d)

\* The end of the connection is in one of the two queues.
LEMMA EndMeans ==
  /\ EndIsComing <=> Closing(dispatcher) \/ Failing(followUps)
  /\ EndIsComing' <=> Closing(dispatcher') \/ Failing(followUps')
  /\ (EventInv <=> Carries(dispatcher)) /\ (EventInv' <=> Carries(dispatcher'))
  /\ (AuthenticatedInv <=> Vouched(dispatcher, connected))
  /\ (AuthenticatedInv' <=> Vouched(dispatcher', connected'))
<1>1. EndIsComing <=> Closing(dispatcher) \/ Failing(followUps)
  BY DEF EndIsComing, InQueue, Closing, Failing
<1>2. EndIsComing' <=> Closing(dispatcher') \/ Failing(followUps')
  BY DEF EndIsComing, InQueue, Closing, Failing
<1> QED
  BY <1>1, <1>2 DEF EventInv, Carries, AuthenticatedInv, Vouched

\* The oldest callback is run.
LEMMA EventGoes ==
  ASSUME NEW d \in Seq(Q!EventType), d # <<>>, NEW d2, d2 = Tail(d), NEW up,
         Carries(d), Vouched(d, up)
  PROVE  /\ Carries(d2) /\ Vouched(d2, up)
         /\ Head(d) \in Q!EventType
         /\ VouchedBy(Head(d), up, d2)
         /\ Closing(d) => Terminal(Head(d)) \/ Closing(d2)
<1> DEFINE n == Len(d)
<1>1. /\ n \in Nat /\ DOMAIN d = 1..n /\ DOMAIN d2 = 1..n-1 /\ 1 \in 1..n
      /\ Head(d) = d[1] /\ Head(d) \in Q!EventType
      /\ \A i \in 1..n-1 : d2[i] = d[i + 1]
  OBVIOUS
<1> HIDE DEF n
<1>2. \A i \in 1..n-1 : i + 1 \in 1..n
  BY <1>1
<1>3. \A i \in 1..n : i > 1 => i - 1 \in 1..n-1 /\ d[i] = d2[i - 1]
  <2> SUFFICES ASSUME NEW i \in 1..n, i > 1 PROVE i - 1 \in 1..n-1 /\ d[i] = d2[i - 1]
    OBVIOUS
  <2>1. i - 1 \in 1..n-1 /\ (i - 1) + 1 = i
    BY <1>1
  <2> QED
    BY <1>1, <2>1
<1>4. Carries(d2)
  BY <1>1, <1>2 DEF Carries
<1>5. Vouched(d2, up)
  <2> SUFFICES ASSUME NEW i \in 1..n-1, d2[i].type = "Authenticated", ~up
               PROVE  \E j \in 1..n-1 : j > i /\ Terminal(d2[j])
    BY <1>1 DEF Vouched
  <2>1. PICK k \in 1..n : k > i + 1 /\ Terminal(d[k])
    BY <1>1, <1>2 DEF Vouched
  <2>2. k - 1 \in 1..n-1 /\ d[k] = d2[k - 1] /\ k - 1 > i
    BY <1>1, <1>3, <2>1
  <2> QED
    BY <2>1, <2>2
<1>6. VouchedBy(Head(d), up, d2)
  <2> SUFFICES ASSUME NEW k \in 1..n, k > 1, Terminal(d[k]) PROVE Closing(d2)
    BY <1>1 DEF VouchedBy, Vouched
  <2> QED
    BY <1>1, <1>3 DEF Closing
<1>7. Closing(d) => Terminal(Head(d)) \/ Closing(d2)
  <2> SUFFICES ASSUME NEW i \in 1..n, Terminal(d[i]), i # 1 PROVE Closing(d2)
    BY <1>1 DEF Closing
  <2>1. i > 1
    BY <1>1
  <2> QED
    BY <1>1, <1>3, <2>1 DEF Closing
<1> QED
  BY <1>1, <1>4, <1>5, <1>6, <1>7 DEF Carries

\* One is queued.
LEMMA EventComes ==
  ASSUME NEW d \in Seq(Q!EventType), NEW e \in Q!EventType, NEW d2, d2 = Append(d, e),
         NEW up, NEW up2, Carries(d), Vouched(d, up),
         e.type = "Inbound" <=> e.data # None,
         e.type = "Authenticated" => up2,
         up /\ ~up2 => Terminal(e)
  PROVE  /\ Carries(d2) /\ Vouched(d2, up2)
         /\ Closing(d) \/ Terminal(e) => Closing(d2)
<1> DEFINE n == Len(d)
<1>1. /\ n \in Nat /\ DOMAIN d = 1..n /\ DOMAIN d2 = 1..n+1
      /\ d2[n + 1] = e /\ \A i \in 1..n : d2[i] = d[i]
  OBVIOUS
<1> HIDE DEF n
<1>2. \A i \in 1..n+1 : i \in 1..n \/ i = n + 1
  BY <1>1
<1>3. Carries(d2)
  BY <1>1, <1>2 DEF Carries
<1>4. Vouched(d2, up2)
  <2> SUFFICES ASSUME NEW i \in 1..n+1, d2[i].type = "Authenticated", ~up2
               PROVE  \E j \in 1..n+1 : j > i /\ Terminal(d2[j])
    BY <1>1 DEF Vouched
  <2>1. i \in 1..n
    BY <1>1, <1>2
  <2>2. n + 1 \in 1..n+1 /\ n + 1 > i
    BY <1>1, <2>1
  <2>3. CASE up
    BY <1>1, <2>2, <2>3
  <2>4. CASE ~up
    <3>1. PICK j \in 1..n : j > i /\ Terminal(d[j])
      BY <1>1, <2>1, <2>4 DEF Vouched
    <3> QED
      BY <1>1, <3>1
  <2> QED
    BY <2>3, <2>4
<1>5. Closing(d) \/ Terminal(e) => Closing(d2)
  BY <1>1 DEF Closing
<1> QED
  BY <1>3, <1>4, <1>5

\* A dispatch gets an event more to do, or does one.
LEMMA FollowUpsMove ==
  ASSUME NEW X, NEW f \in Seq(X)
  PROVE  /\ \A x \in X : /\ Append(f, x) \in Seq(X)
                         /\ Failing(f) \/ x = "ConnectionFailed" => Failing(Append(f, x))
         /\ f # <<>> => /\ Tail(f) \in Seq(X) /\ Head(f) \in X
                        /\ Failing(f) /\ Head(f) # "ConnectionFailed" => Failing(Tail(f))
<1>1. ASSUME NEW x \in X
      PROVE  Append(f, x) \in Seq(X) /\ (Failing(f) \/ x = "ConnectionFailed" => Failing(Append(f, x)))
  <2> DEFINE g == Append(f, x)  n == Len(f)
  <2>1. /\ n \in Nat /\ g \in Seq(X) /\ DOMAIN f = 1..n /\ DOMAIN g = 1..n+1
        /\ g[n + 1] = x /\ \A i \in 1..n : g[i] = f[i]
    OBVIOUS
  <2> HIDE DEF g, n
  <2>2. Failing(f) \/ x = "ConnectionFailed" => Failing(g)
    BY <2>1 DEF Failing
  <2> QED
    BY <2>1, <2>2 DEF g
<1>2. ASSUME f # <<>>
      PROVE  /\ Tail(f) \in Seq(X) /\ Head(f) \in X
             /\ Failing(f) /\ Head(f) # "ConnectionFailed" => Failing(Tail(f))
  <2> DEFINE g == Tail(f)  n == Len(f)
  <2>1. /\ n \in Nat /\ g \in Seq(X) /\ DOMAIN f = 1..n /\ DOMAIN g = 1..n-1 /\ 1 \in 1..n
        /\ Head(f) = f[1] /\ f[1] \in X /\ \A i \in 1..n-1 : g[i] = f[i + 1]
    BY <1>2
  <2> HIDE DEF g, n
  <2>2. ASSUME NEW i \in 1..n, f[i] = "ConnectionFailed", f[1] # "ConnectionFailed" PROVE Failing(g)
    <3>1. i - 1 \in 1..n-1 /\ (i - 1) + 1 = i
      BY <2>1, <2>2
    <3> QED
      BY <2>1, <2>2, <3>1 DEF Failing
  <2>3. Failing(f) /\ Head(f) # "ConnectionFailed" => Failing(g)
    BY <2>1, <2>2 DEF Failing
  <2> QED
    BY <2>1, <2>3 DEF g
<1> QED
  BY <1>1, <1>2
-----------------------------------------------------------------------------
(***************************************************************************)
(* The steps of the fcitx thread.                                          *)
(***************************************************************************)
\* An effect is performed: it becomes a command, an event of its own, or neither.
Performs ==
  /\ P!Inv' /\ Q!IInv' /\ Q!HeldInv'
  /\ UNCHANGED <<dispatcher, connected, socket, session, connectionState, issued, serverVars>>
  /\ Q!Kept(Q!Unheard, Q!Unheard') /\ Q!Unwritten' = Q!Unwritten
  /\ effects # <<>> /\ effects' = Tail(effects)
  /\ \/ /\ Head(effects) \in Frame
        /\ commands' = Append(commands, Q!Send(Head(effects))) /\ UNCHANGED followUps
     \/ /\ Head(effects) \in Frame
        /\ UNCHANGED commands /\ followUps' = Append(followUps, "ConnectionFailed")
     \/ /\ Head(effects) \notin Frame
        /\ \/ UNCHANGED commands
           \/ \E command \in {Q!Connect, Q!Disconnect} : commands' = Append(commands, command)
        /\ \/ UNCHANGED followUps
           \/ \E x \in Context \cup {"ConnectionFailed"} : followUps' = Append(followUps, x)

\* The engine is told something without a text.
Tells ==
  /\ P!Inv' /\ P!Wordless /\ effects = <<>>
  /\ UNCHANGED <<ioVars, serverVars>>

\* The transport's invariant is one about ioVars only.
LEMMA IoRests ==
  ASSUME PartsInv, UNCHANGED ioVars
  PROVE  Q!IInv' /\ Q!HeldInv' /\ Q!Unheard' = Q!Unheard /\ Q!Unwritten' = Q!Unwritten
<1> USE DEF ioVars
<1>1. Q!Unheard' = Q!Unheard /\ Q!Unwritten' = Q!Unwritten
  BY DEF Q!Unheard, Q!Unwritten, Q!Held
<1>2. Q!HeldInv'
  BY DEF PartsInv, Q!HeldInv
<1>3. Q!IInv'
  <2>1. [Q!Next]_(Q!ioVars)
    BY DEF Q!ioVars
  <2> QED
    BY <2>1, IoAssumptions, Q!NextKeeps DEF PartsInv
<1> QED
  BY <1>1, <1>2, <1>3

\* A command of the addon is queued.
LEMMA CommandSteps ==
  ASSUME PartsInv, NEW command, T!TrySend(command), command \in Q!Command
  PROVE  /\ Q!IInv' /\ Q!HeldInv' /\ UNCHANGED <<dispatcher, connected, socket>>
         /\ Q!Kept(Q!Unheard, Q!Unheard') /\ Q!Unwritten' = Q!Unwritten
         /\ commands' = Append(commands, command)
<1>1. Q!TrySend(command)
  BY SameCalls
<1>2. Q!IInv'
  BY <1>1, IoAssumptions, Q!TrySendKeeps DEF PartsInv
<1>3. Q!Hears
  BY <1>1, IoAssumptions, Q!TrySendHears DEF PartsInv
<1>4. /\ commands' = Append(commands, command)
      /\ UNCHANGED <<co, dispatcher, connected, socket, outgoingFrames>>
  BY <1>1 DEF Q!TrySend, Q!stateVars
<1>5. Q!Unwritten' = Q!Unwritten
  BY <1>4 DEF Q!Unwritten
<1> QED
  BY <1>2, <1>3, <1>4, <1>5 DEF Q!Hears

\* The engine that rests keeps its invariant.
LEMMA EngineKeeps ==
  ASSUME P!Inv, EngineRests, effects' \in Seq(P!Effect) PROVE P!Inv'
  BY DEF EngineRests, P!Inv, P!TypeOK, P!PendingInvariant, P!SessionInvariant, P!ConfigInvariant,
     P!ContextCanCommit

\* The engine's effects, and the frames among them.
LEMMA EffectsAre ==
  ASSUME P!Inv
  PROVE  /\ effects \in Seq(P!Effect)
         /\ effects # <<>> =>
              /\ Tail(effects) \in Seq(P!Effect)
              /\ Head(effects) \in P!Effect
              /\ Head(effects).type = "CommitText" => Head(effects).context \in Context
              /\ Head(effects) \in Frame => Head(effects).type \in {"StartSession", "InterruptSession"}
<1>1. effects \in Seq(P!Effect)
  BY DEF P!Inv, P!TypeOK
<1>2. effects # <<>> => Tail(effects) \in Seq(P!Effect) /\ Head(effects) \in P!Effect
  BY <1>1
<1>3. \A e \in P!Effect : e.type = "CommitText" => e.context \in Context
  BY DEF P!Effect
<1>4. \A e \in Frame : e.type \in {"StartSession", "InterruptSession"}
  BY DEF Frame, E!StartSession, E!InterruptSession
<1> QED
  BY <1>1, <1>2, <1>3, <1>4

\* Addon::apply.
LEMMA ApplySteps ==
  ASSUME PartsInv, Apply PROVE Performs
<1> DEFINE e == Head(effects)
<1>1. /\ effects # <<>> /\ effects' = Tail(effects) /\ EngineRests /\ UNCHANGED serverVars
  BY DEF Apply, EffectDone
<1>2. P!Inv'
  BY <1>1, EffectsAre, EngineKeeps DEF PartsInv
<1>3. ASSUME UNCHANGED ioVars
      PROVE  /\ Q!IInv' /\ Q!HeldInv' /\ UNCHANGED <<commands, dispatcher, connected, socket>>
             /\ Q!Kept(Q!Unheard, Q!Unheard') /\ Q!Unwritten' = Q!Unwritten
  BY <1>3, IoRests DEF ioVars, Q!Kept
<1>4. e \in Frame => T!Send(e) = Q!Send(e) /\ Q!Send(e) \in Q!Command
  BY DEF T!Send, Q!Send, Q!Command
<1>5. /\ T!Connect = Q!Connect /\ T!Disconnect = Q!Disconnect
      /\ Q!Connect \in Q!Command /\ Q!Disconnect \in Q!Command
  BY DEF T!Connect, Q!Connect, T!Disconnect, Q!Disconnect, Q!Command
<1>6. e \in {E!AcceptKey, E!Connect, E!Disconnect} \/ e.type = "CommitText" => e \notin Frame
  BY <1>1, EffectsAre DEF PartsInv, E!AcceptKey, E!Connect, E!Disconnect
<1> HIDE DEF e
<1>7. CASE ApplyAcceptKey
  BY <1>1, <1>2, <1>3, <1>6, <1>7 DEF ApplyAcceptKey, NoFollowUp, Performs, EngineRests, e
<1>8. CASE ApplyConnect
  <2>1. CASE T!TrySend(T!Connect) /\ NoFollowUp
    BY <1>1, <1>2, <1>5, <1>6, <1>8, <2>1, CommandSteps DEF ApplyConnect, NoFollowUp, Performs, EngineRests, e
  <2>2. CASE FollowUp("ConnectionFailed")
    BY <1>1, <1>2, <1>3, <1>6, <1>8, <2>2 DEF ApplyConnect, FollowUp, Performs, EngineRests, e
  <2> QED
    BY <1>8, <2>1, <2>2 DEF ApplyConnect
<1>9. CASE ApplyDisconnect
  <2>1. CASE T!TrySend(T!Disconnect)
    BY <1>1, <1>2, <1>5, <1>6, <1>9, <2>1, CommandSteps DEF ApplyDisconnect, NoFollowUp, Performs, EngineRests, e
  <2>2. CASE UNCHANGED ioVars
    BY <1>1, <1>2, <1>3, <1>6, <1>9, <2>2 DEF ApplyDisconnect, NoFollowUp, Performs, EngineRests, e
  <2> QED
    BY <1>9, <2>1, <2>2 DEF ApplyDisconnect
<1>10. CASE ApplySendEnvelope
  <2>1. CASE T!TrySend(T!Send(e)) /\ NoFollowUp
    <3>1. e \in Frame
      BY <1>10 DEF ApplySendEnvelope, e
    <3> QED
      BY <1>1, <1>2, <1>4, <2>1, <3>1, CommandSteps DEF NoFollowUp, Performs, EngineRests, e
  <2>2. CASE FollowUp("ConnectionFailed")
    <3>1. e \in Frame
      BY <1>10 DEF ApplySendEnvelope, e
    <3> QED
      BY <1>1, <1>2, <1>3, <2>2, <3>1 DEF FollowUp, Performs, EngineRests, e
  <2> QED
    BY <1>10, <2>1, <2>2 DEF ApplySendEnvelope, e
<1>11. CASE ApplyCommitText
  <2>1. e.type = "CommitText" /\ e \notin Frame /\ e.context \in Context
    BY <1>1, <1>6, <1>11, EffectsAre DEF ApplyCommitText, PartsInv, e
  <2>2. UNCHANGED ioVars /\ (UNCHANGED followUps \/ followUps' = Append(followUps, e.context))
    BY <1>11 DEF ApplyCommitText, NoFollowUp, FollowUp, e
  <2> QED
    BY <1>1, <1>2, <1>3, <2>1, <2>2 DEF Performs, EngineRests, e
<1> QED
  BY <1>7, <1>8, <1>9, <1>10, <1>11 DEF Apply

\* Every event keeps the engine's invariant.
LEMMA EventSteps ==
  ASSUME P!Inv
  PROVE  /\ P!Wordless => P!Inv'
         /\ \A s \in SessionId, n \in 1..MaxSequence : P!HandleCommitText(s, n) => P!Inv'
<1>1. P!Wordless => P!Next
  BY DEF P!Wordless, P!Next
<1>2. \A s \in SessionId, n \in 1..MaxSequence : P!HandleCommitText(s, n) => P!Next
  <2>1. \A n \in 1..MaxSequence : n \in 0..MaxSequence
    BY BoundsAssumption
  <2> QED
    BY <2>1 DEF P!Next
<1> QED
  BY <1>1, <1>2, EngineAssumptions, P!NextInv

\* The rest of a dispatch.
LEMMA FollowUpSteps ==
  ASSUME PartsInv, FollowUpInv, DispatchFollowUp
  PROVE  /\ Tells
         /\ followUps # <<>> /\ followUps' = Tail(followUps)
         /\ \/ connectionState' = "Disconnected"
            \/ connectionState' = connectionState /\ Head(followUps) # "ConnectionFailed"
<1>1. Head(followUps) \in Context \cup {"ConnectionFailed"}
  BY DEF DispatchFollowUp, FollowUpInv
<1>2. P!Wordless
  BY <1>1, SameEvents DEF DispatchFollowUp
<1>3. \/ connectionState' = "Disconnected"
      \/ connectionState' = connectionState /\ Head(followUps) # "ConnectionFailed"
  BY DEF DispatchFollowUp, E!ConnectionEnded, E!AbortInteraction, E!ContextDestroyed, E!LoseContext
<1> QED
  BY <1>2, <1>3, EventSteps DEF DispatchFollowUp, Tells, PartsInv

\* Keys, focus changes and configurations.
LEMMA UserSteps ==
  ASSUME PartsInv, UserEvent
  PROVE  /\ Tells /\ UNCHANGED followUps
         /\ connectionState' = "Ready" => connectionState = "Ready"
<1>1. P!Wordless
  BY SameEvents DEF UserEvent
<1>2. connectionState' = "Ready" => connectionState = "Ready"
  BY DEF UserEvent, E!Toggle, E!ToggleInterrupts, E!ToggleCancels, E!ToggleIgnored, E!ToggleStarts,
     E!FocusIn, E!FocusOut, E!ContextDestroyed, E!LoseContext, E!ConnectionConfigured, E!AbortInteraction
<1> QED
  BY <1>1, <1>2, EventSteps DEF UserEvent, DispatchReturned, Tells, PartsInv
\* A callback of the transport is run: the oldest event is handed to the engine.
Handles(e) ==
  /\ P!Inv' /\ Q!IInv' /\ Q!HeldInv' /\ effects = <<>>
  /\ dispatcher # <<>> /\ e = Head(dispatcher) /\ dispatcher' = Tail(dispatcher)
  /\ Q!Sheds(Q!Unheard, Q!Unheard', e.data)
  /\ Q!Unwritten' = Q!Unwritten
  /\ UNCHANGED <<commands, connected, socket, followUps, serverVars>>

\* It may be an envelope, ...
HearsText(e) ==
  \E s \in SessionId, n \in 1..MaxSequence :
    e.data = S!Fragment(s, n) /\ P!HandleCommitText(s, n) /\ UNCHANGED connectionState
HearsEnd(e) ==
  \E s \in SessionId :
    /\ e.data = S!Ended(s) /\ P!Wordless /\ UNCHANGED connectionState
    /\ session' # None => session'.id # s
\* ... or be about the connection.
HearsOfLink(e) ==
  /\ e.data = None /\ P!Wordless
  /\ Terminal(e) => connectionState' = "Disconnected"
  /\ Terminal(e) \/ e.type = "Authenticated"

\* What the server may say.
LEMMA InboundIs ==
  ASSUME NEW m \in Inbound
  PROVE  /\ m.session \in SessionId
         /\ m.type = "CommitText" => m.fragment \in 1..MaxSequence /\ m = S!Fragment(m.session, m.fragment)
         /\ m.type = "Ended" => m = S!Ended(m.session)
         /\ m.type \in {"CommitText", "Ended"}
  BY DEF Inbound, S!Fragment, S!Ended

\* The engine and the oldest callback.
LEMMA CallbackSteps ==
  ASSUME PartsInv, EventInv, Callback, NEW e, e = Head(dispatcher)
  PROVE  Handles(e) /\ (HearsText(e) \/ HearsEnd(e) \/ HearsOfLink(e))
<1>1. T!Deliver /\ effects = <<>> /\ UNCHANGED <<followUps, serverVars>>
  BY DEF Callback, DispatchReturned
<1>2. Q!Deliver
  BY <1>1, SameCalls
<1>3. Q!IInv' /\ Q!HeldInv' /\ Q!Sheds(Q!Unheard, Q!Unheard', e.data)
  BY <1>2, IoAssumptions, Q!DeliverKeeps, Q!DeliverHears DEF PartsInv
<1>4. /\ dispatcher # <<>> /\ dispatcher' = Tail(dispatcher)
      /\ UNCHANGED <<commands, connected, socket, outgoingFrames, co>>
  BY <1>2 DEF Q!Deliver
<1>5. Q!Unwritten' = Q!Unwritten
  BY <1>4 DEF Q!Unwritten
<1>6. e \in Q!EventType /\ (e.type = "Inbound" <=> e.data # None)
  <2>1. dispatcher \in Seq(Q!EventType) /\ Carries(dispatcher)
    BY EndMeans DEF PartsInv, Q!IInv, Q!TypeOK
  <2>2. dispatcher[1] \in Q!EventType /\ 1 \in DOMAIN dispatcher /\ e = dispatcher[1]
    BY <1>4, <2>1
  <2> QED
    BY <2>1, <2>2 DEF Carries
<1>7. e.type = "Inbound" => e.data \in Inbound
  BY <1>6 DEF Q!EventType
<1>8. CASE e.type = "Authenticated" /\ E!ConnectionAuthenticated
  <2>1. P!Wordless /\ e.data = None /\ ~Terminal(e)
    BY <1>6, <1>8, SameEvents DEF Terminal
  <2> QED
    BY <1>1, <1>3, <1>4, <1>5, <1>8, <2>1, EventSteps DEF Handles, HearsOfLink, PartsInv
<1>9. CASE e.type \in {"Closed", "Failed"} /\ E!ConnectionEnded
  <2>1. P!Wordless /\ e.data = None
    BY <1>6, <1>9, SameEvents
  <2>2. connectionState' = "Disconnected" /\ Terminal(e)
    BY <1>9 DEF E!ConnectionEnded, E!AbortInteraction, Terminal
  <2> QED
    BY <1>1, <1>3, <1>4, <1>5, <2>1, <2>2, EventSteps DEF Handles, HearsOfLink, PartsInv
<1>10. CASE e.type = "Inbound" /\ e.data.type = "CommitText" /\ E!HandleCommitText(e.data.session, e.data.fragment)
  <2>1. PICK s \in SessionId, n \in 1..MaxSequence : e.data = S!Fragment(s, n) /\ E!HandleCommitText(s, n)
    BY <1>7, <1>10, InboundIs
  <2>2. P!HandleCommitText(s, n) /\ UNCHANGED connectionState
    BY <2>1, SameEvents DEF E!HandleCommitText
  <2>3. P!Inv'
    BY <2>2, EventSteps DEF PartsInv
  <2>4. HearsText(e)
    BY <2>1, <2>2 DEF HearsText
  <2> QED
    BY <1>1, <1>3, <1>4, <1>5, <2>3, <2>4 DEF Handles
<1>11. CASE e.type = "Inbound" /\ e.data.type = "Ended" /\ E!SessionEnded(e.data.session)
  <2>1. PICK s \in SessionId : e.data = S!Ended(s) /\ E!SessionEnded(s)
    BY <1>7, <1>11, InboundIs
  <2>2. P!Wordless /\ UNCHANGED connectionState /\ (session' # None => session'.id # s)
    BY <2>1, SameEvents DEF E!SessionEnded
  <2>3. P!Inv'
    BY <2>2, EventSteps DEF PartsInv
  <2>4. HearsEnd(e)
    BY <2>1, <2>2 DEF HearsEnd
  <2> QED
    BY <1>1, <1>3, <1>4, <1>5, <2>3, <2>4 DEF Handles
<1> QED
  BY <1>8, <1>9, <1>10, <1>11 DEF Callback

\* Every step is one of these.
LEMMA StepKinds ==
  ASSUME PartsInv, EventInv, [Next]_vars
  PROVE  \/ Apply \/ DispatchFollowUp \/ UserEvent \/ Callback
         \/ Transports /\ ServerFollows
         \/ \E m \in Inbound : Arrives(m) /\ S!Says(m) /\ UNCHANGED refused
         \/ UNCHANGED vars
<1>1. CASE WorkerRuns
  BY <1>1, TransportSteps
<1>2. CASE PeerActs
  <2>1. PICK c \in T!Coroutine :
          \/ \E result \in {"ok", "eof", "error"} : OperationEnds(c, result)
          \/ ServerSends(c) /\ UNCHANGED <<engineVars, followUps, overrun>>
    BY <1>2 DEF PeerActs
  <2>2. CASE \E result \in {"ok", "eof", "error"} : OperationEnds(c, result)
    BY <2>2, TransportSteps
  <2>3. CASE ServerSends(c) /\ UNCHANGED <<engineVars, followUps, overrun>>
    BY <2>3, ArrivalSteps DEF ServerSends
  <2> QED
    BY <2>1, <2>2, <2>3
<1> QED
  BY <1>1, <1>2 DEF Next

-----------------------------------------------------------------------------
(***************************************************************************)
(* The engine and the connection.                                          *)
(***************************************************************************)
\* LinkInv, of any state of the queues.
Linked(d, f, up, state) ==
  /\ Carries(d) /\ f \in Seq(Context \cup {"ConnectionFailed"}) /\ Vouched(d, up)
  /\ state = "Ready" => up \/ Closing(d) \/ Failing(f)

\* LinkInv says so of the state, before and after a step.
LEMMA LinkMeans ==
  /\ LinkInv <=> Linked(dispatcher, followUps, connected, connectionState)
  /\ LinkInv' <=> Linked(dispatcher', followUps', connected', connectionState')
  BY EndMeans DEF LinkInv, FollowUpInv, ReadyHasLink, Linked

\* A callback is run.
LEMMA HandlingLinks ==
  ASSUME PartsInv, LinkInv, NEW e, Handles(e), HearsText(e) \/ HearsEnd(e) \/ HearsOfLink(e)
  PROVE  LinkInv'
<1> DEFINE d == dispatcher  d2 == dispatcher'  f == followUps
           up == connected  st == connectionState  st2 == connectionState'
<1>1. /\ d \in Seq(Q!EventType) /\ d # <<>> /\ d2 = Tail(d) /\ e = Head(d)
      /\ Linked(d, f, up, st) /\ UNCHANGED <<followUps, connected>>
  BY LinkMeans DEF Handles, PartsInv, Q!IInv, Q!TypeOK
<1>2. \/ st2 = st /\ e.data # None
      \/ Terminal(e) /\ st2 = "Disconnected"
      \/ e.type = "Authenticated"
  BY NoneAssumption DEF HearsText, HearsEnd, HearsOfLink, Inbound
<1>3. Linked(d2, f, up, st2)
  <2> HIDE DEF d, d2, f, up, st, st2
  <2>1. Carries(d) /\ Vouched(d, up)
    BY <1>1 DEF Linked
  <2>2. Carries(d2) /\ Vouched(d2, up)
    BY <1>1, <2>1, EventGoes
  <2>3. Head(d).type = "Inbound" <=> Head(d).data # None
    <3>1. 1 \in DOMAIN d /\ Head(d) = d[1]
      BY <1>1
    <3> QED
      BY <2>1, <3>1 DEF Carries
  <2>4. VouchedBy(Head(d), up, d2)
    BY <1>1, <2>1, EventGoes
  <2>5. Closing(d) => Terminal(Head(d)) \/ Closing(d2)
    BY <1>1, <2>1, EventGoes
  <2> QED
    BY <1>1, <1>2, <2>2, <2>3, <2>4, <2>5 DEF Linked, Terminal, VouchedBy
<1> QED
  BY <1>1, <1>3, LinkMeans

\* The worker takes a step, or an operation ends.
LEMMA TransportLinks ==
  ASSUME PartsInv, LinkInv, Transports
  PROVE  LinkInv'
<1> DEFINE d == dispatcher  d2 == dispatcher'  up == connected  up2 == connected'
<1>1. /\ d \in Seq(Q!EventType) /\ Linked(d, followUps, up, connectionState)
      /\ UNCHANGED <<followUps, connectionState>>
  BY LinkMeans DEF Transports, PartsInv, Q!IInv, Q!TypeOK, engineVars
<1>2. \/ d2 = d /\ (up => up2)
      \/ \E e \in Q!EventType :
           /\ d2 = Append(d, e)
           /\ e.type = "Inbound" <=> e.data # None
           /\ e.type = "Authenticated" => up2
           /\ up /\ ~up2 => Terminal(e)
  BY DEF Transports, Q!Hears, Q!Publishes, Terminal
<1>3. Linked(d2, followUps, up2, connectionState)
  <2> HIDE DEF d, d2, up, up2
  <2>1. CASE d2 = d /\ (up => up2)
    BY <1>1, <2>1 DEF Linked, Vouched
  <2>2. ASSUME NEW e \in Q!EventType, d2 = Append(d, e), e.type = "Inbound" <=> e.data # None,
               e.type = "Authenticated" => up2, up /\ ~up2 => Terminal(e)
        PROVE  Linked(d2, followUps, up2, connectionState)
    <3>1. Carries(d2) /\ Vouched(d2, up2) /\ (Closing(d) \/ Terminal(e) => Closing(d2))
      BY <1>1, <2>2, EventComes DEF Linked
    <3> QED
      BY <1>1, <2>2, <3>1 DEF Linked
  <2> QED
    BY <1>2, <2>1, <2>2
<1> QED
  BY <1>1, <1>3, LinkMeans

\* Everything else.
LEMMA NextLink == PartsInv /\ LinkInv /\ [Next]_vars => LinkInv'
<1> SUFFICES ASSUME PartsInv, LinkInv, [Next]_vars PROVE LinkInv'
  OBVIOUS
<1> DEFINE f == followUps  f2 == followUps'  T0 == Context \cup {"ConnectionFailed"}
<1>0. Linked(dispatcher, f, connected, connectionState) /\ f \in Seq(T0)
  BY LinkMeans DEF Linked
<1>1. CASE Apply
  <2>1. /\ UNCHANGED <<dispatcher, connected, connectionState>>
        /\ f2 = f \/ \E x \in T0 : f2 = Append(f, x)
    BY <1>1, ApplySteps DEF Performs
  <2>2. f2 \in Seq(T0) /\ (Failing(f) => Failing(f2))
    <3>1. f \in Seq(T0) /\ (f2 = f \/ \E x \in T0 : f2 = Append(f, x))
      BY <1>0, <2>1
    <3> HIDE DEF f, f2, T0
    <3>2. \A x \in T0 : Append(f, x) \in Seq(T0) /\ (Failing(f) => Failing(Append(f, x)))
      BY <3>1, FollowUpsMove
    <3> QED
      BY <3>1, <3>2
  <2> QED
    BY <1>0, <2>1, <2>2, LinkMeans DEF Linked
<1>2. CASE DispatchFollowUp
  <2>1. /\ UNCHANGED <<dispatcher, connected>>
        /\ f # <<>> /\ f2 = Tail(f)
        /\ \/ connectionState' = "Disconnected"
           \/ connectionState' = connectionState /\ Head(f) # "ConnectionFailed"
    BY <1>2, FollowUpSteps DEF Tells, ioVars, LinkInv
  <2>2. f2 \in Seq(T0) /\ (Failing(f) /\ Head(f) # "ConnectionFailed" => Failing(f2))
    <3> HIDE DEF f, f2, T0
    <3> QED
      BY <1>0, <2>1, FollowUpsMove
  <2> QED
    BY <1>0, <2>1, <2>2, LinkMeans DEF Linked
<1>3. CASE UserEvent
  <2>1. UNCHANGED <<dispatcher, connected, followUps>> /\ (connectionState' = "Ready" => connectionState = "Ready")
    BY <1>3, UserSteps DEF Tells, ioVars
  <2> QED
    BY <1>0, <2>1, LinkMeans DEF Linked
<1>4. CASE Callback
  <2>1. EventInv /\ Head(dispatcher) = Head(dispatcher)
    BY DEF LinkInv
  <2> DEFINE e == Head(dispatcher)
  <2>2. Handles(e) /\ (HearsText(e) \/ HearsEnd(e) \/ HearsOfLink(e))
    BY <1>4, <2>1, CallbackSteps
  <2> QED
    BY <2>2, HandlingLinks
<1>5. CASE Transports
  BY <1>5, TransportLinks
<1>6. CASE (\E m \in Inbound : Arrives(m)) \/ UNCHANGED vars
  <2>1. UNCHANGED <<dispatcher, connected, followUps, connectionState>>
    BY <1>6 DEF Arrives, engineVars, vars, ioVars
  <2> QED
    BY <1>0, <2>1, LinkMeans
<1> QED
  BY <1>1, <1>2, <1>3, <1>4, <1>5, <1>6, StepKinds DEF LinkInv
\* Every step keeps the invariants of the engine and of the transport.
LEMMA NextParts == PartsInv /\ LinkInv /\ [Next]_vars => PartsInv'
<1> SUFFICES ASSUME PartsInv, LinkInv, [Next]_vars PROVE PartsInv'
  OBVIOUS
<1>1. ASSUME UNCHANGED engineVars PROVE P!Inv'
  <2>1. [P!Next]_(P!engineVars)
    BY <1>1 DEF engineVars, P!engineVars
  <2> QED
    BY <2>1, EngineAssumptions, P!NextInv DEF PartsInv
<1>2. CASE Apply
  BY <1>2, ApplySteps DEF Performs, PartsInv
<1>3. CASE DispatchFollowUp
  BY <1>3, FollowUpSteps, IoRests DEF Tells, PartsInv, LinkInv
<1>4. CASE UserEvent
  BY <1>4, UserSteps, IoRests DEF Tells, PartsInv
<1>5. CASE Callback
  <2> DEFINE e == Head(dispatcher)
  <2>1. Handles(e)
    BY <1>5, CallbackSteps DEF LinkInv
  <2> QED
    BY <2>1 DEF Handles, PartsInv
<1>6. CASE Transports
  BY <1>1, <1>6 DEF Transports, Q!Hears, PartsInv
<1>7. CASE \E m \in Inbound : Arrives(m)
  BY <1>1, <1>7 DEF Arrives, PartsInv
<1>8. CASE UNCHANGED vars
  BY <1>1, <1>8, IoRests DEF vars, PartsInv
<1> QED
  BY <1>2, <1>3, <1>4, <1>5, <1>6, <1>7, <1>8, StepKinds DEF LinkInv

\* At first nothing is queued and there is no connection.
LEMMA InitHolds == Init => PartsInv /\ LinkInv
<1> SUFFICES ASSUME Init PROVE PartsInv /\ LinkInv
  OBVIOUS
<1>1. P!Inv
  BY SameEvents, EngineAssumptions, P!InitInv DEF Init
<1>2. Q!Init
  BY SameState DEF Init
<1>3. Q!IInv
  BY <1>2, IoAssumptions, Q!InitHolds
<1>4. Q!HeldInv
  BY <1>2 DEF Q!Init, Q!HeldInv, Q!Coroutine, Q!Idle, Q!Op
<1>5. dispatcher = <<>> /\ followUps = <<>> /\ connectionState # "Ready"
  BY <1>2 DEF Init, E!Init, Q!Init
<1> DEFINE d == dispatcher
<1>6. Carries(d) /\ Vouched(d, connected)
  BY <1>5 DEF Carries, Vouched
<1> DEFINE X == Context \cup {"ConnectionFailed"}
<1>7. followUps \in Seq(X)
  BY <1>5
<1> QED
  BY <1>1, <1>3, <1>4, <1>5, <1>6, <1>7, LinkMeans DEF PartsInv, Linked

\* The invariants of the engine and of the transport hold of the whole, and what
\* the fcitx thread has yet to be told makes up for what they differ in.
THEOREM PartsInvariant == Spec => [](PartsInv /\ LinkInv)
<1>1. (PartsInv /\ LinkInv) /\ [Next]_vars => (PartsInv /\ LinkInv)'
  BY NextParts, NextLink
<1> QED
  BY <1>1, InitHolds, PTL DEF Spec

\* The engine believes the connection to be ready only while it is, or until the
\* callback or the event of its own dispatch that says otherwise (Addon::dispatch,
\* closeConnection, ConnectionClosed, ConnectionFailed).
THEOREM ReadyIsLinked == Spec => []ReadyHasLink
<1>1. PartsInv /\ LinkInv => ReadyHasLink
  BY DEF LinkInv
<1> QED
  BY <1>1, PartsInvariant, PTL
-----------------------------------------------------------------------------
(***************************************************************************)
(* The fragments of a session between the server and the engine.           *)
(***************************************************************************)
Numbers == 1..MaxSequence

\* Those of session s in q are in order, none of them twice, ...
InOrder(q, s) ==
  /\ \A n \in Numbers : Q!Once(q, S!Fragment(s, n))
  /\ \A n, k \in Numbers : n < k => Q!Before(q, S!Fragment(s, n), S!Fragment(s, k))
\* ... and are those from k on and before next.
AreFrom(q, s, k, next) == \A n \in Numbers : S!Fragment(s, n) \in Q!Range(q) <=> k <= n /\ n < next

\* The fragments under way are those between what the engine expects and what
\* the server, serving sv, will say next, number no.
Speaks(ss, q, sv, no) ==
  /\ InOrder(q, ss.id)
  /\ \E next \in 1..MaxSequence + 1 :
       /\ ss.nextSequenceNo \in 1..next
       /\ AreFrom(q, ss.id, ss.nextSequenceNo, next)
       /\ sv = ss.id => no = next

\* Messages are what they look like.
LEMMA MessagesDiffer ==
  /\ \A s, n : S!Fragment(s, n).session = s /\ S!Fragment(s, n).fragment = n
  /\ \A s, n, r : S!Fragment(s, n) # S!Ended(r)
  /\ \A s : S!Ended(s).session = s
  /\ \A s \in SessionId, n \in Numbers : S!Fragment(s, n) # None /\ S!Ended(s) # None
  /\ \A s : E!StartSession(s).session = s /\ E!InterruptSession(s).session = s
  /\ \A s, r : E!StartSession(s) # E!InterruptSession(r)
  /\ \A s \in SessionId : E!StartSession(s) \in Frame /\ E!InterruptSession(s) \in Frame
<1>1. \A s \in SessionId, n \in Numbers : S!Fragment(s, n) # None /\ S!Ended(s) # None
  BY NoneAssumption DEF Inbound, Numbers
<1>2. \A s \in SessionId : E!StartSession(s) \in Frame /\ E!InterruptSession(s) \in Frame
  BY DEF Frame
<1>3. /\ \A s, n : S!Fragment(s, n).session = s /\ S!Fragment(s, n).fragment = n
      /\ \A s, n, r : S!Fragment(s, n) # S!Ended(r)
      /\ \A s : S!Ended(s).session = s
  BY DEF S!Fragment, S!Ended
<1>4. /\ \A s : E!StartSession(s).session = s /\ E!InterruptSession(s).session = s
      /\ \A s, r : E!StartSession(s) # E!InterruptSession(r)
  BY DEF E!StartSession, E!InterruptSession
<1> QED
  BY <1>1, <1>2, <1>3, <1>4

\* What is in q, and before what, of none but the session's fragments.
LEMMA SpeaksOn ==
  ASSUME NEW ss, ss.id \in SessionId, NEW q, NEW q2, NEW sv, NEW no, NEW sv2, NEW no2,
         Speaks(ss, q, sv, no),
         \A n \in Numbers : S!Fragment(ss.id, n) \in Q!Range(q) <=> S!Fragment(ss.id, n) \in Q!Range(q2),
         InOrder(q, ss.id) => InOrder(q2, ss.id),
         sv2 = ss.id => sv = ss.id /\ no2 = no
  PROVE  Speaks(ss, q2, sv2, no2)
  BY DEF Speaks, AreFrom

\* The line is kept.
LEMMA KeptSpeaks ==
  ASSUME NEW ss, ss.id \in SessionId, NEW q, NEW q2, NEW sv, NEW no, NEW sv2, NEW no2,
         Speaks(ss, q, sv, no), Q!Kept(q, q2), sv2 = ss.id => sv = ss.id /\ no2 = no
  PROVE  Speaks(ss, q2, sv2, no2)
<1>1. \A n \in Numbers : S!Fragment(ss.id, n) # None
  BY MessagesDiffer
<1>2. /\ \A n \in Numbers : S!Fragment(ss.id, n) \in Q!Range(q) <=> S!Fragment(ss.id, n) \in Q!Range(q2)
      /\ InOrder(q, ss.id) => InOrder(q2, ss.id)
  BY <1>1 DEF Q!Kept, InOrder
<1> QED
  BY <1>2, SpeaksOn

\* Something else leaves the line.
LEMMA ShedsOther ==
  ASSUME NEW ss, ss.id \in SessionId, NEW q, NEW q2, NEW sv, NEW no,
         Speaks(ss, q, sv, no), NEW x, Q!Sheds(q, q2, x), \A n \in Numbers : x # S!Fragment(ss.id, n)
  PROVE  Speaks(ss, q2, sv, no)
<1>1. /\ \A n \in Numbers : S!Fragment(ss.id, n) \in Q!Range(q) <=> S!Fragment(ss.id, n) \in Q!Range(q2)
      /\ InOrder(q, ss.id) => InOrder(q2, ss.id)
  BY DEF Q!Sheds, InOrder
<1> QED
  BY <1>1, SpeaksOn

\* The expected fragment leaves it.
LEMMA ShedsNext ==
  ASSUME NEW ss, ss.id \in SessionId, NEW k \in Numbers, ss.nextSequenceNo = k,
         NEW q, NEW q2, NEW sv, NEW no, Speaks(ss, q, sv, no),
         Q!Sheds(q, q2, S!Fragment(ss.id, k)),
         NEW ss2, ss2.id = ss.id, ss2.nextSequenceNo = k + 1
  PROVE  Speaks(ss2, q2, sv, no)
<1> DEFINE F(n) == S!Fragment(ss.id, n)
<1>1. PICK next \in 1..MaxSequence + 1 :
        /\ k \in 1..next /\ AreFrom(q, ss.id, k, next) /\ (sv = ss.id => no = next)
  BY DEF Speaks
<1>2. /\ \A n \in Numbers : F(n) \in Q!Range(q) <=> F(n) = F(k) \/ F(n) \in Q!Range(q2)
      /\ \A n \in Numbers : Q!Once(q, F(n)) /\ F(n) = F(k) => F(n) \notin Q!Range(q2)
      /\ InOrder(q, ss.id) => InOrder(q2, ss.id)
  BY DEF Q!Sheds, InOrder
<1>3. \A n \in Numbers : F(n) = F(k) <=> n = k
  BY MessagesDiffer
<1>4. InOrder(q, ss.id) /\ InOrder(q2, ss.id) /\ \A n \in Numbers : Q!Once(q, F(n))
  BY <1>2 DEF Speaks, InOrder
<1>5. \A n \in Numbers : F(n) \in Q!Range(q) <=> k <= n /\ n < next
  BY <1>1 DEF AreFrom
<1> HIDE DEF F
<1>6. \A n \in Numbers : F(n) \in Q!Range(q2) <=> n # k /\ k <= n /\ n < next
  BY <1>2, <1>3, <1>4, <1>5
<1>7. k < next
  BY <1>2, <1>5
<1>8. \A n \in Numbers : F(n) \in Q!Range(q2) <=> k + 1 <= n /\ n < next
  BY <1>6, BoundsAssumption DEF Numbers
<1>9. AreFrom(q2, ss.id, k + 1, next)
  BY <1>8 DEF AreFrom, F
<1>10. k + 1 \in 1..next
  BY <1>7, BoundsAssumption DEF Numbers
<1> QED
  BY <1>1, <1>4, <1>9, <1>10 DEF Speaks

\* Nothing of the session is under way.
LEMMA SpeaksFirst ==
  ASSUME NEW ss, ss.id \in SessionId, ss.nextSequenceNo = 1, NEW q, NEW sv, NEW no,
         \A n \in Numbers : S!Fragment(ss.id, n) \notin Q!Range(q), sv = ss.id => no = 1
  PROVE  Speaks(ss, q, sv, no)
<1>1. 1 \in 1..MaxSequence + 1 /\ 1 \in 1..1
  BY BoundsAssumption
<1>2. InOrder(q, ss.id)
  BY DEF InOrder, Q!Once, Q!Before, Q!Range
<1>3. AreFrom(q, ss.id, 1, 1)
  <2>1. \A n \in Numbers : ~(n < 1)
    BY BoundsAssumption DEF Numbers
  <2> QED
    BY <2>1 DEF AreFrom
<1> QED
  BY <1>1, <1>2, <1>3 DEF Speaks

\* Something else joins the line.
LEMMA GainsOther ==
  ASSUME NEW ss, ss.id \in SessionId, NEW q, NEW q2, NEW sv, NEW no, NEW sv2, NEW no2,
         Speaks(ss, q, sv, no), NEW x, Q!Gains(q, q2, x),
         \A n \in Numbers : x # S!Fragment(ss.id, n), sv2 = ss.id => sv = ss.id /\ no2 = no
  PROVE  Speaks(ss, q2, sv2, no2)
<1>1. /\ \A n \in Numbers : S!Fragment(ss.id, n) \in Q!Range(q) <=> S!Fragment(ss.id, n) \in Q!Range(q2)
      /\ InOrder(q, ss.id) => InOrder(q2, ss.id)
  BY DEF Q!Gains, InOrder
<1> QED
  BY <1>1, SpeaksOn

\* The server's next fragment joins it.
LEMMA GainsNext ==
  ASSUME NEW ss, ss.id \in SessionId, ss.nextSequenceNo \in Nat, NEW q, NEW q2, NEW no \in Numbers,
         Speaks(ss, q, ss.id, no), Q!Gains(q, q2, S!Fragment(ss.id, no))
  PROVE  Speaks(ss, q2, ss.id, no + 1)
<1> DEFINE F(n) == S!Fragment(ss.id, n)  k == ss.nextSequenceNo
<1>1. k \in 1..no /\ AreFrom(q, ss.id, k, no) /\ InOrder(q, ss.id)
  BY DEF Speaks
<1>2. \A n \in Numbers : F(n) \in Q!Range(q) <=> k <= n /\ n < no
  BY <1>1 DEF AreFrom
<1>3. \A n \in Numbers : F(n) = F(no) <=> n = no
  BY MessagesDiffer
<1>4. /\ \A n \in Numbers : F(n) \in Q!Range(q2) <=> F(n) = F(no) \/ F(n) \in Q!Range(q)
      /\ \A n \in Numbers : Q!Once(q, F(n)) /\ (F(n) = F(no) => F(no) \notin Q!Range(q)) => Q!Once(q2, F(n))
      /\ \A n, j \in Numbers : Q!Before(q, F(n), F(j)) /\ F(n) # F(no) => Q!Before(q2, F(n), F(j))
  BY DEF Q!Gains
<1>5. /\ \A n \in Numbers : Q!Once(q, F(n))
      /\ \A n, j \in Numbers : n < j => Q!Before(q, F(n), F(j))
  BY <1>1 DEF InOrder
<1>6. \A y : y \notin Q!Range(q2) => \A x : Q!Before(q2, x, y)
  BY DEF Q!Before, Q!Range
<1> HIDE DEF F, k
<1>7. k \in Nat /\ no \in Nat /\ Numbers \subseteq Nat /\ no + 1 \in 1..MaxSequence + 1
  BY BoundsAssumption DEF Numbers, k
<1>8. \A n \in Numbers : F(n) \in Q!Range(q2) <=> k <= n /\ n < no + 1
  <2>1. \A n \in Numbers : F(n) \in Q!Range(q2) <=> n = no \/ (k <= n /\ n < no)
    BY <1>2, <1>3, <1>4
  <2> QED
    BY <1>1, <1>7, <2>1 DEF k
<1>9. F(no) \notin Q!Range(q)
  BY <1>2, <1>7
<1>10. \A n \in Numbers : Q!Once(q2, F(n))
  BY <1>4, <1>5, <1>9
<1>11. ASSUME NEW n \in Numbers, NEW j \in Numbers, n < j PROVE Q!Before(q2, F(n), F(j))
  <2>1. CASE n # no
    BY <1>3, <1>4, <1>5, <1>11, <2>1
  <2>2. CASE n = no
    <3>1. ~(j < no + 1)
      BY <1>7, <1>11, <2>2
    <3> QED
      BY <1>6, <1>8, <3>1
  <2> QED
    BY <2>1, <2>2
<1>12. InOrder(q2, ss.id) /\ AreFrom(q2, ss.id, k, no + 1)
  BY <1>8, <1>10, <1>11 DEF InOrder, AreFrom, F
<1>13. k \in 1..no + 1
  BY <1>1, <1>7 DEF k
<1> QED
  BY <1>7, <1>12, <1>13 DEF Speaks, k
-----------------------------------------------------------------------------
(***************************************************************************)
(* The messages between the engine and the server: the effects e still to  *)
(* be performed, the commands m, and the frames u still to be written.     *)
(***************************************************************************)
Unsent(u, m, e, f) == Q!Waits(u, m, f) \/ f \in Q!Range(e)
UnsentOnce(u, m, e, f) ==
  Q!WaitsOnce(u, m, f) /\ Q!Once(e, f) /\ (f \in Q!Range(e) => ~Q!Waits(u, m, f))

\* No message has come, ...
Calm(u, m, e, u2, m2, e2) ==
  \A f \in Frame : /\ Unsent(u2, m2, e2, f) => Unsent(u, m, e, f)
                   /\ UnsentOnce(u, m, e, f) => UnsentOnce(u2, m2, e2, f)
\* ... or gone.
Whole(u, m, e, u2, m2, e2) == \A f \in Frame : Unsent(u, m, e, f) => Unsent(u2, m2, e2, f)

\* What the transport does to them.
LEMMA DrainsCalmly ==
  ASSUME NEW u, NEW m, NEW e, NEW u2, NEW m2, Q!Drains(u, m, u2, m2)
  PROVE  /\ Calm(u, m, e, u2, m2, e)
         /\ Q!Stays(u, m, u2, m2) => Whole(u, m, e, u2, m2, e)
         /\ \A g : Q!Loses(u, m, u2, m2, g) =>
              /\ Unsent(u, m, e, g)
              /\ UnsentOnce(u, m, e, g) => ~Unsent(u2, m2, e, g)
              /\ \A f : f # g /\ Unsent(u, m, e, f) => Unsent(u2, m2, e, f)
<1>1. Calm(u, m, e, u2, m2, e)
  BY DEF Q!Drains, Calm, Unsent, UnsentOnce
<1>2. Q!Stays(u, m, u2, m2) => Whole(u, m, e, u2, m2, e)
  BY DEF Q!Stays, Whole, Unsent
<1>3. ASSUME NEW g, Q!Loses(u, m, u2, m2, g)
      PROVE  /\ Unsent(u, m, e, g)
             /\ UnsentOnce(u, m, e, g) => ~Unsent(u2, m2, e, g)
             /\ \A f : f # g /\ Unsent(u, m, e, f) => Unsent(u2, m2, e, f)
  BY <1>3 DEF Q!Loses, Unsent, UnsentOnce
<1> QED
  BY <1>1, <1>2, <1>3

\* An effect becomes a command.
LEMMA EffectSent ==
  ASSUME NEW u, NEW m \in Seq(Q!Command), NEW X, NEW e \in Seq(X), e # <<>>, Head(e) \in Frame,
         NEW m2, m2 = Append(m, Q!Send(Head(e))), NEW e2, e2 = Tail(e)
  PROVE  Calm(u, m, e, u, m2, e2) /\ Whole(u, m, e, u, m2, e2)
<1>1. Q!Sheds(e, e2, Head(e))
  BY IoAssumptions, Q!TailSheds
<1> DEFINE h == Head(e)
<1>2. /\ \A x : x \in Q!Range(e) <=> x = h \/ x \in Q!Range(e2)
      /\ \A x : Q!Once(e, x) => Q!Once(e2, x) /\ (x = h => x \notin Q!Range(e2))
  BY <1>1 DEF Q!Sheds
<1>3. Q!Send(h) \in Q!Command
  BY DEF Q!Command
<1>4. /\ \A f : Q!Waits(u, m2, f) <=> Q!Send(f) = Q!Send(h) \/ Q!Waits(u, m, f)
      /\ \A f : Q!WaitsOnce(u, m, f) /\ (Q!Send(f) = Q!Send(h) => ~Q!Waits(u, m, f)) => Q!WaitsOnce(u, m2, f)
  BY <1>3, IoAssumptions, Q!CommandComes
<1>5. \A f : Q!Send(f) = Q!Send(h) <=> f = h
  BY DEF Q!Send
<1> HIDE DEF h
<1>6. \A f : Q!Waits(u, m2, f) <=> f = h \/ Q!Waits(u, m, f)
  BY <1>4, <1>5
<1>7. ASSUME NEW f, UnsentOnce(u, m, e, f) PROVE UnsentOnce(u, m2, e2, f)
  <2>1. Q!WaitsOnce(u, m2, f)
    BY <1>2, <1>4, <1>5, <1>7 DEF UnsentOnce
  <2>2. Q!Once(e2, f) /\ (f \in Q!Range(e2) => ~Q!Waits(u, m2, f))
    BY <1>2, <1>6, <1>7 DEF UnsentOnce
  <2> QED
    BY <2>1, <2>2 DEF UnsentOnce
<1>8. \A f : Unsent(u, m2, e2, f) <=> Unsent(u, m, e, f)
  BY <1>2, <1>6 DEF Unsent
<1> QED
  BY <1>7, <1>8 DEF Calm, Whole

\* An effect is performed that is no message, or is lost.
LEMMA EffectDropped ==
  ASSUME NEW u, NEW m \in Seq(Q!Command), NEW X, NEW e \in Seq(X), e # <<>>, NEW e2, e2 = Tail(e),
         NEW m2, m2 = m \/ \E c \in {Q!Connect, Q!Disconnect} : m2 = Append(m, c)
  PROVE  /\ Calm(u, m, e, u, m2, e2)
         /\ Head(e) \notin Frame => Whole(u, m, e, u, m2, e2)
<1>1. Q!Sheds(e, e2, Head(e))
  BY IoAssumptions, Q!TailSheds
<1> DEFINE h == Head(e)
<1>2. /\ \A x : x \in Q!Range(e) <=> x = h \/ x \in Q!Range(e2)
      /\ \A x : Q!Once(e, x) => Q!Once(e2, x)
  BY <1>1 DEF Q!Sheds
<1>3. \A f : (Q!Waits(u, m2, f) <=> Q!Waits(u, m, f)) /\ (Q!WaitsOnce(u, m, f) => Q!WaitsOnce(u, m2, f))
  <2>1. ASSUME NEW c \in {Q!Connect, Q!Disconnect}, m2 = Append(m, c)
        PROVE  \A f : /\ Q!Waits(u, m2, f) <=> Q!Waits(u, m, f)
                      /\ Q!WaitsOnce(u, m, f) => Q!WaitsOnce(u, m2, f)
    <3>1. c \in Q!Command /\ \A f : Q!Send(f) # c
      BY DEF Q!Command, Q!Connect, Q!Disconnect, Q!Send
    <3>2. /\ \A f : Q!Waits(u, m2, f) <=> Q!Send(f) = c \/ Q!Waits(u, m, f)
          /\ \A f : Q!WaitsOnce(u, m, f) /\ (Q!Send(f) = c => ~Q!Waits(u, m, f)) => Q!WaitsOnce(u, m2, f)
      BY <2>1, <3>1, IoAssumptions, Q!CommandComes
    <3> QED
      BY <3>1, <3>2
  <2> QED
    BY <2>1
<1> HIDE DEF h
<1>4. Calm(u, m, e, u, m2, e2)
  BY <1>2, <1>3 DEF Calm, Unsent, UnsentOnce
<1>5. h \notin Frame => Whole(u, m, e, u, m2, e2)
  BY <1>2, <1>3 DEF Whole, Unsent
<1> QED
  BY <1>4, <1>5 DEF h

\* The engine answers an event with effects, when it has performed all before.
LEMMA EffectsCome ==
  ASSUME NEW u, NEW m, NEW e, e = <<>>, NEW e2
  PROVE  /\ \A f \in Frame : Unsent(u, m, e2, f) <=> Unsent(u, m, e, f) \/ f \in P!Told(e2)
         /\ \A f \in Frame : f \notin P!Told(e2) /\ UnsentOnce(u, m, e, f) => UnsentOnce(u, m, e2, f)
         /\ P!Told(e2) = {} => Calm(u, m, e, u, m, e2) /\ Whole(u, m, e, u, m, e2)
<1>1. Frame = P!Message
  BY DEF Frame, P!Message, E!StartSession, P!StartSession, E!InterruptSession, P!InterruptSession
<1>2. P!Told(e2) = Q!Range(e2) \cap Frame
  BY <1>1 DEF P!Told, Q!Range
<1>3. Q!Range(e) = {}
  BY DEF Q!Range
<1>4. \A f \in Frame : Unsent(u, m, e2, f) <=> Unsent(u, m, e, f) \/ f \in P!Told(e2)
  BY <1>2, <1>3 DEF Unsent
<1>5. ASSUME NEW f \in Frame, f \notin P!Told(e2), UnsentOnce(u, m, e, f) PROVE UnsentOnce(u, m, e2, f)
  <2>1. f \notin Q!Range(e2)
    BY <1>2, <1>5
  <2>2. Q!Once(e2, f)
    BY <2>1 DEF Q!Once, Q!Range
  <2> QED
    BY <1>5, <2>1, <2>2 DEF UnsentOnce
<1>6. P!Told(e2) = {} => Calm(u, m, e, u, m, e2) /\ Whole(u, m, e, u, m, e2)
  BY <1>4, <1>5 DEF Calm, Whole
<1> QED
  BY <1>4, <1>5, <1>6

-----------------------------------------------------------------------------
(***************************************************************************)
(* The engine and the server.                                              *)
(***************************************************************************)
\* Of the engine's session the server is told once, and not yet to stop it; a
\* session it has not been told of it does not run, and has said nothing of.
Announced(ss, u, m, e, q, sv) ==
  /\ ~Unsent(u, m, e, E!InterruptSession(ss.id))
  /\ UnsentOnce(u, m, e, E!StartSession(ss.id))
  /\ Unsent(u, m, e, E!StartSession(ss.id)) =>
       /\ sv # ss.id /\ ss.nextSequenceNo = 1
       /\ \A n \in Numbers : S!Fragment(ss.id, n) \notin Q!Range(q)

\* Session s is on its way to the server, with it, or on its way back.
Abroad(u, m, e, q, sv, s) ==
  \/ Unsent(u, m, e, E!StartSession(s))
  \/ Unsent(u, m, e, E!InterruptSession(s))
  \/ sv = s
  \/ \E n \in Numbers : S!Fragment(s, n) \in Q!Range(q)

\* Such a session has got its id from the engine, which gives each one once.
IdsInv ==
  \A s \in SessionId : Abroad(Q!Unwritten, commands, effects, Q!Unheard, served, s) => s \in issued

DialogueInv ==
  session # None =>
    /\ Announced(session, Q!Unwritten, commands, effects, Q!Unheard, served)
    /\ Speaks(session, Q!Unheard, served, sequenceNo)

\* SessionIsServed, in the terms of the proof.
AnsweredInv ==
  session # None =>
    \/ Unsent(Q!Unwritten, commands, effects, E!StartSession(session.id))
    \/ served = session.id
    \/ S!Ended(session.id) \in Q!Range(Q!Unheard)
    \/ EndIsComing
    \/ refused

SyncInv == ServerInv /\ IdsInv /\ DialogueInv /\ AnsweredInv

\* The messages stay calm, and nothing of an unknown session joins what is under way.
LEMMA CalmIds ==
  ASSUME NEW u, NEW m, NEW e, NEW q, NEW sv, NEW u2, NEW m2, NEW e2, NEW q2, NEW sv2, NEW ids,
         \A s \in SessionId : Abroad(u, m, e, q, sv, s) => s \in ids,
         Calm(u, m, e, u2, m2, e2),
         \A s \in SessionId, n \in Numbers :
           S!Fragment(s, n) \in Q!Range(q2) => S!Fragment(s, n) \in Q!Range(q) \/ s \in ids,
         sv2 \in SessionId => sv2 = sv \/ sv2 \in ids
  PROVE  \A s \in SessionId : Abroad(u2, m2, e2, q2, sv2, s) => s \in ids
<1> SUFFICES ASSUME NEW s \in SessionId, Abroad(u2, m2, e2, q2, sv2, s), s \notin ids PROVE FALSE
  OBVIOUS
<1>1. ~Abroad(u, m, e, q, sv, s)
  OBVIOUS
<1>2. E!StartSession(s) \in Frame /\ E!InterruptSession(s) \in Frame
  BY MessagesDiffer
<1>3. /\ ~Unsent(u2, m2, e2, E!StartSession(s))
      /\ ~Unsent(u2, m2, e2, E!InterruptSession(s))
  BY <1>1, <1>2 DEF Abroad, Calm
<1> QED
  BY <1>1, <1>3 DEF Abroad

\* The same for the session.
LEMMA CalmAnnounced ==
  ASSUME NEW ss, ss.id \in SessionId,
         NEW u, NEW m, NEW e, NEW q, NEW sv, NEW u2, NEW m2, NEW e2, NEW q2, NEW sv2,
         Announced(ss, u, m, e, q, sv), Calm(u, m, e, u2, m2, e2),
         Unsent(u2, m2, e2, E!StartSession(ss.id)) =>
           /\ sv2 = ss.id => sv = ss.id
           /\ \A n \in Numbers :
                S!Fragment(ss.id, n) \in Q!Range(q2) => S!Fragment(ss.id, n) \in Q!Range(q)
  PROVE  Announced(ss, u2, m2, e2, q2, sv2)
<1>1. E!StartSession(ss.id) \in Frame /\ E!InterruptSession(ss.id) \in Frame
  BY MessagesDiffer
<1> QED
  BY <1>1 DEF Announced, Calm

\* The session is one.
LEMMA SessionFacts ==
  ASSUME P!Inv, session # None
  PROVE  /\ session.id \in SessionId /\ session.id \in issued /\ session.nextSequenceNo \in Nat
         /\ connectionState = "Ready"
  BY DEF P!Inv, P!TypeOK, P!SessionInvariant, P!Session

\* News of the end stays on its way.
LEMMA EndStaysComing ==
  ASSUME PartsInv, LinkInv, EndIsComing
  PROVE  /\ Performs => EndIsComing'
         /\ Transports => EndIsComing'
         /\ UNCHANGED <<dispatcher, followUps>> => EndIsComing'
<1>1. dispatcher \in Seq(Q!EventType) /\ followUps \in Seq(Context \cup {"ConnectionFailed"})
  BY DEF PartsInv, Q!IInv, Q!TypeOK, LinkInv, FollowUpInv
<1> DEFINE d == dispatcher  f == followUps  d2 == dispatcher'  f2 == followUps'
           T0 == Context \cup {"ConnectionFailed"}
<1>2. f \in Seq(T0) /\ d \in Seq(Q!EventType)
  BY <1>1
<1>3. "ConnectionFailed" \in T0
  OBVIOUS
<1>4. (\E x \in T0 : f2 = Append(f, x)) /\ Failing(f) => Failing(f2)
  <2> HIDE DEF f, f2, T0
  <2> QED
    BY <1>2, FollowUpsMove
<1>5. (\E x \in Q!EventType : d2 = Append(d, x)) /\ Closing(d) => Closing(d2)
  <2> SUFFICES ASSUME NEW x \in Q!EventType, d2 = Append(d, x), Closing(d) PROVE Closing(d2)
    OBVIOUS
  <2> HIDE DEF d, d2
  <2>1. \A i \in DOMAIN d : i \in DOMAIN d2 /\ d2[i] = d[i]
    BY <1>2
  <2> QED
    BY <2>1 DEF Closing
<1>6. Closing(d) \/ Failing(f)
  BY EndMeans
<1>7. ASSUME Performs PROVE EndIsComing'
  <2>1. d2 = d /\ (f2 = f \/ \E x \in T0 : f2 = Append(f, x))
    BY <1>7 DEF Performs
  <2> QED
    BY <1>4, <1>6, <2>1, EndMeans
<1>8. ASSUME Transports PROVE EndIsComing'
  <2>1. f2 = f /\ (d2 = d \/ \E x \in Q!EventType : d2 = Append(d, x))
    BY <1>8 DEF Transports, Q!Hears, Q!Publishes
  <2> QED
    BY <1>5, <1>6, <2>1, EndMeans
<1>9. UNCHANGED <<dispatcher, followUps>> => EndIsComing'
  BY <1>6, EndMeans
<1> QED
  BY <1>7, <1>8, <1>9

\* An effect is performed.
LEMMA PerformsSync ==
  ASSUME PartsInv, LinkInv, SyncInv, Performs
  PROVE  SyncInv'
<1> DEFINE u == Q!Unwritten  u2 == Q!Unwritten'  m == commands  m2 == commands'
           e == effects  e2 == effects'  q == Q!Unheard  q2 == Q!Unheard'
<1>1. /\ m \in Seq(Q!Command) /\ e \in Seq(P!Effect) /\ e # <<>> /\ e2 = Tail(e) /\ u2 = u
      /\ Q!Kept(q, q2) /\ UNCHANGED <<session, issued, serverVars>>
  BY EffectsAre DEF PartsInv, Q!IInv, Q!TypeOK, Performs
<1>2. \/ Head(e) \in Frame /\ m2 = Append(m, Q!Send(Head(e)))
      \/ Head(e) \in Frame /\ m2 = m /\ followUps' = Append(followUps, "ConnectionFailed")
      \/ Head(e) \notin Frame /\ (m2 = m \/ \E c \in {Q!Connect, Q!Disconnect} : m2 = Append(m, c))
  BY DEF Performs
<1>3. /\ Calm(u, m, e, u2, m2, e2)
      /\ Whole(u, m, e, u2, m2, e2) \/ followUps' = Append(followUps, "ConnectionFailed")
  <2> HIDE DEF u, u2, m, m2, e, e2
  <2>1. CASE Head(e) \in Frame /\ m2 = Append(m, Q!Send(Head(e)))
    BY <1>1, <2>1, EffectSent
  <2>2. CASE Head(e) \in Frame /\ m2 = m /\ followUps' = Append(followUps, "ConnectionFailed")
    BY <1>1, <2>2, EffectDropped
  <2>3. CASE Head(e) \notin Frame /\ (m2 = m \/ \E c \in {Q!Connect, Q!Disconnect} : m2 = Append(m, c))
    BY <1>1, <2>3, EffectDropped
  <2> QED
    BY <1>2, <2>1, <2>2, <2>3
<1>4. \A s \in SessionId, n \in Numbers : S!Fragment(s, n) \in Q!Range(q2) <=> S!Fragment(s, n) \in Q!Range(q)
  BY <1>1, MessagesDiffer DEF Q!Kept
<1>5. \A s \in SessionId : S!Ended(s) \in Q!Range(q) => S!Ended(s) \in Q!Range(q2)
  <2>1. \A s \in SessionId : S!Ended(s) # None
    BY NoneAssumption DEF Inbound
  <2> QED
    BY <1>1, <2>1 DEF Q!Kept
<1>6. ServerInv'
  BY <1>1 DEF SyncInv, ServerInv, serverVars
<1>7. IdsInv'
  <2> DEFINE ids == issued  sv == served
  <2>1. /\ \A s \in SessionId : Abroad(u, m, e, q, sv, s) => s \in ids
        /\ issued' = ids /\ served' = sv
    BY <1>1 DEF SyncInv, IdsInv, serverVars
  <2>2. \A s \in SessionId : Abroad(u2, m2, e2, q2, sv, s) => s \in ids
    <3> HIDE DEF u, u2, m, m2, e, e2, q, q2, ids, sv
    <3> QED
      BY <1>3, <1>4, <2>1, CalmIds
  <2> QED
    BY <2>1, <2>2 DEF IdsInv
<1>8. DialogueInv'
  <2> SUFFICES ASSUME session # None
               PROVE  Announced(session, u2, m2, e2, q2, served) /\ Speaks(session, q2, served, sequenceNo)
    BY <1>1 DEF DialogueInv, serverVars
  <2> DEFINE ss == session  sv == served  no == sequenceNo
  <2>1. ss.id \in SessionId /\ Announced(ss, u, m, e, q, sv) /\ Speaks(ss, q, sv, no)
    BY SessionFacts DEF PartsInv, SyncInv, DialogueInv
  <2> HIDE DEF u, u2, m, m2, e, e2, q, q2, ss, sv, no
  <2>2. Announced(ss, u2, m2, e2, q2, sv)
    BY <1>3, <1>4, <2>1, CalmAnnounced
  <2>3. Speaks(ss, q2, sv, no)
    BY <1>1, <2>1, KeptSpeaks
  <2> QED
    BY <2>2, <2>3 DEF ss, sv, no
<1>9. AnsweredInv'
  <2> SUFFICES ASSUME session # None
               PROVE  \/ Unsent(u2, m2, e2, E!StartSession(session.id))
                      \/ served = session.id
                      \/ S!Ended(session.id) \in Q!Range(q2)
                      \/ EndIsComing'
                      \/ refused
    BY <1>1 DEF AnsweredInv, serverVars
  <2>1. session.id \in SessionId /\ E!StartSession(session.id) \in Frame
    BY SessionFacts, MessagesDiffer DEF PartsInv
  <2>2. EndIsComing => EndIsComing'
    BY EndStaysComing
  <2>3. followUps' = Append(followUps, "ConnectionFailed") => EndIsComing'
    <3> DEFINE f == followUps
    <3>1. f \in Seq(Context \cup {"ConnectionFailed"})
      BY DEF LinkInv, FollowUpInv
    <3>2. Failing(Append(f, "ConnectionFailed"))
      <4> HIDE DEF f
      <4> QED
        BY <3>1, FollowUpsMove
    <3> QED
      BY <3>2, EndMeans
  <2>4. Whole(u, m, e, u2, m2, e2) /\ Unsent(u, m, e, E!StartSession(session.id))
          => Unsent(u2, m2, e2, E!StartSession(session.id))
    BY <2>1 DEF Whole
  <2> QED
    BY <1>3, <1>5, <2>1, <2>2, <2>3, <2>4 DEF SyncInv, AnsweredInv
<1> QED
  BY <1>6, <1>7, <1>8, <1>9 DEF SyncInv

\* What becomes of the line when the engine is told something: x leaves it, or nothing.
Passes(q, q2, x) == q2 = q \/ Q!Sheds(q, q2, x)

\* Nothing but x leaves, and nothing comes.
LEMMA PassesOn ==
  ASSUME NEW q, NEW q2, NEW x, Passes(q, q2, x)
  PROVE  /\ \A y \in Q!Range(q2) : y \in Q!Range(q)
         /\ \A y \in Q!Range(q) : y = x \/ y \in Q!Range(q2)
  BY DEF Passes, Q!Sheds

\* The ids after an event that begins no session.
LEMMA EventIds ==
  ASSUME PartsInv, SyncInv, effects = <<>>, UNCHANGED <<commands, served, issued>>,
         Q!Unwritten' = Q!Unwritten, NEW x, Passes(Q!Unheard, Q!Unheard', x),
         \A f \in P!Told(effects') : \E s \in issued : f = E!InterruptSession(s)
  PROVE  IdsInv'
<1> DEFINE u == Q!Unwritten  m == commands  e == effects  e2 == effects'
           q == Q!Unheard  q2 == Q!Unheard'  sv == served
<1>1. \A f \in Frame : Unsent(u, m, e2, f) <=> Unsent(u, m, e, f) \/ f \in P!Told(e2)
  BY EffectsCome
<1>2. \A y \in Q!Range(q2) : y \in Q!Range(q)
  BY PassesOn
<1>3. ASSUME NEW s \in SessionId, Abroad(u, m, e2, q2, sv, s) PROVE s \in issued
  <2>1. Abroad(u, m, e, q, sv, s) => s \in issued
    BY DEF SyncInv, IdsInv
  <2>2. E!StartSession(s) \in Frame /\ E!InterruptSession(s) \in Frame
    BY MessagesDiffer
  <2>3. E!StartSession(s) \notin P!Told(e2)
    BY MessagesDiffer
  <2>4. E!InterruptSession(s) \in P!Told(e2) => s \in issued
    <3>1. \A r : E!InterruptSession(r) = E!InterruptSession(s) => r = s
      BY DEF E!InterruptSession
    <3> QED
      BY <3>1
  <2>5. CASE E!InterruptSession(s) \in P!Told(e2)
    BY <2>4, <2>5
  <2>6. CASE E!InterruptSession(s) \notin P!Told(e2)
    <3> HIDE DEF u, m, e, e2, q, q2, sv
    <3>1. Abroad(u, m, e, q, sv, s)
      BY <1>1, <1>2, <1>3, <2>2, <2>3, <2>6 DEF Abroad
    <3> QED
      BY <2>1, <3>1
  <2> QED
    BY <2>5, <2>6
<1> QED
  BY <1>3 DEF IdsInv

\* The session ends.
LEMMA EndsSync ==
  ASSUME PartsInv, SyncInv, effects = <<>>, UNCHANGED <<commands, serverVars>>,
         Q!Unwritten' = Q!Unwritten, NEW x, Passes(Q!Unheard, Q!Unheard', x), P!Ends
  PROVE  SyncInv'
<1>1. session' = None /\ issued' = issued
  BY DEF P!Ends
<1>2. \A f \in P!Told(effects') : \E s \in issued : f = E!InterruptSession(s)
  <2>1. \A s : E!InterruptSession(s) = P!InterruptSession(s)
    BY DEF E!InterruptSession, P!InterruptSession
  <2> QED
    BY <2>1, SessionFacts DEF PartsInv, P!Ends
<1>3. IdsInv'
  BY <1>1, <1>2, EventIds DEF serverVars
<1> QED
  BY <1>1, <1>3 DEF SyncInv, ServerInv, DialogueInv, AnsweredInv, serverVars

\* The session, if there is one, stays what it is.
LEMMA StaysSync ==
  ASSUME PartsInv, SyncInv, effects = <<>>, UNCHANGED <<commands, serverVars>>,
         Q!Unwritten' = Q!Unwritten, NEW x, Passes(Q!Unheard, Q!Unheard', x), P!Stays,
         session # None =>
           /\ x # S!Ended(session.id) /\ \A n \in Numbers : x # S!Fragment(session.id, n)
           /\ EndIsComing => EndIsComing'
  PROVE  SyncInv'
<1> DEFINE u == Q!Unwritten  m == commands  e == effects  e2 == effects'
           q == Q!Unheard  q2 == Q!Unheard'  sv == served  no == sequenceNo  ss == session
<1>1. session' = session /\ issued' = issued /\ P!Told(e2) = {}
  BY DEF P!Stays
<1>2. IdsInv'
  BY <1>1, EventIds DEF serverVars
<1>3. Calm(u, m, e, u, m, e2) /\ Whole(u, m, e, u, m, e2)
  <2>1. e = <<>>
    OBVIOUS
  <2> HIDE DEF u, m, e, e2
  <2> QED
    BY <1>1, <2>1, EffectsCome
<1>4. /\ \A y \in Q!Range(q2) : y \in Q!Range(q)
      /\ \A y \in Q!Range(q) : y = x \/ y \in Q!Range(q2)
  BY PassesOn
<1>5. DialogueInv'
  <2> SUFFICES ASSUME session # None
               PROVE  Announced(ss, u, m, e2, q2, sv) /\ Speaks(ss, q2, sv, no)
    BY <1>1 DEF DialogueInv, serverVars
  <2>1. ss.id \in SessionId /\ Announced(ss, u, m, e, q, sv) /\ Speaks(ss, q, sv, no)
    BY SessionFacts DEF PartsInv, SyncInv, DialogueInv
  <2>2. \A n \in Numbers : x # S!Fragment(ss.id, n)
    OBVIOUS
  <2>3. Passes(q, q2, x)
    OBVIOUS
  <2> HIDE DEF u, m, e, e2, q, q2, ss, sv, no
  <2>4. Announced(ss, u, m, e2, q2, sv)
    BY <1>3, <1>4, <2>1, CalmAnnounced
  <2>5. Speaks(ss, q2, sv, no)
    BY <2>1, <2>2, <2>3, ShedsOther DEF Passes
  <2> QED
    BY <2>4, <2>5
<1>6. AnsweredInv'
  <2> SUFFICES ASSUME session # None
               PROVE  \/ Unsent(u, m, e2, E!StartSession(session.id))
                      \/ served = session.id
                      \/ S!Ended(session.id) \in Q!Range(q2)
                      \/ EndIsComing'
                      \/ refused
    BY <1>1 DEF AnsweredInv, serverVars
  <2>1. session.id \in SessionId /\ E!StartSession(session.id) \in Frame
    BY SessionFacts, MessagesDiffer DEF PartsInv
  <2>2. Unsent(u, m, e, E!StartSession(session.id)) => Unsent(u, m, e2, E!StartSession(session.id))
    BY <1>3, <2>1 DEF Whole
  <2> QED
    BY <1>4, <2>2 DEF SyncInv, AnsweredInv
<1> QED
  BY <1>2, <1>5, <1>6 DEF SyncInv, ServerInv, serverVars

\* The expected fragment is typed.
LEMMA TypedSync ==
  ASSUME PartsInv, SyncInv, effects = <<>>, UNCHANGED <<commands, serverVars>>,
         Q!Unwritten' = Q!Unwritten, session # None,
         NEW n \in Numbers, Q!Sheds(Q!Unheard, Q!Unheard', S!Fragment(session.id, n)),
         session.nextSequenceNo = n, session' = [session EXCEPT !.nextSequenceNo = n + 1],
         issued' = issued, P!Told(effects') = {},
         EndIsComing => EndIsComing'
  PROVE  SyncInv'
<1> DEFINE u == Q!Unwritten  m == commands  e == effects  e2 == effects'
           q == Q!Unheard  q2 == Q!Unheard'  sv == served  no == sequenceNo
           ss == session  ss2 == session'
<1>1. /\ ss.id \in SessionId /\ ss.nextSequenceNo = n
      /\ ss2.id = ss.id /\ ss2.nextSequenceNo = n + 1
  <2>1. session \in P!Session
    BY DEF PartsInv, P!Inv, P!TypeOK
  <2> QED
    BY <2>1, SessionFacts DEF PartsInv, P!Session
<1>2. Passes(q, q2, S!Fragment(ss.id, n)) /\ Q!Sheds(q, q2, S!Fragment(ss.id, n))
  BY DEF Passes
<1>3. IdsInv'
  BY <1>2, EventIds DEF serverVars
<1>4. Calm(u, m, e, u, m, e2) /\ Whole(u, m, e, u, m, e2)
  <2>1. e = <<>> /\ P!Told(e2) = {}
    OBVIOUS
  <2> HIDE DEF u, m, e, e2
  <2> QED
    BY <2>1, EffectsCome
<1>5. Announced(ss, u, m, e, q, sv) /\ Speaks(ss, q, sv, no)
  BY DEF SyncInv, DialogueInv
<1>6. S!Fragment(ss.id, n) \in Q!Range(q)
  BY <1>2 DEF Q!Sheds
<1>7. E!StartSession(ss.id) \in Frame /\ E!InterruptSession(ss.id) \in Frame
  BY <1>1, MessagesDiffer
<1>8. Announced(ss2, u, m, e2, q2, sv) /\ Speaks(ss2, q2, sv, no)
  <2> HIDE DEF u, m, e, e2, q, q2, ss, ss2, sv, no
  <2>1. Announced(ss2, u, m, e2, q2, sv)
    BY <1>1, <1>4, <1>5, <1>6, <1>7 DEF Announced, Calm
  <2>2. Speaks(ss2, q2, sv, no)
    BY <1>1, <1>2, <1>5, ShedsNext
  <2> QED
    BY <2>1, <2>2
<1>9. DialogueInv'
  BY <1>8 DEF DialogueInv, serverVars
<1>10. AnsweredInv'
  <2> SUFFICES \/ Unsent(u, m, e2, E!StartSession(session.id))
               \/ served = session.id
               \/ S!Ended(session.id) \in Q!Range(q2)
               \/ EndIsComing'
               \/ refused
    BY <1>1 DEF AnsweredInv, serverVars
  <2>1. Unsent(u, m, e, E!StartSession(session.id)) => Unsent(u, m, e2, E!StartSession(session.id))
    BY <1>4, <1>7 DEF Whole
  <2>2. S!Ended(session.id) # S!Fragment(session.id, n)
    BY MessagesDiffer
  <2>3. S!Ended(session.id) \in Q!Range(q) => S!Ended(session.id) \in Q!Range(q2)
    BY <1>2, <2>2, PassesOn
  <2> QED
    BY <2>1, <2>3 DEF SyncInv, AnsweredInv
<1> QED
  BY <1>3, <1>9, <1>10 DEF SyncInv, ServerInv, serverVars

\* A session begins.
LEMMA BeginsSync ==
  ASSUME PartsInv, SyncInv, effects = <<>>, UNCHANGED <<commands, serverVars>>,
         Q!Unwritten' = Q!Unwritten, NEW x, Passes(Q!Unheard, Q!Unheard', x), P!Begins
  PROVE  SyncInv'
<1> DEFINE u == Q!Unwritten  m == commands  e == effects  e2 == effects'
           q == Q!Unheard  q2 == Q!Unheard'  sv == served  no == sequenceNo  ss2 == session'
<1>1. PICK s \in SessionId \ issued :
        /\ ss2.id = s /\ ss2.nextSequenceNo = 1 /\ issued' = issued \cup {s}
        /\ P!Told(e2) = {E!StartSession(s)}
        /\ Q!Once(e2, E!StartSession(s))
  <2>1. \A s : E!StartSession(s) = P!StartSession(s)
    BY DEF E!StartSession, P!StartSession
  <2> QED
    BY <2>1 DEF P!Begins, Q!Once
<1>2. ~Abroad(u, m, e, q, sv, s)
  BY <1>1 DEF SyncInv, IdsInv
<1>3. E!StartSession(s) \in Frame /\ E!InterruptSession(s) \in Frame
  BY MessagesDiffer
<1>4. \A f \in Frame : Unsent(u, m, e2, f) <=> Unsent(u, m, e, f) \/ f = E!StartSession(s)
  BY <1>1, EffectsCome
<1>5. \A y \in Q!Range(q2) : y \in Q!Range(q)
  BY PassesOn
<1>6. ASSUME NEW r \in SessionId, Abroad(u, m, e2, q2, sv, r), r # s PROVE r \in issued
  <2>1. /\ E!StartSession(r) \in Frame /\ E!InterruptSession(r) \in Frame
        /\ E!StartSession(r) # E!StartSession(s) /\ E!InterruptSession(r) # E!StartSession(s)
    BY <1>6, MessagesDiffer DEF E!StartSession
  <2>2. Abroad(u, m, e, q, sv, r)
    <3> HIDE DEF u, m, e, e2, q, q2, sv
    <3> QED
      BY <1>4, <1>5, <1>6, <2>1 DEF Abroad
  <2> QED
    BY <2>2 DEF SyncInv, IdsInv
<1>7. IdsInv'
  BY <1>1, <1>6 DEF IdsInv, serverVars
<1>8. Announced(ss2, u, m, e2, q2, sv)
  <2>1. ~Unsent(u, m, e, E!StartSession(s)) /\ ~Unsent(u, m, e, E!InterruptSession(s)) /\ sv # s
    BY <1>2 DEF Abroad
  <2>2. ~Unsent(u, m, e2, E!InterruptSession(s))
    BY <1>3, <1>4, <2>1, MessagesDiffer
  <2>3. UnsentOnce(u, m, e2, E!StartSession(s))
    <3>1. ~Q!Waits(u, m, E!StartSession(s))
      BY <2>1 DEF Unsent
    <3>2. Q!WaitsOnce(u, m, E!StartSession(s))
      BY <3>1 DEF Q!WaitsOnce, Q!Waits, Q!Once, Q!Range
    <3> QED
      BY <1>1, <3>1, <3>2 DEF UnsentOnce
  <2>4. \A n \in Numbers : S!Fragment(s, n) \notin Q!Range(q2)
    BY <1>2, <1>5 DEF Abroad
  <2> HIDE DEF u, m, e, e2, q, q2, sv, ss2
  <2> QED
    BY <1>1, <2>1, <2>2, <2>3, <2>4 DEF Announced
<1>9. Speaks(ss2, q2, sv, no)
  <2>1. sv # s /\ \A n \in Numbers : S!Fragment(s, n) \notin Q!Range(q2)
    BY <1>2, <1>5 DEF Abroad
  <2> HIDE DEF q2, sv, no, ss2
  <2> QED
    BY <1>1, <2>1, SpeaksFirst
<1>10. DialogueInv'
  BY <1>8, <1>9 DEF DialogueInv, serverVars
<1>11. AnsweredInv'
  BY <1>1, <1>3, <1>4 DEF AnsweredInv, serverVars
<1> QED
  BY <1>7, <1>10, <1>11 DEF SyncInv, ServerInv, serverVars
\* The engine is told something that carries no text.
LEMMA WordlessSync ==
  ASSUME PartsInv, SyncInv, P!Wordless, effects = <<>>, UNCHANGED <<commands, serverVars>>,
         Q!Unwritten' = Q!Unwritten, NEW x, Passes(Q!Unheard, Q!Unheard', x),
         P!Stays /\ session # None =>
           /\ x # S!Ended(session.id) /\ \A n \in Numbers : x # S!Fragment(session.id, n)
           /\ EndIsComing => EndIsComing'
  PROVE  SyncInv'
<1>1. P!Ends \/ P!Stays \/ P!Begins
  BY EngineAssumptions, P!WordlessTells DEF PartsInv
<1>2. CASE P!Ends
  BY <1>2, EndsSync
<1>3. CASE P!Stays
  BY <1>3, StaysSync
<1>4. CASE P!Begins
  BY <1>4, BeginsSync
<1> QED
  BY <1>1, <1>2, <1>3, <1>4

\* A session needs a ready connection.
LEMMA NoSessionWithout ==
  ASSUME P!Inv', connectionState' = "Disconnected" PROVE session' = None
  BY DEF P!Inv, P!SessionInvariant

\* The rest of a dispatch, and the user.
LEMMA TellsSync ==
  ASSUME PartsInv, LinkInv, SyncInv, DispatchFollowUp \/ UserEvent
  PROVE  SyncInv'
<1>1. /\ Tells
      /\ \/ UNCHANGED followUps
         \/ connectionState' = "Disconnected"
         \/ followUps # <<>> /\ followUps' = Tail(followUps) /\ Head(followUps) # "ConnectionFailed"
  BY FollowUpSteps, UserSteps DEF LinkInv
<1>2. Q!Unheard' = Q!Unheard /\ Q!Unwritten' = Q!Unwritten
  BY <1>1, IoRests DEF Tells
<1>3. ASSUME session' # None, EndIsComing PROVE EndIsComing'
  <2>1. connectionState' # "Disconnected"
    BY <1>1, <1>3, NoSessionWithout DEF Tells
  <2>2. UNCHANGED dispatcher
    BY <1>1 DEF Tells, ioVars
  <2> DEFINE f == followUps  f2 == followUps'  T0 == Context \cup {"ConnectionFailed"}
  <2>3. f \in Seq(T0) /\ (f2 = f \/ (f # <<>> /\ f2 = Tail(f) /\ Head(f) # "ConnectionFailed"))
    BY <1>1, <2>1 DEF LinkInv, FollowUpInv
  <2>4. Failing(f) => Failing(f2)
    <3> HIDE DEF f, f2, T0
    <3> QED
      BY <2>3, FollowUpsMove
  <2> QED
    BY <1>3, <2>2, <2>4, EndMeans
<1>4. Passes(Q!Unheard, Q!Unheard', None)
  BY <1>2 DEF Passes
<1>5. P!Wordless /\ effects = <<>> /\ UNCHANGED <<commands, serverVars>>
  BY <1>1 DEF Tells, ioVars
<1>6. ASSUME P!Stays, session # None
      PROVE  /\ None # S!Ended(session.id) /\ \A n \in Numbers : None # S!Fragment(session.id, n)
             /\ EndIsComing => EndIsComing'
  <2>1. session' # None
    BY <1>6 DEF P!Stays
  <2>2. session.id \in SessionId
    BY <1>6, SessionFacts DEF PartsInv
  <2>3. None # S!Ended(session.id)
    BY <2>2, NoneAssumption DEF Inbound
  <2> QED
    BY <1>3, <2>1, <2>2, <2>3, MessagesDiffer
<1> QED
  BY <1>2, <1>4, <1>5, <1>6, WordlessSync

\* A callback.
LEMMA HandlesSync ==
  ASSUME PartsInv, LinkInv, SyncInv, NEW e, Handles(e), HearsText(e) \/ HearsEnd(e) \/ HearsOfLink(e)
  PROVE  SyncInv'
<1>1. /\ effects = <<>> /\ UNCHANGED <<commands, serverVars>> /\ Q!Unwritten' = Q!Unwritten
      /\ Q!Sheds(Q!Unheard, Q!Unheard', e.data) /\ Passes(Q!Unheard, Q!Unheard', e.data)
  BY DEF Handles, Passes
<1>2. ASSUME EndIsComing, session' # None PROVE EndIsComing'
  <2>1. ~Terminal(e)
    <3>1. CASE HearsOfLink(e)
      BY <1>2, <3>1, NoSessionWithout DEF HearsOfLink, Handles
    <3>2. CASE HearsText(e) \/ HearsEnd(e)
      <4>1. e.data # None
        BY <3>2, NoneAssumption DEF HearsText, HearsEnd, Inbound
      <4>2. dispatcher \in Seq(Q!EventType) /\ Carries(dispatcher) /\ dispatcher # <<>> /\ e = Head(dispatcher)
        BY EndMeans DEF PartsInv, Q!IInv, Q!TypeOK, LinkInv, Handles
      <4>3. e = dispatcher[1] /\ 1 \in DOMAIN dispatcher
        BY <4>2
      <4> QED
        BY <4>1, <4>2, <4>3 DEF Carries, Terminal
    <3> QED
      BY <3>1, <3>2
  <2> DEFINE d == dispatcher  d2 == dispatcher'  up == connected
  <2>2. d \in Seq(Q!EventType) /\ d # <<>> /\ d2 = Tail(d) /\ e = Head(d) /\ UNCHANGED followUps
    BY DEF PartsInv, Q!IInv, Q!TypeOK, Handles
  <2>3. Carries(d) /\ Vouched(d, up)
    BY EndMeans DEF LinkInv
  <2>4. Closing(d) => Terminal(Head(d)) \/ Closing(d2)
    <3> HIDE DEF d, d2, up
    <3> QED
      BY <2>2, <2>3, EventGoes
  <2> QED
    BY <1>2, <2>1, <2>2, <2>4, EndMeans
<1>3. ASSUME session # None PROVE session.id \in SessionId
  BY <1>3, SessionFacts DEF PartsInv
<1>4. CASE HearsOfLink(e)
  <2>1. P!Wordless /\ e.data = None
    BY <1>4 DEF HearsOfLink
  <2>2. \A s \in SessionId : None # S!Ended(s)
    BY NoneAssumption DEF Inbound
  <2>3. ASSUME P!Stays, session # None
        PROVE  /\ e.data # S!Ended(session.id) /\ \A n \in Numbers : e.data # S!Fragment(session.id, n)
               /\ EndIsComing => EndIsComing'
    BY <1>2, <1>3, <2>1, <2>2, <2>3, MessagesDiffer DEF P!Stays
  <2> QED
    BY <1>1, <2>1, <2>3, WordlessSync
<1>5. CASE HearsEnd(e)
  <2>1. PICK s \in SessionId : e.data = S!Ended(s) /\ P!Wordless /\ (session' # None => session'.id # s)
    BY <1>5 DEF HearsEnd
  <2>2. ASSUME P!Stays, session # None
        PROVE  /\ e.data # S!Ended(session.id) /\ \A n \in Numbers : e.data # S!Fragment(session.id, n)
               /\ EndIsComing => EndIsComing'
    <3>1. session' = session /\ session.id # s
      BY <2>1, <2>2 DEF P!Stays
    <3>2. S!Ended(s) # S!Ended(session.id) /\ \A n \in Numbers : S!Ended(s) # S!Fragment(session.id, n)
      BY <3>1, MessagesDiffer
    <3> QED
      BY <1>2, <2>1, <2>2, <3>1, <3>2
  <2> QED
    BY <1>1, <2>1, <2>2, WordlessSync
<1>6. CASE HearsText(e)
  <2>1. PICK s \in SessionId, n \in Numbers : e.data = S!Fragment(s, n) /\ P!HandleCommitText(s, n)
    BY <1>6 DEF HearsText, Numbers
  <2>2. n \in Nat
    BY BoundsAssumption DEF Numbers
  <2>3. \/ P!Ends
        \/ P!Stays /\ (session = None \/ session.id # s)
        \/ /\ session # None /\ session.id = s /\ session.nextSequenceNo = n
           /\ session' = [session EXCEPT !.nextSequenceNo = n + 1]
           /\ issued' = issued /\ P!Told(effects') = {}
    BY <2>1, <2>2, EngineAssumptions, P!FragmentTells DEF PartsInv
  <2>4. CASE P!Ends
    BY <1>1, <2>4, EndsSync
  <2>5. CASE P!Stays /\ (session = None \/ session.id # s)
    <3>1. session # None => /\ e.data # S!Ended(session.id)
                            /\ \A k \in Numbers : e.data # S!Fragment(session.id, k)
                            /\ EndIsComing => EndIsComing'
      <4> SUFFICES ASSUME session # None
                   PROVE  /\ e.data # S!Ended(session.id)
                          /\ \A k \in Numbers : e.data # S!Fragment(session.id, k)
                          /\ EndIsComing => EndIsComing'
        OBVIOUS
      <4>1. session' = session /\ session.id # s
        BY <2>5 DEF P!Stays
      <4>2. \A k \in Numbers : S!Fragment(s, n) # S!Fragment(session.id, k)
        BY <4>1, MessagesDiffer
      <4>3. S!Fragment(s, n) # S!Ended(session.id)
        BY MessagesDiffer
      <4> QED
        BY <1>2, <2>1, <4>1, <4>2, <4>3
    <3> QED
      BY <1>1, <2>5, <3>1, StaysSync
  <2>6. CASE /\ session # None /\ session.id = s /\ session.nextSequenceNo = n
             /\ session' = [session EXCEPT !.nextSequenceNo = n + 1]
             /\ issued' = issued /\ P!Told(effects') = {}
    <3>1. session' # None
      <4>1. session \in P!Session /\ n + 1 \in Nat
        BY <2>2, <2>6 DEF PartsInv, P!Inv, P!TypeOK
      <4>2. session' \in E!Session
        BY <2>6, <4>1 DEF P!Session, E!Session
      <4> QED
        BY <4>2, NoneAssumption
    <3>2. Q!Sheds(Q!Unheard, Q!Unheard', S!Fragment(session.id, n))
      BY <1>1, <2>1, <2>6
    <3>3. EndIsComing => EndIsComing'
      BY <1>2, <3>1
    <3> QED
      BY <1>1, <2>6, <3>2, <3>3, TypedSync
  <2> QED
    BY <2>3, <2>4, <2>5, <2>6
<1> QED
  BY <1>4, <1>5, <1>6
\* What the server makes of a step of the transport: it has a new connection, ...
MeetsNewLink == socket' # socket /\ served' = None /\ sequenceNo' = 1 /\ UNCHANGED refused
\* ... has been sent nothing, ...
ReadsNothing == socket' = socket /\ UNCHANGED serverVars /\ Q!JustWritten = {}
\* ... or has got frame g.
ReadsFrame(g) ==
  /\ connected
  /\ Q!Loses(Q!Unwritten, commands, Q!Unwritten', commands', g)
  /\ ServerReads(g)

\* What the step of the transport meant to the server.
LEMMA ServerMoves ==
  ASSUME Transports, ServerFollows
  PROVE  MeetsNewLink \/ ReadsNothing \/ \E g \in Frame : ReadsFrame(g)
<1>1. {c \in T!Writer : co'[c].result = "ok" /\ co'[c] # co[c]} = Q!JustWritten
  BY SameState DEF Q!JustWritten
<1>2. CASE socket' # socket
  BY <1>2 DEF ServerFollows, S!Forgets, MeetsNewLink
<1>3. CASE socket' = socket /\ Q!JustWritten = {}
  BY <1>1, <1>3 DEF ServerFollows, ReadsNothing
<1>4. CASE socket' = socket /\ Q!JustWritten # {}
  <2>1. PICK w \in Q!Writer :
          /\ Q!JustWritten = {w} /\ connected /\ co'[w].data \in Frame
          /\ Q!Loses(Q!Unwritten, commands, Q!Unwritten', commands', co'[w].data)
    BY <1>4 DEF Transports, Q!Sends
  <2>2. (CHOOSE c \in {w} : TRUE) = w
    OBVIOUS
  <2>3. ServerReads(co'[w].data)
    BY <1>1, <1>4, <2>1, <2>2 DEF ServerFollows
  <2> QED
    BY <2>1, <2>3 DEF ReadsFrame
<1> QED
  BY <1>2, <1>3, <1>4

\* What it then serves: the same, nothing, or the session it is told to start.
LEMMA ServerServes ==
  ASSUME ServerInv, NEW g \in Frame, ServerReads(g)
  PROVE  /\ ServerInv' /\ (refused => refused')
         /\ \/ \E s \in SessionId :
                 /\ g = E!StartSession(s) /\ served = None /\ sequenceNo = 1
                 /\ served' = s /\ sequenceNo' = 1
            \/ /\ \E s \in SessionId : g = E!StartSession(s)
               /\ served' = None /\ sequenceNo' = 1 /\ refused'
            \/ \E s \in SessionId :
                 /\ g = E!InterruptSession(s)
                 /\ \/ served = s /\ served' = None /\ sequenceNo' = 1
                    \/ UNCHANGED <<served, sequenceNo>>
<1>0. 1 \in 1..MaxSequence + 1
  BY BoundsAssumption
<1>1. CASE \E s \in SessionId : g = E!StartSession(s)
  <2>1. PICK s \in SessionId : g = E!StartSession(s)
    BY <1>1
  <2>2. g.type = "StartSession" /\ g.session = s
    BY <2>1 DEF E!StartSession
  <2>3. \/ served = None /\ served' = s /\ UNCHANGED <<sequenceNo, refused>>
        \/ served' = None /\ sequenceNo' = 1 /\ refused' = TRUE
    BY <2>2 DEF ServerReads, ServerStarts, S!Starts, S!Forgets
  <2> QED
    BY <1>0, <2>1, <2>3, NoneAssumption DEF ServerInv
<1>2. CASE \E s \in SessionId : g = E!InterruptSession(s)
  <2>1. PICK s \in SessionId : g = E!InterruptSession(s)
    BY <1>2
  <2>2. g.type = "InterruptSession" /\ g.session = s
    BY <2>1 DEF E!InterruptSession
  <2>3. /\ refused' = refused
        /\ \/ served = s /\ served' = None /\ sequenceNo' = 1
           \/ UNCHANGED <<served, sequenceNo>>
    BY <2>2 DEF ServerReads, S!Interrupted, S!Forgets
  <2> QED
    BY <1>0, <2>1, <2>3 DEF ServerInv
<1> QED
  BY <1>1, <1>2 DEF Frame

\* While there is a session the connection lasts, or news of its end is on its way.
LEMMA LinkOrEnd ==
  ASSUME PartsInv, LinkInv, session # None
  PROVE  /\ Transports /\ ~(connected /\ connected') => EndIsComing'
         /\ ~connected /\ UNCHANGED <<dispatcher, followUps>> => EndIsComing'
<1>1. connected \/ EndIsComing
  BY SessionFacts DEF PartsInv, LinkInv, ReadyHasLink
<1>2. ASSUME Transports, connected, ~connected' PROVE EndIsComing'
  <2> DEFINE d == dispatcher  d2 == dispatcher'
  <2>1. d \in Seq(Q!EventType)
    BY DEF PartsInv, Q!IInv, Q!TypeOK
  <2>2. PICK e \in Q!EventType : d2 = Append(d, e) /\ Terminal(e)
    BY <1>2 DEF Transports, Q!Hears, Q!Publishes, Terminal
  <2>3. Closing(d2)
    <3> HIDE DEF d, d2
    <3>1. Len(d) + 1 \in DOMAIN d2 /\ d2[Len(d) + 1] = e
      BY <2>1, <2>2
    <3> QED
      BY <2>2, <3>1 DEF Closing
  <2> QED
    BY <2>3, EndMeans
<1> QED
  BY <1>1, <1>2, EndStaysComing

\* The worker takes a step, or an operation ends.
LEMMA TransportsSync ==
  ASSUME PartsInv, LinkInv, SyncInv, Transports, ServerFollows
  PROVE  SyncInv'
<1> DEFINE u == Q!Unwritten  u2 == Q!Unwritten'  m == commands  m2 == commands'
           e == effects  q == Q!Unheard  q2 == Q!Unheard'
           sv == served  sv2 == served'  no == sequenceNo  no2 == sequenceNo'  ss == session
           Start(s) == E!StartSession(s)
<1>0. /\ Q!Drains(u, m, u2, m2) /\ Q!Kept(q, q2)
      /\ UNCHANGED <<session, issued, effects>>
      /\ Q!JustWritten = {} /\ connected /\ connected' => Q!Stays(u, m, u2, m2)
      /\ connected /\ connected' => UNCHANGED socket
  <2>1. Q!JustWritten = {} => \A w \in Q!Writer : Q!JustWritten # {w}
    OBVIOUS
  <2> QED
    BY <2>1 DEF Transports, Q!Sends, Q!Hears, engineVars
<1>1. Calm(u, m, e, u2, m2, e)
  <2> HIDE DEF u, m, e, u2, m2
  <2> QED
    BY <1>0, DrainsCalmly
<1>2. ServerInv' /\ (refused => refused')
  <2>1. MeetsNewLink => ServerInv' /\ (refused => refused')
    BY BoundsAssumption DEF MeetsNewLink, ServerInv
  <2>2. ReadsNothing => ServerInv' /\ (refused => refused')
    BY DEF ReadsNothing, SyncInv, ServerInv, serverVars
  <2>3. \A g \in Frame : ReadsFrame(g) => ServerInv' /\ (refused => refused')
    BY ServerServes DEF ReadsFrame, SyncInv
  <2> QED
    BY <2>1, <2>2, <2>3, ServerMoves
\* A session that the server begins to serve is the one of the frame it has got.
<1>3. \/ sv2 = sv /\ no2 = no
      \/ sv2 = None
      \/ \E s \in SessionId : ReadsFrame(Start(s)) /\ sv2 = s /\ no2 = 1
  BY ServerMoves, ServerServes DEF MeetsNewLink, ReadsNothing, ReadsFrame, serverVars, SyncInv
<1>4. ASSUME NEW g, ReadsFrame(g)
      PROVE  /\ Unsent(u, m, e, g) /\ (UnsentOnce(u, m, e, g) => ~Unsent(u2, m2, e, g))
             /\ \A f : f # g /\ Unsent(u, m, e, f) => Unsent(u2, m2, e, f)
  <2>1. Q!Loses(u, m, u2, m2, g)
    BY <1>4 DEF ReadsFrame
  <2> HIDE DEF u, m, e, u2, m2
  <2> QED
    BY <1>0, <2>1, DrainsCalmly
<1>5. /\ \A s \in SessionId, n \in Numbers : S!Fragment(s, n) \in Q!Range(q2) <=> S!Fragment(s, n) \in Q!Range(q)
      /\ \A s \in SessionId : S!Ended(s) \in Q!Range(q) => S!Ended(s) \in Q!Range(q2)
  <2>1. \A s \in SessionId : S!Ended(s) # None
    BY NoneAssumption DEF Inbound
  <2> QED
    BY <1>0, <2>1, MessagesDiffer DEF Q!Kept
<1>6. IdsInv'
  <2> DEFINE ids == issued
  <2>1. \A s \in SessionId : Abroad(u, m, e, q, sv, s) => s \in ids
    BY DEF SyncInv, IdsInv
  <2>2. sv2 \in SessionId => sv2 = sv \/ sv2 \in ids
    <3>1. \A s \in SessionId : ReadsFrame(Start(s)) => s \in ids
      BY <1>4, <2>1 DEF Abroad
    <3> QED
      BY <1>3, <3>1, NoneAssumption
  <2>3. \A s \in SessionId : Abroad(u2, m2, e, q2, sv2, s) => s \in ids
    <3> HIDE DEF u, u2, m, m2, e, q, q2, ids, sv, sv2
    <3> QED
      BY <1>1, <1>5, <2>1, <2>2, CalmIds
  <2> QED
    BY <1>0, <2>3 DEF IdsInv
<1>7. DialogueInv'
  <2> SUFFICES ASSUME session # None
               PROVE  Announced(ss, u2, m2, e, q2, sv2) /\ Speaks(ss, q2, sv2, no2)
    BY <1>0 DEF DialogueInv
  <2>1. /\ ss.id \in SessionId /\ ss.id # None
        /\ Announced(ss, u, m, e, q, sv) /\ Speaks(ss, q, sv, no)
    BY SessionFacts, NoneAssumption DEF PartsInv, SyncInv, DialogueInv
  <2>2. CASE sv2 = ss.id => sv = ss.id /\ no2 = no
    <3> HIDE DEF u, u2, m, m2, e, q, q2, ss, sv, no, sv2, no2
    <3>1. Announced(ss, u2, m2, e, q2, sv2)
      BY <1>1, <1>5, <2>1, <2>2, CalmAnnounced
    <3>2. Speaks(ss, q2, sv2, no2)
      BY <1>0, <2>1, <2>2, KeptSpeaks
    <3> QED
      BY <3>1, <3>2
  <2>3. CASE ReadsFrame(Start(ss.id)) /\ sv2 = ss.id /\ no2 = 1
    <3>1. Unsent(u, m, e, Start(ss.id)) /\ ~Unsent(u2, m2, e, Start(ss.id))
      BY <1>4, <2>1, <2>3 DEF Announced
    <3>2. ss.nextSequenceNo = 1 /\ \A n \in Numbers : S!Fragment(ss.id, n) \notin Q!Range(q2)
      BY <1>5, <2>1, <3>1 DEF Announced
    <3> HIDE DEF u, u2, m, m2, e, q, q2, ss, sv, no, sv2, no2
    <3>3. Announced(ss, u2, m2, e, q2, sv2)
      BY <1>1, <2>1, <3>1, CalmAnnounced
    <3>4. Speaks(ss, q2, sv2, no2)
      BY <2>1, <2>3, <3>2, SpeaksFirst
    <3> QED
      BY <3>3, <3>4
  <2> QED
    BY <1>3, <2>1, <2>2, <2>3
<1>8. AnsweredInv'
  <2> SUFFICES ASSUME session # None, ~EndIsComing', ~refused'
               PROVE  \/ Unsent(u2, m2, e, Start(ss.id))
                      \/ sv2 = ss.id
                      \/ S!Ended(ss.id) \in Q!Range(q2)
    BY <1>0 DEF AnsweredInv
  <2>1. connected /\ connected'
    BY LinkOrEnd
  <2>2. ~EndIsComing /\ ~refused
    BY <1>2, EndStaysComing
  <2>3. /\ ss.id \in SessionId /\ ss.id # None /\ Start(ss.id) \in Frame
        /\ ~Unsent(u, m, e, E!InterruptSession(ss.id))
    BY SessionFacts, MessagesDiffer, NoneAssumption DEF PartsInv, SyncInv, DialogueInv, Announced
  <2>4. Unsent(u, m, e, Start(ss.id)) \/ sv = ss.id \/ S!Ended(ss.id) \in Q!Range(q)
    BY <2>2 DEF SyncInv, AnsweredInv
  <2>5. CASE S!Ended(ss.id) \in Q!Range(q)
    BY <1>5, <2>3, <2>5
  <2>6. CASE ReadsNothing
    <3>1. Whole(u, m, e, u2, m2, e)
      <4>1. Q!Stays(u, m, u2, m2)
        BY <1>0, <2>1, <2>6 DEF ReadsNothing
      <4> HIDE DEF u, m, e, u2, m2
      <4> QED
        BY <1>0, <4>1, DrainsCalmly
    <3>2. sv2 = sv
      BY <2>6 DEF ReadsNothing, serverVars
    <3> QED
      BY <1>5, <2>3, <2>4, <3>1, <3>2 DEF Whole
  <2>7. ASSUME NEW g \in Frame, ReadsFrame(g), S!Ended(ss.id) \notin Q!Range(q)
        PROVE  Unsent(u2, m2, e, Start(ss.id)) \/ sv2 = ss.id
    <3>1. \A f : f # g /\ Unsent(u, m, e, f) => Unsent(u2, m2, e, f)
      BY <1>4, <2>7
    <3>2. g # E!InterruptSession(ss.id)
      BY <1>4, <2>3, <2>7
    <3>3. \/ \E s \in SessionId : g = Start(s) /\ sv = None /\ sv2 = s
          \/ \E s \in SessionId : /\ g = E!InterruptSession(s)
                                  /\ (sv = s \/ sv2 = sv)
      BY <2>7, ServerServes DEF ReadsFrame, SyncInv
    <3>4. CASE \E s \in SessionId : g = Start(s) /\ sv = None /\ sv2 = s
      <4>1. Unsent(u, m, e, Start(ss.id))
        BY <2>3, <2>4, <2>7, <3>4
      <4>2. g = Start(ss.id) => sv2 = ss.id
        <5>1. \A s, r : Start(s) = Start(r) => s = r
          BY DEF E!StartSession
        <5> QED
          BY <3>4, <5>1
      <4> QED
        BY <3>1, <4>1, <4>2
    <3>5. CASE \E s \in SessionId : g = E!InterruptSession(s) /\ (sv = s \/ sv2 = sv)
      <4>1. g # Start(ss.id)
        BY <3>5, MessagesDiffer
      <4> QED
        BY <2>4, <2>7, <3>1, <3>2, <3>5, <4>1
    <3> QED
      BY <3>3, <3>4, <3>5
  <2>8. ~MeetsNewLink
    BY <1>0, <2>1 DEF MeetsNewLink
  <2> QED
    BY <2>5, <2>6, <2>7, <2>8, ServerMoves
<1> QED
  BY <1>2, <1>6, <1>7, <1>8 DEF SyncInv

\* The server says something.
LEMMA ArrivesSync ==
  ASSUME PartsInv, LinkInv, SyncInv, NEW x \in Inbound, Arrives(x), S!Says(x), UNCHANGED refused
  PROVE  SyncInv'
<1> DEFINE u == Q!Unwritten  u2 == Q!Unwritten'  m == commands  m2 == commands'
           e == effects  q == Q!Unheard  q2 == Q!Unheard'
           sv == served  sv2 == served'  no == sequenceNo  no2 == sequenceNo'  ss == session
<1>0. /\ Q!Drains(u, m, u2, m2) /\ Q!Gains(q, q2, x)
      /\ UNCHANGED <<session, issued, effects, connected, dispatcher, followUps>>
      /\ connected => Q!Stays(u, m, u2, m2)
  <2>1. Q!JustWritten = {} => \A w \in Q!Writer : Q!JustWritten # {w}
    OBVIOUS
  <2> QED
    BY <2>1 DEF Arrives, Q!Sends, engineVars
<1>1. Calm(u, m, e, u2, m2, e) /\ (connected => Whole(u, m, e, u2, m2, e))
  <2> HIDE DEF u, m, e, u2, m2
  <2> QED
    BY <1>0, DrainsCalmly
<1>2. /\ sv \in SessionId
      /\ \/ x = S!Fragment(sv, no) /\ no \in Numbers /\ no2 = no + 1 /\ sv2 = sv
         \/ x = S!Ended(sv) /\ sv2 = None /\ no2 = 1
  <2>1. sv \in SessionId
    BY DEF S!Says, SyncInv, ServerInv
  <2>2. x = S!Fragment(sv, no) => no \in Numbers
    <3>1. x.type = "CommitText" => x.fragment \in 1..MaxSequence
      BY InboundIs
    <3>2. S!Fragment(sv, no).type = "CommitText" /\ S!Fragment(sv, no).fragment = no
      BY DEF S!Fragment
    <3> QED
      BY <3>1, <3>2 DEF Numbers
  <2> QED
    BY <2>1, <2>2 DEF S!Says, S!Forgets
<1>3. ServerInv'
  <2>1. no \in Numbers => no + 1 \in 1..MaxSequence + 1
    BY BoundsAssumption DEF Numbers
  <2>2. 1 \in 1..MaxSequence + 1
    BY BoundsAssumption
  <2> QED
    BY <1>2, <2>1, <2>2, NoneAssumption DEF ServerInv
<1>4. \A y : y \in Q!Range(q2) <=> y = x \/ y \in Q!Range(q)
  BY <1>0 DEF Q!Gains
<1>5. \A s \in SessionId, n \in Numbers : x = S!Fragment(s, n) => s = sv
  BY <1>2, MessagesDiffer
<1>6. IdsInv'
  <2> DEFINE ids == issued
  <2>1. \A s \in SessionId : Abroad(u, m, e, q, sv, s) => s \in ids
    BY DEF SyncInv, IdsInv
  <2>2. sv \in ids
    BY <1>2, <2>1 DEF Abroad
  <2>3. \A s \in SessionId : Abroad(u2, m2, e, q2, sv2, s) => s \in ids
    <3>1. \A s \in SessionId, n \in Numbers :
            S!Fragment(s, n) \in Q!Range(q2) => S!Fragment(s, n) \in Q!Range(q) \/ s \in ids
      BY <1>4, <1>5, <2>2
    <3>2. sv2 \in SessionId => sv2 = sv \/ sv2 \in ids
      BY <1>2, NoneAssumption
    <3> HIDE DEF u, u2, m, m2, e, q, q2, ids, sv, sv2
    <3> QED
      BY <1>1, <2>1, <3>1, <3>2, CalmIds
  <2> QED
    BY <1>0, <2>3 DEF IdsInv
<1>7. DialogueInv'
  <2> SUFFICES ASSUME session # None
               PROVE  Announced(ss, u2, m2, e, q2, sv2) /\ Speaks(ss, q2, sv2, no2)
    BY <1>0 DEF DialogueInv
  <2>1. /\ ss.id \in SessionId /\ ss.id # None /\ ss.nextSequenceNo \in Nat
        /\ Announced(ss, u, m, e, q, sv) /\ Speaks(ss, q, sv, no)
    BY SessionFacts, NoneAssumption DEF PartsInv, SyncInv, DialogueInv
  <2>2. E!StartSession(ss.id) \in Frame
    BY <2>1, MessagesDiffer
  <2> HIDE DEF u, u2, m, m2, e, q, q2, ss, sv, no, sv2, no2
  <2>3. Announced(ss, u2, m2, e, q2, sv2)
    <3>1. Unsent(u2, m2, e, E!StartSession(ss.id)) => sv # ss.id
      BY <1>1, <2>1, <2>2 DEF Announced, Calm
    <3>2. Unsent(u2, m2, e, E!StartSession(ss.id)) =>
            /\ sv2 = ss.id => sv = ss.id
            /\ \A n \in Numbers : S!Fragment(ss.id, n) \in Q!Range(q2) => S!Fragment(ss.id, n) \in Q!Range(q)
      BY <1>2, <1>4, <1>5, <2>1, <3>1
    <3> QED
      BY <1>1, <2>1, <3>2, CalmAnnounced
  <2>4. CASE sv = ss.id /\ x = S!Fragment(sv, no) /\ no \in Numbers /\ no2 = no + 1 /\ sv2 = sv
    <3>1. Speaks(ss, q2, ss.id, no + 1)
      BY <1>0, <2>1, <2>4, GainsNext
    <3> QED
      BY <2>3, <2>4, <3>1
  <2>5. CASE ~(sv = ss.id /\ x = S!Fragment(sv, no) /\ no \in Numbers /\ no2 = no + 1 /\ sv2 = sv)
    <3>1. \A n \in Numbers : x # S!Fragment(ss.id, n)
      BY <1>2, <1>5, <2>1, <2>5, MessagesDiffer
    <3>2. sv2 = ss.id => sv = ss.id /\ no2 = no
      BY <1>2, <2>1, <2>5
    <3>3. Speaks(ss, q2, sv2, no2)
      BY <1>0, <2>1, <3>1, <3>2, GainsOther
    <3> QED
      BY <2>3, <3>3
  <2> QED
    BY <2>4, <2>5
<1>8. AnsweredInv'
  <2> SUFFICES ASSUME session # None, ~EndIsComing', ~refused
               PROVE  \/ Unsent(u2, m2, e, E!StartSession(ss.id))
                      \/ sv2 = ss.id
                      \/ S!Ended(ss.id) \in Q!Range(q2)
    BY <1>0 DEF AnsweredInv
  <2>1. connected /\ ~EndIsComing
    BY <1>0, LinkOrEnd, EndStaysComing
  <2>2. ss.id \in SessionId /\ E!StartSession(ss.id) \in Frame
    BY SessionFacts, MessagesDiffer DEF PartsInv
  <2>3. Unsent(u, m, e, E!StartSession(ss.id)) \/ sv = ss.id \/ S!Ended(ss.id) \in Q!Range(q)
    BY <2>1 DEF SyncInv, AnsweredInv
  <2> QED
    BY <1>1, <1>2, <1>4, <2>1, <2>2, <2>3 DEF Whole
<1> QED
  BY <1>3, <1>6, <1>7, <1>8 DEF SyncInv
\* Every step keeps the engine and the server together.
LEMMA NextSync == PartsInv /\ LinkInv /\ SyncInv /\ [Next]_vars => SyncInv'
<1> SUFFICES ASSUME PartsInv, LinkInv, SyncInv, [Next]_vars PROVE SyncInv'
  OBVIOUS
<1>1. CASE Apply
  BY <1>1, ApplySteps, PerformsSync
<1>2. CASE DispatchFollowUp \/ UserEvent
  BY <1>2, TellsSync
<1>3. CASE Callback
  <2> DEFINE e == Head(dispatcher)
  <2>1. Handles(e) /\ (HearsText(e) \/ HearsEnd(e) \/ HearsOfLink(e))
    BY <1>3, CallbackSteps DEF LinkInv
  <2> QED
    BY <2>1, HandlesSync
<1>4. CASE Transports /\ ServerFollows
  BY <1>4, TransportsSync
<1>5. CASE \E m \in Inbound : Arrives(m) /\ S!Says(m) /\ UNCHANGED refused
  BY <1>5, ArrivesSync
<1>6. CASE UNCHANGED vars
  <2>1. /\ UNCHANGED <<session, issued, effects, commands, served, sequenceNo, refused>>
        /\ UNCHANGED <<dispatcher, followUps>> /\ UNCHANGED ioVars
    BY <1>6 DEF vars, engineVars, ioVars, serverVars
  <2>2. Q!Unheard' = Q!Unheard /\ Q!Unwritten' = Q!Unwritten /\ (EndIsComing => EndIsComing')
    BY <2>1, IoRests, EndStaysComing
  <2> QED
    BY <2>1, <2>2 DEF SyncInv, ServerInv, IdsInv, DialogueInv, AnsweredInv
<1> QED
  BY <1>1, <1>2, <1>3, <1>4, <1>5, <1>6, StepKinds DEF LinkInv

\* At first there is no session, and nothing under way.
LEMMA InitSync == Init => SyncInv
<1> SUFFICES ASSUME Init PROVE SyncInv
  OBVIOUS
<1>1. session = None /\ effects = <<>> /\ served = None /\ sequenceNo = 1
  BY DEF Init, E!Init
<1>2. commands = <<>> /\ outgoingFrames = <<>> /\ dispatcher = <<>> /\ ready = <<>>
  BY DEF Init, T!Init
<1>3. Q!Unwritten = <<>>
  BY <1>2 DEF Q!Unwritten
<1>4. DOMAIN Q!Unheard = {}
  BY <1>2 DEF Q!Unheard
<1>5. /\ Q!Range(effects) = {} /\ Q!Range(commands) = {}
      /\ Q!Range(Q!Unwritten) = {} /\ Q!Range(Q!Unheard) = {}
  BY <1>1, <1>2, <1>3, <1>4 DEF Q!Range
<1>6. IdsInv
  BY <1>1, <1>5, NoneAssumption DEF IdsInv, Abroad, Unsent, Q!Waits
<1>7. ServerInv
  BY <1>1, BoundsAssumption DEF ServerInv
<1> QED
  BY <1>1, <1>6, <1>7 DEF SyncInv, DialogueInv, AnsweredInv

\* The engine and the server agree on the session, up to what is under way between them.
THEOREM SyncInvariant == Spec => []SyncInv
<1>1. (PartsInv /\ LinkInv) /\ SyncInv /\ [Next]_vars => SyncInv'
  BY NextSync
<1> QED
  BY <1>1, InitSync, PartsInvariant, PTL DEF Spec

\* What the peer has yet to be sent is an effect, a command or a frame.
LEMMA UnsentIs ==
  ASSUME PartsInv, NEW f \in Frame, Unsent(Q!Unwritten, commands, effects, f)
  PROVE  \/ \E i \in DOMAIN effects : effects[i] = f
         \/ \E i \in DOMAIN commands : commands[i] = T!Send(f)
         \/ \E i \in DOMAIN outgoingFrames : outgoingFrames[i] = f
<1>1. \A g \in Q!Range(Q!Unwritten) : \E i \in DOMAIN outgoingFrames : outgoingFrames[i] = g
  <2>1. outgoingFrames \in Seq(Frame)
    BY DEF PartsInv, Q!IInv, Q!TypeOK
  <2>2. CASE Q!Unwritten = outgoingFrames
    BY <2>2 DEF Q!Range
  <2>3. CASE outgoingFrames # <<>> /\ Q!Unwritten = Tail(outgoingFrames)
    <3>1. \A i \in DOMAIN Tail(outgoingFrames) :
            i + 1 \in DOMAIN outgoingFrames /\ outgoingFrames[i + 1] = Tail(outgoingFrames)[i]
      BY <2>1, <2>3
    <3> QED
      BY <2>3, <3>1 DEF Q!Range
  <2> QED
    BY <2>2, <2>3 DEF Q!Unwritten
<1>2. T!Send(f) = Q!Send(f)
  BY DEF T!Send, Q!Send
<1> QED
  BY <1>1, <1>2 DEF Unsent, Q!Waits, Q!Range

\* What is under way from the peer is in a callback or held by a read loop.
LEMMA UnheardIs ==
  ASSUME PartsInv, LinkInv, NEW x \in Q!Range(Q!Unheard), x # None
  PROVE  \/ \E i \in DOMAIN dispatcher : dispatcher[i].type = "Inbound" /\ dispatcher[i].data = x
         \/ \E c \in T!Reader : co[c].data = x
<1>1. /\ dispatcher \in Seq(Q!EventType) /\ Carries(dispatcher)
  BY EndMeans DEF PartsInv, Q!IInv, Q!TypeOK, LinkInv
<1>2. PICK i \in DOMAIN Q!Unheard : Q!Unheard[i] = x
  BY DEF Q!Range
<1>3. /\ i \in 1..Len(dispatcher) + Len(ready)
      /\ x = IF i <= Len(dispatcher) THEN dispatcher[i].data ELSE Q!Held(ready[i - Len(dispatcher)])
  BY <1>2 DEF Q!Unheard
<1>4. CASE i <= Len(dispatcher)
  <2>1. i \in DOMAIN dispatcher /\ dispatcher[i].data = x
    BY <1>1, <1>3, <1>4
  <2> QED
    BY <1>1, <2>1 DEF Carries
<1>5. CASE ~(i <= Len(dispatcher))
  <2>1. \E h : Q!Held(h) = x
    BY <1>3, <1>5
  <2> QED
    BY <2>1, SameState DEF Q!Held
<1> QED
  BY <1>4, <1>5

\* The session the engine runs is run by the server, or its start or its end is
\* under way (Addon::apply, Io::send, writeLoop, readLoop, handleCommitText and
\* the handlers that end a session).
THEOREM SessionIsRun == Spec => []SessionIsServed
<1>1. PartsInv /\ LinkInv /\ SyncInv => SessionIsServed
  <2> SUFFICES ASSUME PartsInv, LinkInv, SyncInv, session # None,
                      served # session.id, ~EndIsComing, ~refused
               PROVE  \/ \E i \in DOMAIN effects : effects[i] = E!StartSession(session.id)
                      \/ \E i \in DOMAIN commands : commands[i] = T!Send(E!StartSession(session.id))
                      \/ \E i \in DOMAIN outgoingFrames : outgoingFrames[i] = E!StartSession(session.id)
                      \/ \E i \in DOMAIN dispatcher :
                           dispatcher[i].type = "Inbound" /\ dispatcher[i].data = S!Ended(session.id)
                      \/ \E c \in T!Reader : co[c].data = S!Ended(session.id)
    BY DEF SessionIsServed, InQueue
  <2>1. session.id \in SessionId /\ E!StartSession(session.id) \in Frame
    BY SessionFacts, MessagesDiffer DEF PartsInv
  <2>2. S!Ended(session.id) # None
    BY <2>1, NoneAssumption DEF Inbound
  <2> QED
    BY <2>1, <2>2, UnsentIs, UnheardIs DEF SyncInv, AnsweredInv
<1> QED
  BY <1>1, PartsInvariant, SyncInvariant, PTL

\* Of the fragments of the engine's session none is lost, repeated or overtaken on
\* the way (readLoop, publishEvent, the dispatcher): the engine interrupts no
\* session of this server for its sequence numbers (handleCommitText).
THEOREM FragmentsOrdered == Spec => []FragmentsInOrder
<1>1. PartsInv /\ SyncInv => FragmentsInOrder
  <2> SUFFICES ASSUME PartsInv, SyncInv, session # None PROVE FragmentsInOrder
    BY DEF FragmentsInOrder
  <2> DEFINE id == session.id  k == session.nextSequenceNo  U == T!Unheard
             F(n) == S!Fragment(id, n)
             mine == {F(n) : n \in 1..MaxSequence}
             underway == {i \in DOMAIN U : U[i] \in mine}
  <2>1. InOrder(U, id)
    BY SameState DEF SyncInv, DialogueInv, Speaks
  <2>2. PICK next \in 1..MaxSequence + 1 :
          k \in 1..next /\ AreFrom(U, id, k, next) /\ (served = id => sequenceNo = next)
    BY SameState DEF SyncInv, DialogueInv, Speaks
  <2>3. \A n, j : F(n) = F(j) => n = j
    BY MessagesDiffer
  <2>4. \A n : F(n).fragment = n
    BY MessagesDiffer
  <2>5. \A n \in Numbers : Q!Once(U, F(n))
    BY <2>1 DEF InOrder
  <2>6. \A n, j \in Numbers : n < j => Q!Before(U, F(n), F(j))
    BY <2>1 DEF InOrder
  <2>7. \A n \in Numbers : F(n) \in Q!Range(U) <=> k <= n /\ n < next
    BY <2>2 DEF AreFrom
  <2>8. \A i \in underway : \E n \in Numbers : U[i] = F(n) /\ U[i].fragment = n
    BY <2>4 DEF Numbers
  <2> HIDE DEF F
  <2>9. ASSUME NEW i \in underway, NEW j \in underway, i < j PROVE U[i].fragment < U[j].fragment
    <3>1. PICK a \in Numbers : U[i] = F(a) /\ U[i].fragment = a
      BY <2>8
    <3>2. PICK b \in Numbers : U[j] = F(b) /\ U[j].fragment = b
      BY <2>8
    <3>3. i \in DOMAIN U /\ j \in DOMAIN U /\ DOMAIN U \subseteq Nat
      <4>1. Len(dispatcher) + Len(ready) \in Nat
        BY DEF PartsInv, Q!IInv, Q!TypeOK
      <4> QED
        BY <4>1 DEF T!Unheard
    <3>4. a # b
      BY <2>5, <2>9, <3>1, <3>2, <3>3 DEF Q!Once
    <3>5. ~(b < a)
      BY <2>6, <2>9, <3>1, <3>2, <3>3 DEF Q!Before
    <3>6. a < b
      BY <3>4, <3>5, BoundsAssumption DEF Numbers
    <3> QED
      BY <3>1, <3>2, <3>6
  <2>10. {U[i].fragment : i \in underway} = k..next - 1
    <3>1. ASSUME NEW i \in underway PROVE U[i].fragment \in k..next - 1
      <4>1. PICK n \in Numbers : U[i] = F(n) /\ U[i].fragment = n
        BY <2>8
      <4>2. F(n) \in Q!Range(U)
        BY <4>1 DEF Q!Range
      <4> QED
        BY <2>2, <2>7, <4>1, <4>2, BoundsAssumption DEF Numbers
    <3>2. ASSUME NEW n \in k..next - 1 PROVE \E i \in underway : U[i].fragment = n
      <4>1. n \in Numbers /\ k <= n /\ n < next
        BY <2>2, <3>2, BoundsAssumption DEF Numbers
      <4>2. PICK i \in DOMAIN U : U[i] = F(n)
        BY <2>7, <4>1 DEF Q!Range
      <4>3. i \in underway
        BY <4>1, <4>2 DEF Numbers
      <4> QED
        BY <2>4, <4>2, <4>3 DEF F
    <3> QED
      BY <3>1, <3>2
  <2>11. k <= next
    BY <2>2
  <2> QED
    BY <2>2, <2>9, <2>10, <2>11 DEF FragmentsInOrder, F
<1> QED
  BY <1>1, PartsInvariant, SyncInvariant, PTL
=============================================================================
