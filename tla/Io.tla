--------------------------------- MODULE Io ---------------------------------
(***************************************************************************)
(* The transport of src/addon/io.cpp.  The fcitx thread queues commands on *)
(* a bounded channel and runs the callbacks Io hands to the dispatcher; a  *)
(* worker thread runs four kinds of coroutines on one io_context.          *)
(*                                                                         *)
(* The io_context is a FIFO of handlers (ready).  A coroutine suspended in *)
(* an asynchronous operation is in `co` with result "pending"; when the    *)
(* operation is over its handler enters the FIFO, and the coroutine        *)
(* resumes when the handler has come to the front.  So a coroutine may     *)
(* resume, with success, after another one has closed the connection it    *)
(* belongs to, and even after a new one was opened.                        *)
(*                                                                         *)
(* Operations under asio::cancel_after take one round more: the handler of *)
(* the operation cancels the timer, and the coroutine resumes from the     *)
(* handler of the timer.                                                   *)
(*                                                                         *)
(* Left out: isStopping (stop and the destructor).  Events, commands and   *)
(* operations carry the generation they belong to where the properties     *)
(* need it; the code's events do not.                                      *)
(*                                                                         *)
(* A definition with a mistake in it precedes some of the definitions, for *)
(* the properties to be tried on: TimedButHeader, AnyConnection,           *)
(* ReportOnlyFailure, RunOnce, FreeUnlessConnected, SendOnlyQueued,        *)
(* HandshakeGivesUp, ReaderStops, FrameOvertakes.                          *)
(***************************************************************************)
EXTENDS Naturals, Sequences, FiniteSets, Functions

CONSTANTS
  Frame,          \* encoded envelopes the engine may send
  Inbound,        \* envelopes readLoop publishes: CommitText, VadTimeout, Error
  None,
  Capacity,       \* of the command channel, 128 in the code
  MaxGeneration,  \* bound: connections begun
  MaxConnects,    \* bound: connections begun and connect commands queued
  MaxWriters,     \* bound: write loops alive at a time
  MaxOutgoing,    \* bound: frames waiting to be written, unlimited in the code
  MaxPublished    \* bound: inbound messages waiting for the dispatcher

ASSUME CapacityAssumption == Capacity \in Nat \ {0}
ASSUME BoundsAssumption == {MaxGeneration, MaxConnects, MaxWriters, MaxOutgoing, MaxPublished} \subseteq Nat \ {0}
ASSUME FrameAssumption == None \notin Frame /\ None \notin Inbound

VARIABLES
  commands,           \* the command run() was handed, if any, and those behind it in the channel
  ready,              \* the io_context's queue of handlers
  co,                 \* what every coroutine is suspended in
  connected, connectionActive, writerRunning,
  outgoingFrames,
  generationCounter, activeGeneration,
  currentConfig,      \* the generation whose config it holds, or None
  clientNonce,        \* the generation whose nonce it holds, or None
  socket,             \* the generation it was opened for, 0 when closed
  dispatcher,         \* callbacks scheduled on the fcitx thread, oldest first
  corrupt             \* the worker has run into undefined behaviour

ioVars == <<commands, ready, co, connected, connectionActive, writerRunning, outgoingFrames,
            generationCounter, activeGeneration, currentConfig, clientNonce, socket,
            dispatcher, corrupt>>
stateVars == <<connected, connectionActive, writerRunning, outgoingFrames, generationCounter,
               activeGeneration, currentConfig, clientNonce, socket, dispatcher>>

Generation == 1..MaxGeneration
Connection == {"connection"} \X Generation   \* runConnection, authenticate included
Reader     == {"reader"} \X Generation       \* readLoop
Writer     == {"writer"} \X (1..MaxWriters)  \* writeLoop
Coroutine  == Connection \cup Reader \cup Writer
Run        == <<"run", 0>>                   \* run, with a command in hand

Connect    == [type |-> "Connect"]
Disconnect == [type |-> "Disconnect"]
Send(f)    == [type |-> "Send", frame |-> f]
Command    == {Connect, Disconnect} \cup {Send(f) : f \in Frame}

\* An operation: the step of its coroutine it belongs to, the coroutine's
\* generation, the socket it was started on, how it ended, and the frame it
\* moves (the one written, or the one a finished read delivers).
Op(at, generation, on, result, data) ==
  [at |-> at, generation |-> generation, on |-> on, result |-> result,
   data |-> data, timerDone |-> FALSE]
Idle == Op("idle", 0, 0, "none", None)

TimedButHeader(at) == at \in {"connect", "hello payload"}
Timed(at) == at \in {"connect", "hello header", "hello payload"}
Results(at) == IF at = "length" THEN {"ok", "eof", "error"} ELSE {"ok", "error"}

Event(type, generation, data) == [type |-> type, generation |-> generation, data |-> data]

-----------------------------------------------------------------------------
Init ==
  /\ commands = <<>>
  /\ ready = <<>>
  /\ co = [c \in Coroutine |-> Idle]
  /\ connected = FALSE /\ connectionActive = FALSE /\ writerRunning = FALSE
  /\ outgoingFrames = <<>>
  /\ generationCounter = 0 /\ activeGeneration = 0
  /\ currentConfig = None /\ clientNonce = None
  /\ socket = 0
  /\ dispatcher = <<>>
  /\ corrupt = FALSE

-----------------------------------------------------------------------------
(***************************************************************************)
(* The fcitx thread.                                                       *)
(***************************************************************************)
ChannelFull == Len(commands) > Capacity

\* try_send: a waiting receiver gets the command at once, else it is buffered.
TrySend(command) ==
  /\ ~ChannelFull
  /\ commands' = Append(commands, command)
  /\ ready' = IF commands = <<>> THEN Append(ready, Run) ELSE ready
  /\ UNCHANGED <<co, stateVars, corrupt>>

\* Bound: MaxConnects.
MayConnect ==
  generationCounter + Cardinality({i \in DOMAIN commands : commands[i] = Connect}) < MaxConnects

RequestConnect == MayConnect /\ TrySend(Connect)
RequestDisconnect == TrySend(Disconnect)
RequestSend(f) == connected /\ Len(outgoingFrames) + Len(commands) < MaxOutgoing /\ TrySend(Send(f))

\* The dispatcher runs the oldest callback.
Deliver ==
  /\ dispatcher # <<>>
  /\ dispatcher' = Tail(dispatcher)
  /\ UNCHANGED <<commands, ready, co, connected, connectionActive, writerRunning, outgoingFrames,
                 generationCounter, activeGeneration, currentConfig, clientNonce, socket, corrupt>>

-----------------------------------------------------------------------------
(***************************************************************************)
(* The kernel and the peer: operations complete.                           *)
(***************************************************************************)
\* Operation of c is over: its handler queues up.
Completes(c, result, data) ==
  /\ co[c].result = "pending"
  /\ result \in Results(co[c].at)
  /\ co' = [co EXCEPT ![c].result = result,
                      ![c].data = IF c \in Reader THEN data ELSE @]
  /\ ready' = Append(ready, c)
  /\ UNCHANGED <<commands, stateVars, corrupt>>

\* An inbound frame is there, and valid.  Bound: MaxPublished.
FrameArrives(c, m) ==
  /\ c \in Reader /\ co[c].at = "frame"
  /\ Len(dispatcher) < MaxPublished
  /\ Completes(c, "ok", m)

\* Everything else an operation can come to: connected, written, a length or
\* a handshake frame read, end of file, an error, an invalid frame.
OperationEnds(c, result) ==
  /\ ~(co[c].at = "frame" /\ result = "ok")
  /\ Completes(c, result, None)

\* The timer of cancel_after.
TimesOut(c) == Timed(co[c].at) /\ Completes(c, "error", None)

-----------------------------------------------------------------------------
(***************************************************************************)
(* Parts of the worker's steps.  A step runs the handler at the front.     *)
(***************************************************************************)

\* c has returned.
Finished(c) == [co EXCEPT ![c] = Idle]

\* c suspends in a new operation on the socket as it is now; on a closed one
\* the operation fails at once.
Await(c, at, generation, data) ==
  LET result == IF socket = 0 THEN "error" ELSE "pending"
  IN /\ co' = [co EXCEPT ![c] = Op(at, generation, socket, result, data)]
     /\ ready' = Tail(ready) \o IF socket = 0 THEN <<c>> ELSE <<>>

AnyConnection(running) == TRUE
HadConnection(running) == connectionActive \/ connected \/ socket # 0 \/ running

\* Every queue with those of A, in any order, before those of B, in any order.
Orders(S) == Bijection(1..Cardinality(S), S)
InTurn(A, B) == {first \o second : first \in Orders(A), second \in Orders(B)}

\* The handlers of the operations closing the socket aborts: reads before writes,
\* several of a kind (of a stale coroutine) in any order.
Pending == {c \in Coroutine : co[c].result = "pending"}
Reading == {c \in Pending : co[c].at \in {"hello header", "hello payload", "length", "frame"}}
Aborted(running) ==
  IF HadConnection(running) THEN InTurn(Reading, Pending \ Reading) ELSE {<<>>}

\* What closeConnection publishes.
ReportOnlyFailure(reportFailure) ==
  IF reportFailure THEN <<Event("Failed", activeGeneration, None)>> ELSE <<>>

Report(reportFailure) ==
  IF reportFailure THEN <<Event("Failed", activeGeneration, None)>>
  ELSE IF connected THEN <<Event("Closed", activeGeneration, None)>>
  ELSE <<>>

\* closeConnection, called with writerRunning = running by a coroutine that has
\* left the coroutines as in cs.
CloseConnection(reportFailure, running, cs) ==
  IF HadConnection(running)
  THEN /\ connected' = FALSE
       /\ connectionActive' = FALSE
       /\ writerRunning' = FALSE
       /\ activeGeneration' = activeGeneration + 1
       /\ outgoingFrames' = <<>>
       /\ currentConfig' = None
       /\ clientNonce' = None
       /\ socket' = 0
       /\ co' = [c \in Coroutine |->
                   IF cs[c].result = "pending" THEN [cs[c] EXCEPT !.result = "error"] ELSE cs[c]]
       /\ dispatcher' = dispatcher \o Report(reportFailure)
       /\ UNCHANGED generationCounter
  ELSE /\ co' = cs
       /\ writerRunning' = running
       /\ UNCHANGED <<connected, connectionActive, outgoingFrames, generationCounter,
                      activeGeneration, currentConfig, clientNonce, socket, dispatcher>>

\* c closes the connection and returns.
Closes(c, reportFailure) ==
  /\ CloseConnection(reportFailure, writerRunning /\ c \notin Writer, Finished(c))
  /\ \E aborted \in Aborted(writerRunning /\ c \notin Writer) :
       ready' = Tail(ready) \o aborted
  /\ UNCHANGED <<commands, corrupt>>

\* Undefined behaviour: nothing the worker does afterwards can be relied on.
Corrupts ==
  /\ corrupt' = TRUE
  /\ UNCHANGED <<commands, ready, co, stateVars>>

-----------------------------------------------------------------------------
(***************************************************************************)
(* run and handleCommand.  What a command starts may complete before run   *)
(* asks for the next command, hence the choice of its result.              *)
(***************************************************************************)
RunOnce == <<>>
RunAgain == IF Len(commands) > 1 THEN <<Run>> ELSE <<>>

TakesCommand(type) ==
  /\ ~corrupt
  /\ ready # <<>> /\ Head(ready) = Run
  /\ Head(commands).type = type
  /\ commands' = Tail(commands)

FreeUnlessConnected == ~connected
Free == ~connectionActive

ConnectIgnored ==
  /\ TakesCommand("Connect")
  /\ ~Free
  /\ ready' = Tail(ready) \o RunAgain
  /\ UNCHANGED <<co, stateVars, corrupt>>

\* co_spawn runs runConnection up to its first wait.  Bound: MaxGeneration.
ConnectStarts(result) ==
  LET g == generationCounter + 1
      c == <<"connection", g>>
  IN /\ TakesCommand("Connect")
     /\ Free
     /\ g <= MaxGeneration
     /\ connectionActive' = TRUE
     /\ generationCounter' = g
     /\ activeGeneration' = g
     /\ currentConfig' = g
     /\ socket' = g
     /\ co' = [co EXCEPT ![c] = Op("connect", g, g, result, None)]
     /\ ready' = Tail(ready) \o ((IF result = "pending" THEN <<>> ELSE <<c>>) \o RunAgain)
     /\ UNCHANGED <<connected, writerRunning, outgoingFrames, clientNonce, dispatcher, corrupt>>

\* The endpoint cannot hold the configured path: runConnection throws, catches
\* and closes before it ever waits.
ConnectThrows ==
  /\ TakesCommand("Connect")
  /\ Free
  /\ generationCounter < MaxGeneration
  /\ generationCounter' = generationCounter + 1
  /\ activeGeneration' = generationCounter' + 1
  /\ dispatcher' = Append(dispatcher, Event("Failed", generationCounter', None))
  /\ ready' = Tail(ready) \o RunAgain
  /\ UNCHANGED <<co, connected, connectionActive, writerRunning, outgoingFrames,
                 currentConfig, clientNonce, socket, corrupt>>

HandleDisconnect ==
  /\ TakesCommand("Disconnect")
  /\ CloseConnection(FALSE, writerRunning, co)
  /\ \E aborted \in Aborted(writerRunning) : ready' = Tail(ready) \o (aborted \o RunAgain)
  /\ UNCHANGED corrupt

SendDropped ==
  /\ TakesCommand("Send")
  /\ ~connected \/ socket = 0
  /\ ready' = Tail(ready) \o RunAgain
  /\ UNCHANGED <<co, stateVars, corrupt>>

SendOnlyQueued ==
  /\ TakesCommand("Send")
  /\ connected /\ socket # 0
  /\ outgoingFrames' = Append(outgoingFrames, Head(commands).frame)
  /\ ready' = Tail(ready) \o RunAgain
  /\ UNCHANGED <<co, connected, connectionActive, writerRunning, generationCounter,
                 activeGeneration, currentConfig, clientNonce, socket, dispatcher, corrupt>>

SendQueued ==
  /\ TakesCommand("Send")
  /\ connected /\ socket # 0
  /\ writerRunning
  /\ outgoingFrames' = Append(outgoingFrames, Head(commands).frame)
  /\ ready' = Tail(ready) \o RunAgain
  /\ UNCHANGED <<co, connected, connectionActive, writerRunning, generationCounter,
                 activeGeneration, currentConfig, clientNonce, socket, dispatcher, corrupt>>

\* co_spawn runs writeLoop up to its first wait.  Bound: MaxWriters.
SendStartsWriter(c, result) ==
  /\ TakesCommand("Send")
  /\ connected /\ socket # 0
  /\ ~writerRunning
  /\ c \in Writer /\ co[c] = Idle
  /\ \A d \in Writer : d[2] < c[2] => co[d] # Idle
  /\ outgoingFrames' = Append(outgoingFrames, Head(commands).frame)
  /\ writerRunning' = TRUE
  /\ co' = [co EXCEPT ![c] = Op("write", activeGeneration, socket, result, Head(outgoingFrames'))]
  /\ ready' = Tail(ready) \o ((IF result = "pending" THEN <<>> ELSE <<c>>) \o RunAgain)
  /\ UNCHANGED <<connected, connectionActive, generationCounter, activeGeneration,
                 currentConfig, clientNonce, socket, dispatcher, corrupt>>

HandleCommand ==
  \/ ConnectIgnored
  \/ \E result \in {"pending", "ok", "error"} : ConnectStarts(result)
  \/ ConnectThrows
  \/ HandleDisconnect
  \/ SendDropped
  \/ SendQueued
  \/ \E c \in Writer, result \in {"pending", "ok", "error"} : SendStartsWriter(c, result)

-----------------------------------------------------------------------------
(***************************************************************************)
(* The coroutines.  None of them looks at the generation between an        *)
(* operation and what it does next, except where the code does.            *)
(***************************************************************************)
AtFront(c) == ~corrupt /\ ready # <<>> /\ Head(ready) = c

Resumes(c, at, result) == AtFront(c) /\ co[c].at = at /\ co[c].result = result

\* cancel_after: the operation is over, its timer's handler is still to come.
\* (Both may have been over at once: then the coroutine resumes without it.)
CancelsTimer(c) ==
  /\ AtFront(c)
  /\ Timed(co[c].at) /\ ~co[c].timerDone
  /\ co' = [co EXCEPT ![c].timerDone = TRUE]
  /\ ready' = Append(Tail(ready), c)
  /\ UNCHANGED <<commands, stateVars, corrupt>>

\* c goes on to operation `at`.
GoesOn(c, at) ==
  /\ Await(c, at, co[c].generation, None)
  /\ UNCHANGED <<commands, connected, connectionActive, writerRunning, outgoingFrames,
                 generationCounter, activeGeneration, currentConfig, socket, dispatcher, corrupt>>

HandshakeFails(c) ==
  /\ \E at \in {"connect", "hello", "hello header", "hello payload"} : Resumes(c, at, "error")
  /\ Closes(c, TRUE)

HandshakeGivesUp(c) ==
  /\ Resumes(c, "connect", "ok")
  /\ co' = Finished(c) /\ ready' = Tail(ready)
  /\ UNCHANGED <<commands, stateVars, corrupt>>

\* No config, or no nonce from the generator.
HandshakeCannotStart(c) == Resumes(c, "connect", "ok") /\ Closes(c, TRUE)

HandshakeStarts(c) ==
  /\ Resumes(c, "connect", "ok")
  /\ currentConfig # None
  /\ clientNonce' = co[c].generation
  /\ GoesOn(c, "hello")

HelloWritten(c) ==
  Resumes(c, "hello", "ok") /\ GoesOn(c, "hello header") /\ UNCHANGED clientNonce

HelloHeaderRead(c) ==
  Resumes(c, "hello header", "ok") /\ GoesOn(c, "hello payload") /\ UNCHANGED clientNonce

\* Both reads take their timeout from currentConfig: dereferencing the empty
\* optional is undefined, reading what it held before (above) or worse.
TimeoutOfNoConfig(c) ==
  /\ Resumes(c, "hello", "ok") \/ Resumes(c, "hello header", "ok")
  /\ currentConfig = None
  /\ Corrupts

\* A ServerHello with the proof for the nonce c has sent; validateServerHello
\* compares it with the nonce that is stored now.
HandshakeEnds(c) ==
  LET g == co[c].generation
      r == <<"reader", g>>
  IN /\ Resumes(c, "hello payload", "ok")
     /\ IF currentConfig = None \/ clientNonce # g
        THEN Closes(c, TRUE)
        ELSE /\ UNCHANGED <<commands, connectionActive, writerRunning, outgoingFrames,
                            generationCounter, activeGeneration, currentConfig, socket, corrupt>>
             /\ ready' = Tail(ready)
             /\ IF g # activeGeneration \/ socket = 0
                THEN co' = Finished(c) /\ UNCHANGED <<connected, clientNonce, dispatcher>>
                ELSE /\ clientNonce' = None
                     /\ connected' = TRUE
                     /\ dispatcher' = Append(dispatcher, Event("Authenticated", g, None))
                     /\ co' = [Finished(c) EXCEPT ![r] = Op("length", g, socket, "pending", None)]

ReaderFails(c) ==
  /\ Resumes(c, "length", "error") \/ Resumes(c, "frame", "error")
  /\ Closes(c, TRUE)

ReaderStops(c) ==
  /\ Resumes(c, "length", "eof")
  /\ co' = Finished(c) /\ ready' = Tail(ready)
  /\ UNCHANGED <<commands, stateVars, corrupt>>

ReaderReachesEnd(c) == Resumes(c, "length", "eof") /\ Closes(c, FALSE)

LengthRead(c) == Resumes(c, "length", "ok") /\ GoesOn(c, "frame") /\ UNCHANGED clientNonce

\* publishCommitText, publishVadTimeout or publishError, and round the loop.
FrameOvertakes(c) ==
  /\ Resumes(c, "frame", "ok")
  /\ dispatcher' = <<Event("Inbound", co[c].generation, co[c].data)>> \o dispatcher
  /\ IF co[c].generation = activeGeneration /\ socket # 0
     THEN Await(c, "length", co[c].generation, None)
     ELSE co' = Finished(c) /\ ready' = Tail(ready)
  /\ UNCHANGED <<commands, connected, connectionActive, writerRunning, outgoingFrames,
                 generationCounter, activeGeneration, currentConfig, clientNonce, socket, corrupt>>

FrameRead(c) ==
  /\ Resumes(c, "frame", "ok")
  /\ dispatcher' = Append(dispatcher, Event("Inbound", co[c].generation, co[c].data))
  /\ IF co[c].generation = activeGeneration /\ socket # 0
     THEN Await(c, "length", co[c].generation, None)
     ELSE co' = Finished(c) /\ ready' = Tail(ready)
  /\ UNCHANGED <<commands, connected, connectionActive, writerRunning, outgoingFrames,
                 generationCounter, activeGeneration, currentConfig, clientNonce, socket, corrupt>>

WriterFails(c) == Resumes(c, "write", "error") /\ Closes(c, TRUE)

\* pop_front takes whatever is at the front now, and round the loop.
FrameWritten(c) ==
  /\ Resumes(c, "write", "ok")
  /\ outgoingFrames # <<>>
  /\ outgoingFrames' = Tail(outgoingFrames)
  /\ IF co[c].generation = activeGeneration /\ socket # 0 /\ outgoingFrames' # <<>>
     THEN /\ Await(c, "write", co[c].generation, Head(outgoingFrames'))
          /\ UNCHANGED writerRunning
     ELSE /\ co' = Finished(c) /\ ready' = Tail(ready)
          /\ writerRunning' = FALSE
  /\ UNCHANGED <<commands, connected, connectionActive, generationCounter, activeGeneration,
                 currentConfig, clientNonce, socket, dispatcher, corrupt>>

\* pop_front of an empty deque.
PopsNothing(c) ==
  /\ Resumes(c, "write", "ok")
  /\ outgoingFrames = <<>>
  /\ Corrupts

CoroutineStep(c) ==
  \/ CancelsTimer(c)
  \/ HandshakeFails(c) \/ HandshakeCannotStart(c) \/ HandshakeStarts(c)
  \/ HelloWritten(c) \/ HelloHeaderRead(c) \/ TimeoutOfNoConfig(c) \/ HandshakeEnds(c)
  \/ ReaderFails(c) \/ ReaderReachesEnd(c) \/ LengthRead(c) \/ FrameRead(c)
  \/ WriterFails(c) \/ FrameWritten(c) \/ PopsNothing(c)

WorkerStep == HandleCommand \/ \E c \in Coroutine : AtFront(c) /\ CoroutineStep(c)

-----------------------------------------------------------------------------
\* The addon, reduced to the calls it can make.
CallerStep ==
  \/ RequestConnect
  \/ RequestDisconnect
  \/ \E f \in Frame : RequestSend(f)
  \/ Deliver

PeerStep ==
  \E c \in Coroutine :
    \/ \E m \in Inbound : FrameArrives(c, m)
    \/ \E result \in {"ok", "eof", "error"} : OperationEnds(c, result)
    \/ TimesOut(c)

Next == CallerStep \/ PeerStep \/ WorkerStep

Spec == Init /\ [][Next]_ioVars

\* The worker thread runs, timers expire, and the few bytes of a ClientHello
\* fit the empty send buffer of a fresh socket.  The peer owes nothing.
Fairness ==
  /\ WF_ioVars(WorkerStep)
  /\ \A c \in Connection :
       /\ WF_ioVars(TimesOut(c))
       /\ WF_ioVars(co[c].at = "hello" /\ OperationEnds(c, "ok"))

FairSpec == Spec /\ Fairness

-----------------------------------------------------------------------------
(***************************************************************************)
(* Properties                                                              *)
(***************************************************************************)
OpType ==
  [at : {"idle", "connect", "hello", "hello header", "hello payload", "length", "frame", "write"},
   generation : 0..(MaxGeneration + 1), on : 0..MaxGeneration,
   result : {"none", "pending", "ok", "eof", "error"},
   data : Frame \cup Inbound \cup {None}, timerDone : BOOLEAN]
EventType ==
  [type : {"Authenticated", "Closed", "Failed", "Inbound"},
   generation : Generation, data : Inbound \cup {None}]

TypeOK ==
  /\ commands \in Seq(Command) /\ Len(commands) <= Capacity + 1
  /\ ready \in Seq(Coroutine \cup {Run})
  /\ co \in [Coroutine -> OpType]
  /\ {connected, connectionActive, writerRunning, corrupt} \subseteq BOOLEAN
  /\ outgoingFrames \in Seq(Frame)
  /\ generationCounter \in 0..MaxGeneration
  /\ activeGeneration \in {generationCounter, generationCounter + 1}
  /\ {currentConfig, clientNonce} \subseteq Generation \cup {None}
  /\ socket \in 0..MaxGeneration
  /\ dispatcher \in Seq(EventType)

\* The envelopes on their way to the fcitx thread, oldest first: those published,
\* then those whose read loop has still to publish them.
Held(h) == IF h \in Reader THEN co[h].data ELSE None
Unheard == [i \in 1..Len(dispatcher) + Len(ready) |->
              IF i <= Len(dispatcher) THEN dispatcher[i].data ELSE Held(ready[i - Len(dispatcher)])]

\* A connection reported as usable is usable: its socket is open, of the newest
\* generation, and its own read loop is on it, so that the peer's messages and
\* its hanging up will be noticed (runConnection, closeConnection).
ConnectedIsRead ==
  connected =>
    /\ connectionActive
    /\ socket = activeGeneration /\ activeGeneration = generationCounter
    /\ co[<<"reader", socket>>].on = socket

\* A connection attempt is never left without the coroutine that will report
\* how it ended: while connectionActive is set, Connect commands are ignored,
\* so an abandoned attempt would block the transport for good (handleCommand).
AttemptIsDriven ==
  connectionActive /\ ~connected =>
    \E c \in Connection : co[c] # Idle /\ co[c].generation = generationCounter

\* No operation is ever in flight on a closed or a replaced socket
\* (closeConnection cancels before it closes).
PendingOnSocket ==
  \A c \in Coroutine : co[c].result = "pending" => socket # 0 /\ co[c].on = socket

\* The one write loop alive is writing the oldest queued frame of this
\* connection: no frame waits with nobody to write it, none is skipped or
\* written twice, and two loops never mix their frames (writeLoop).
FramesHaveWriter ==
  ~corrupt =>
    /\ Cardinality({c \in Writer : co[c] # Idle}) <= 1
    /\ outgoingFrames # <<>> =>
         /\ writerRunning
         /\ \E c \in Writer :
              /\ co[c].generation = activeGeneration
              /\ co[c].data = Head(outgoingFrames)

\* Every handler in the queue runs for someone: a suspended coroutine whose
\* operation is over, or run with a command, each once.  A lost handler would
\* leave its coroutine, and with it the connection, suspended for ever.
HandlersMatch ==
  /\ \A c \in Coroutine :
       Cardinality({i \in DOMAIN ready : ready[i] = c})
         = IF co[c].result \in {"ok", "eof", "error"} THEN 1 ELSE 0
  /\ ~corrupt => Cardinality({i \in DOMAIN ready : ready[i] = Run}) = IF commands = <<>> THEN 0 ELSE 1

\* One more event for the fcitx thread, of one of these types.
Tells(types) ==
  /\ Len(dispatcher') = Len(dispatcher) + 1
  /\ dispatcher'[Len(dispatcher')].type \in types

\* The fcitx thread is told of every change it has to know, once and as it
\* happens: that a connection became usable, that a usable one ended, and that
\* the coroutine of an attempt gave it up (publishAuthenticated, closeConnection).
\* An attempt ended by a coroutine of an older connection may end in silence.
ChangesAreTold ==
  [][/\ ~connected /\ connected' => Tells({"Authenticated"})
     /\ connected /\ ~connected' => Tells({"Closed", "Failed"})
     /\ connectionActive /\ ~connectionActive' =>
          \/ Head(ready) = Run \/ co[Head(ready)].generation # generationCounter
          \/ Tells({"Closed", "Failed"})]_ioVars

\* With its timers an attempt always comes to an end, whatever the peer does:
\* authenticated, failed or abandoned (cancel_after in runConnection and authenticate).
AttemptsEnd == connectionActive /\ ~connected ~> connected \/ ~connectionActive \/ corrupt

\* The command channel does not stay full: whatever the connection is doing,
\* run goes back to it, so a call of Io that fails for want of room can succeed
\* later (run, handleCommand).
QueueDrains == ChannelFull ~> ~ChannelFull \/ corrupt
=============================================================================
