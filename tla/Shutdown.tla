------------------------------ MODULE Shutdown ------------------------------
(***************************************************************************)
(* The destruction of Io, at the grain at which the two threads may get in *)
(* each other's way: ~Io on the fcitx thread calls SharedState::stop and   *)
(* joins the worker, whose handlers go on calling functions of the socket  *)
(* until the io_context is stopped.  A call on the socket takes time, from *)
(* entering the function to leaving it.                                    *)
(*                                                                         *)
(* Of the connection only its phase is kept, which says what handlers can  *)
(* run; Io has the rest.                                                   *)
(***************************************************************************)
EXTENDS Naturals, Sequences

VARIABLES
  stopAt,     \* ~Io: what the fcitx thread does next, "alive" before it
  stopping,   \* the flag behind stoppingMutex
  ioStopped,  \* ioContext.stop() has been called
  phase,      \* the connection on the worker thread
  calls,      \* the rest of the worker's running handler: its calls on the socket
  inSocket,   \* the threads that are inside a function of the socket
  joinable    \* the worker thread has not ended

stopVars   == <<stopAt, stopping, ioStopped>>
workerVars == <<phase, calls, joinable>>
vars       == <<stopVars, workerVars, inSocket>>

Init ==
  /\ stopAt = "alive"
  /\ stopping = FALSE
  /\ ioStopped = FALSE
  /\ phase = "closed"
  /\ calls = <<>>
  /\ inSocket = {}
  /\ joinable = TRUE

-----------------------------------------------------------------------------
(***************************************************************************)
(* The worker thread: ioContext.run().                                     *)
(***************************************************************************)

\* A handler begins; its steps between two calls are not told apart.
Handles(from, to, socketCalls) ==
  /\ joinable /\ ~ioStopped
  /\ calls = <<>>
  /\ phase \in from
  /\ phase' = to
  /\ calls' = socketCalls
  /\ UNCHANGED <<stopVars, inSocket, joinable>>

\* A Connect is refused when stopping; the coroutine it has spawned is not.
TakesConnect == ~stopping /\ Handles({"closed"}, "spawned", <<>>)

RunsConnection == Handles({"spawned"}, "connecting", <<"assign", "async_connect">>)

Authenticates == Handles({"connecting", "handshake"}, "handshake", <<"async_write or async_read">>)

IsAuthenticated == Handles({"handshake"}, "ready", <<>>)

\* readLoop and writeLoop look at the flag before each turn.
Loops == ~stopping /\ Handles({"ready"}, "ready", <<"is_open", "async_read or async_write">>)

\* closeConnection, for a Disconnect or an operation that has failed, those that
\* stop has cancelled among them.
Closes == Handles({"spawned", "connecting", "handshake", "ready"}, "closed", <<"cancel", "close">>)

\* closeConnection when there is nothing to close.
ClosesNothing == Handles({"closed"}, "closed", <<"is_open">>)

EntersSocket ==
  /\ calls # <<>>
  /\ "worker" \notin inSocket
  /\ inSocket' = inSocket \cup {"worker"}
  /\ UNCHANGED <<stopVars, workerVars>>

LeavesSocket ==
  /\ "worker" \in inSocket
  /\ inSocket' = inSocket \ {"worker"}
  /\ calls' = Tail(calls)
  /\ UNCHANGED <<stopVars, phase, joinable>>

\* run() returns after the handler during which the io_context is stopped; the
\* work guard keeps it from returning before.
RunReturns ==
  /\ joinable /\ ioStopped
  /\ calls = <<>>
  /\ joinable' = FALSE
  /\ UNCHANGED <<stopVars, phase, calls, inSocket>>

Worker ==
  \/ TakesConnect \/ RunsConnection \/ Authenticates \/ IsAuthenticated \/ Loops
  \/ Closes \/ ClosesNothing
  \/ EntersSocket \/ LeavesSocket
  \/ RunReturns

-----------------------------------------------------------------------------
(***************************************************************************)
(* The fcitx thread: ~Io and stop.                                         *)
(***************************************************************************)
SetStopping ==
  /\ stopAt = "alive"
  /\ stopping' = TRUE
  /\ stopAt' = "close commands"
  /\ UNCHANGED <<ioStopped, workerVars, inSocket>>

\* The receive that is pending ends with an error and run with it, for it finds
\* the flag set.
CloseCommands ==
  /\ stopAt = "close commands"
  /\ stopAt' = "cancel socket"
  /\ UNCHANGED <<stopping, ioStopped, workerVars, inSocket>>

StopEntersSocket ==
  /\ stopAt \in {"cancel socket", "close socket"}
  /\ "fcitx" \notin inSocket
  /\ inSocket' = inSocket \cup {"fcitx"}
  /\ UNCHANGED <<stopVars, workerVars>>

StopLeavesSocket ==
  /\ "fcitx" \in inSocket
  /\ inSocket' = inSocket \ {"fcitx"}
  /\ stopAt' = IF stopAt = "cancel socket" THEN "close socket" ELSE "stop ioContext"
  /\ UNCHANGED <<stopping, ioStopped, workerVars>>

StopIoContext ==
  /\ stopAt = "stop ioContext"
  /\ ioStopped' = TRUE
  /\ stopAt' = "join"
  /\ UNCHANGED <<stopping, workerVars, inSocket>>

Join ==
  /\ stopAt = "join"
  /\ ~joinable
  /\ stopAt' = "gone"
  /\ UNCHANGED <<stopping, ioStopped, workerVars, inSocket>>

Destructor ==
  SetStopping \/ CloseCommands \/ StopEntersSocket \/ StopLeavesSocket \/ StopIoContext \/ Join

Next == Worker \/ Destructor

Spec == Init /\ [][Next]_vars

-----------------------------------------------------------------------------
\* The comment on run: all socket lifecycle changes happen on the transport
\* thread, the socket being safe for one thread at a time only.  Violated: stop
\* cancels and closes it on the fcitx thread while a handler of the worker
\* thread is inside one of its functions.
SocketHasOneThread == inSocket # {"fcitx", "worker"}
=============================================================================
