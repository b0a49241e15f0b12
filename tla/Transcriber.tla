----------------------------- MODULE Transcriber -----------------------------
(***************************************************************************)
(* One connection of the PoC server (tools/poc_transcriber.py): the task   *)
(* that handles the connection and the task of each session.               *)
(*                                                                         *)
(* asyncio runs one task at a time, up to its next wait, in the order they *)
(* were woken in (loop).  The handler goes on to its next message without  *)
(* waiting as long as there is one; a write waits (drain) only if more     *)
(* than HighWater messages are unread, or if the connection is lost.       *)
(* Cancelling a task takes effect when the task is next run.               *)
(*                                                                         *)
(* The client may send anything, and stop reading or leave at any time.    *)
(* `polite` tells whether it has started sessions only when it believed    *)
(* that none was running.                                                  *)
(*                                                                         *)
(* A definition with a mistake in it precedes some of the definitions, for *)
(* the properties to be tried on: CancelsNot, AwaitsNot, EndOfInputMissed, *)
(* EndKept, CountedFirst.                                                  *)
(***************************************************************************)
EXTENDS Naturals, Sequences, FiniteSets

CONSTANTS
  SessionId, None,
  Modes,          \* a subset of {"result", "ended"}; the latter for vad-timeout and error
  HighWater,      \* messages the client has not read before a write has to wait
  MaxSequence,    \* bound: fragments of a session
  MaxInbox        \* bound: messages on their way to the handler

ASSUME HighWaterAssumption == HighWater \in Nat \ {0}
ASSUME TranscriberBoundsAssumption == {MaxSequence, MaxInbox} \subseteq Nat \ {0}
ASSUME ModesAssumption == Modes \subseteq {"result", "ended"} /\ None \notin SessionId

VARIABLES
  mode,
  loop,         \* the tasks asyncio will run, in this order
  handler,      \* what handle() waits for
  session,      \* _session: the id, or None
  task,         \* the session tasks, with the sequence_no of their SessionState
  sent,         \* on the way to the server
  inbox,        \* received and not yet read by the handler
  wire,         \* written and not yet read by the client
  broken,       \* the server has noticed that the client is gone
  clientOpen, believed, polite,    \* the client: connected, the session it runs, its manners
  refused       \* a StartSession has come during a session

handlerVars == <<mode, handler, session>>
clientVars == <<sent, clientOpen, believed, polite>>
vars == <<handlerVars, loop, task, inbox, wire, broken, clientVars, refused>>

Handler == "handler"
Receive == "receive"   \* two callbacks that are no tasks: data_received
Lost    == "lost"      \* and connection_lost

ASSUME TasksAssumption == SessionId \cap {Handler, Receive, Lost} = {}

Hello(valid) == [type |-> "ClientHello", valid |-> valid]
Start(s)     == [type |-> "StartSession", session |-> s]
Interrupt(s) == [type |-> "InterruptSession", session |-> s]
Unexpected   == [type |-> "Unexpected"]     \* not decoded, misplaced or malformed
EndOfInput   == [type |-> "EndOfInput"]
Message == {Hello(valid) : valid \in BOOLEAN} \cup {Unexpected}
             \cup {Start(s) : s \in SessionId} \cup {Interrupt(s) : s \in SessionId}

ServerHello(accepted) == [type |-> "ServerHello", accepted |-> accepted]
Fragment(s, n) == [type |-> "CommitText", session |-> s, fragment |-> n]
Ended(s)       == [type |-> "Ended", session |-> s]

Scheduled(t) == \E i \in DOMAIN loop : loop[i] = t
Alive(s) == task[s].at \notin {"none", "done"}

Init ==
  /\ mode \in Modes
  /\ loop = <<>>
  /\ handler = "hello"
  /\ session = None
  /\ task = [s \in SessionId |-> [at |-> "none", cancelled |-> FALSE, sequenceNo |-> 1]]
  /\ sent = <<>> /\ inbox = <<>> /\ wire = <<>>
  /\ broken = FALSE
  /\ clientOpen = TRUE /\ believed = None /\ polite = TRUE
  /\ refused = FALSE

-----------------------------------------------------------------------------
(***************************************************************************)
(* The handler: TranscriberConnection.handle and what it calls.            *)
(***************************************************************************)
HandlerRuns == loop # <<>> /\ Head(loop) = Handler

\* The handler takes its next message.
Reads(m) ==
  /\ HandlerRuns
  /\ ~broken
  /\ inbox # <<>> /\ Head(inbox) = m
  /\ inbox' = Tail(inbox)

InSession == handler \in {"message", "running"}

\* Back to read_envelope, having woken the tasks in `woken`.
ReadsOn(woken) ==
  IF inbox' # <<>> \/ broken
  THEN handler' = "running" /\ loop' = loop \o woken
  ELSE handler' = "message" /\ loop' = Tail(loop) \o woken

\* _clear_session: the session is forgotten, then its task is cancelled and
\* waited for, if it still runs.
CancelsNot(afterwards) ==
  /\ session' = None
  /\ handler' = afterwards
  /\ loop' = Tail(loop)
  /\ UNCHANGED task

ClearsSession(afterwards) ==
  /\ session' = None
  /\ handler' = afterwards
  /\ task' = [task EXCEPT ![session].cancelled = TRUE]
  /\ loop' = Tail(loop) \o IF Scheduled(session) THEN <<>> ELSE <<session>>

\* The finally clause: the writer is closed once no session is left.
GivesUp ==
  IF session # None /\ Alive(session)
  THEN ClearsSession("leaving")
  ELSE /\ session' = None
       /\ handler' = "closing"
       /\ loop' = Tail(loop)
       /\ UNCHANGED task

ReadsHello ==
  /\ handler = "hello"
  /\ Reads(Hello(TRUE))
  /\ IF clientOpen
     THEN /\ wire' = Append(wire, ServerHello(TRUE))
          /\ ReadsOn(<<>>)
          /\ UNCHANGED <<broken, session, task>>
     ELSE broken' = TRUE /\ GivesUp /\ UNCHANGED wire
  /\ UNCHANGED <<mode, clientVars, refused>>

\* _reject, for another version or a nonce of the wrong size.
RejectsHello ==
  /\ handler = "hello"
  /\ Reads(Hello(FALSE))
  /\ wire' = IF clientOpen THEN Append(wire, ServerHello(FALSE)) ELSE wire
  /\ broken' = ~clientOpen
  /\ GivesUp
  /\ UNCHANGED <<mode, clientVars, refused>>

\* _handle_start: create_task schedules the task for the first time.
StartsSession(s) ==
  /\ InSession
  /\ Reads(Start(s))
  /\ session = None
  /\ session' = s
  /\ task' = [task EXCEPT ![s].at = "created"]
  /\ ReadsOn(<<s>>)
  /\ UNCHANGED <<mode, wire, broken, clientVars, refused>>

RefusesSession(s) ==
  /\ InSession
  /\ Reads(Start(s))
  /\ session # None
  /\ refused' = TRUE
  /\ GivesUp
  /\ UNCHANGED <<mode, wire, broken, clientVars>>

IgnoresInterrupt(s) ==
  /\ InSession
  /\ Reads(Interrupt(s))
  /\ session # s
  /\ ReadsOn(<<>>)
  /\ UNCHANGED <<mode, session, task, wire, broken, clientVars, refused>>

\* A task that is done already (its write has failed) is not waited for.
AwaitsNot(s) ==
  /\ InSession
  /\ Reads(Interrupt(s))
  /\ session = s
  /\ session' = None
  /\ task' = [task EXCEPT ![s].cancelled = TRUE]
  /\ ReadsOn(IF Scheduled(s) THEN <<>> ELSE <<s>>)
  /\ UNCHANGED <<mode, wire, broken, clientVars, refused>>

InterruptsSession(s) ==
  /\ InSession
  /\ Reads(Interrupt(s))
  /\ session = s
  /\ IF Alive(s) THEN ClearsSession("interrupting")
     ELSE session' = None /\ ReadsOn(<<>>) /\ UNCHANGED task
  /\ UNCHANGED <<mode, wire, broken, clientVars, refused>>

\* The awaited task is over.
InterruptOver ==
  /\ handler = "interrupting"
  /\ HandlerRuns
  /\ UNCHANGED inbox
  /\ ReadsOn(<<>>)
  /\ UNCHANGED <<mode, session, task, wire, broken, clientVars, refused>>

LeaveOver ==
  /\ handler = "leaving"
  /\ HandlerRuns
  /\ handler' = "closing"
  /\ loop' = Tail(loop)
  /\ UNCHANGED <<mode, session, task, inbox, wire, broken, clientVars, refused>>

ReadsUnexpected ==
  /\ \/ Reads(Unexpected)
     \/ handler = "hello" /\ \E s \in SessionId : Reads(Start(s)) \/ Reads(Interrupt(s))
     \/ InSession /\ \E valid \in BOOLEAN : Reads(Hello(valid))
  /\ handler = "hello" \/ InSession
  /\ GivesUp
  /\ UNCHANGED <<mode, wire, broken, clientVars, refused>>

EndOfInputMissed ==
  /\ handler = "hello" \/ InSession
  /\ Reads(EndOfInput)
  /\ ReadsOn(<<>>)
  /\ UNCHANGED <<mode, session, task, wire, broken, clientVars, refused>>

ReadsEndOfInput ==
  /\ handler = "hello" \/ InSession
  /\ Reads(EndOfInput)
  /\ GivesUp
  /\ UNCHANGED <<mode, wire, broken, clientVars, refused>>

\* The reader raises what the connection was lost with.
ReadsLost ==
  /\ handler = "hello" \/ InSession
  /\ HandlerRuns
  /\ broken
  /\ GivesUp
  /\ UNCHANGED <<mode, inbox, wire, broken, clientVars, refused>>

HandlerStep ==
  \/ ReadsHello \/ RejectsHello
  \/ \E s \in SessionId :
       StartsSession(s) \/ RefusesSession(s) \/ IgnoresInterrupt(s) \/ InterruptsSession(s)
  \/ InterruptOver \/ LeaveOver
  \/ ReadsUnexpected \/ ReadsEndOfInput \/ ReadsLost

\* wait_closed: what was written has been sent, or never will be.
Closes ==
  /\ handler = "closing"
  /\ broken \/ ~clientOpen \/ Len(wire) <= HighWater
  /\ handler' = "done"
  /\ UNCHANGED <<mode, session, loop, task, inbox, wire, broken, clientVars, refused>>

-----------------------------------------------------------------------------
(***************************************************************************)
(* The task of a session: _run_session.                                    *)
(***************************************************************************)
Runs(s, at) == loop # <<>> /\ Head(loop) = s /\ task[s].at = at /\ ~task[s].cancelled

Awaiting == handler \in {"interrupting", "leaving"}

\* Task s has returned or raised: a handler that awaits it is woken.
TaskDone(s) ==
  /\ task' = [task EXCEPT ![s].at = "done"]
  /\ loop' = Tail(loop) \o IF Awaiting THEN <<Handler>> ELSE <<>>

TaskCancelled(s) ==
  /\ loop # <<>> /\ Head(loop) = s
  /\ task[s].cancelled
  /\ TaskDone(s)
  /\ UNCHANGED <<handlerVars, inbox, wire, broken, clientVars, refused>>

TaskBegins(s) ==
  /\ Runs(s, "created")
  /\ task' = [task EXCEPT ![s].at = "sleeping"]
  /\ loop' = Tail(loop)
  /\ UNCHANGED <<handlerVars, inbox, wire, broken, clientVars, refused>>

\* After a write: round the loop, or _clear_session, which clears whatever session
\* is set.  None but s can be (OneTask), so there is no other task to wait for.
EndKept(s) ==
  IF mode = "result"
  THEN /\ task' = [task EXCEPT ![s].at = "sleeping", ![s].sequenceNo = @ + 1]
       /\ loop' = Tail(loop)
       /\ UNCHANGED session
  ELSE TaskDone(s) /\ UNCHANGED session

Written(s) ==
  IF mode = "result"
  THEN /\ task' = [task EXCEPT ![s].at = "sleeping", ![s].sequenceNo = @ + 1]
       /\ loop' = Tail(loop)
       /\ UNCHANGED session
  ELSE TaskDone(s) /\ session' = None

CountedFirst(s) ==
  IF mode = "result" THEN Fragment(s, task[s].sequenceNo + 1) ELSE Ended(s)

Words(s) == IF mode = "result" THEN Fragment(s, task[s].sequenceNo) ELSE Ended(s)

Writes(s) ==
  /\ wire' = Append(wire, Words(s))
  /\ IF Len(wire') <= HighWater THEN Written(s)
     ELSE /\ task' = [task EXCEPT ![s].at = "draining"]
          /\ loop' = Tail(loop)
          /\ UNCHANGED session

\* The client is gone: the write is void, and drain raises one round later.
WritesInVain(s) ==
  /\ task' = [task EXCEPT ![s].at = "lost"]
  /\ loop' = Tail(loop) \o (IF broken \/ Scheduled(Lost) THEN <<>> ELSE <<Lost>>) \o <<s>>
  /\ UNCHANGED <<wire, session>>

\* The session may not be this task's any more.
TaskWakes(s) ==
  /\ Runs(s, "woken")
  /\ IF session # s THEN TaskDone(s) /\ UNCHANGED <<wire, session>>
     ELSE IF clientOpen THEN Writes(s)
     ELSE WritesInVain(s)
  /\ UNCHANGED <<mode, handler, inbox, broken, clientVars, refused>>

TaskDrained(s) ==
  /\ Runs(s, "drained")
  /\ Written(s)
  /\ UNCHANGED <<mode, handler, inbox, wire, broken, clientVars, refused>>

TaskFails(s) ==
  /\ Runs(s, "lost")
  /\ TaskDone(s)
  /\ UNCHANGED <<handlerVars, inbox, wire, broken, clientVars, refused>>

TaskStep(s) ==
  \/ TaskCancelled(s)
  \/ TaskBegins(s) \/ TaskWakes(s) \/ TaskDrained(s) \/ TaskFails(s)

HandlerWoken ==
  IF handler \in {"hello", "message"} /\ ~Scheduled(Handler) THEN <<Handler>> ELSE <<>>

ReceivesData ==
  /\ loop # <<>> /\ Head(loop) = Receive
  /\ inbox' = Append(inbox, Head(sent))
  /\ sent' = Tail(sent)
  /\ loop' = Tail(loop) \o HandlerWoken
  /\ UNCHANGED <<handlerVars, task, wire, broken, clientOpen, believed, polite, refused>>

Waiting(s) == task[s].at = "draining" /\ ~task[s].cancelled

\* connection_lost: a waiting read and a waiting write raise.
LosesConnection ==
  LET failed == {s \in SessionId : Waiting(s)}
  IN /\ loop # <<>> /\ Head(loop) = Lost
     /\ broken' = TRUE
     /\ task' = [s \in SessionId |->
                   IF s \in failed THEN [task[s] EXCEPT !.at = "lost"] ELSE task[s]]
     /\ loop' = Tail(loop) \o HandlerWoken
                  \o IF failed = {} THEN <<>> ELSE <<CHOOSE s \in failed : TRUE>>
     /\ UNCHANGED <<handlerVars, inbox, wire, clientVars, refused>>

LoopStep == HandlerStep \/ ReceivesData \/ LosesConnection \/ \E s \in SessionId : TaskStep(s)

\* asyncio.sleep is over.  Bound: MaxSequence.
SleepEnds(s) ==
  /\ task[s].at = "sleeping" /\ ~Scheduled(s)
  /\ task[s].sequenceNo <= MaxSequence
  /\ task' = [task EXCEPT ![s].at = "woken"]
  /\ loop' = Append(loop, s)
  /\ UNCHANGED <<handlerVars, inbox, wire, broken, clientVars, refused>>

-----------------------------------------------------------------------------
(***************************************************************************)
(* The client.  What it sends waits its turn with the tasks.               *)
(***************************************************************************)
Sends(m) ==
  /\ clientOpen
  /\ sent' = Append(sent, m)
  /\ loop' = Append(loop, Receive)

\* Session ids are fresh.  Bound: MaxInbox.
ClientSends(m) ==
  /\ Len(sent) + Len(inbox) < MaxInbox
  /\ Sends(m)
  /\ m.type = "StartSession" =>
       /\ task[m.session].at = "none"
       /\ \A i \in 1..Len(sent) : sent[i] # m
       /\ \A i \in 1..Len(inbox) : inbox[i] # m
  /\ believed' = CASE m.type = "StartSession" -> m.session
                   [] m = Interrupt(believed) -> None
                   [] OTHER -> believed
  /\ polite' = (polite /\ (m.type = "StartSession" => believed = None))
  /\ UNCHANGED <<handlerVars, task, inbox, wire, broken, clientOpen, refused>>

\* A write that waits goes on when the client has caught up.
ClientReads ==
  /\ clientOpen
  /\ wire # <<>>
  /\ wire' = Tail(wire)
  /\ believed' = IF Head(wire) = Ended(believed) THEN None ELSE believed
  /\ LET drained == {s \in SessionId : Waiting(s) /\ Len(wire') <= HighWater}
     IN /\ task' = [s \in SessionId |->
                      IF s \in drained THEN [task[s] EXCEPT !.at = "drained"] ELSE task[s]]
        /\ loop' = loop \o IF drained = {} THEN <<>> ELSE <<CHOOSE s \in drained : TRUE>>
  /\ UNCHANGED <<handlerVars, sent, inbox, broken, clientOpen, polite, refused>>

ClientLeaves ==
  /\ Sends(EndOfInput)
  /\ clientOpen' = FALSE
  /\ UNCHANGED <<handlerVars, task, inbox, wire, broken, believed, polite, refused>>

\* Sending the rest of what a write waits for fails.
SendingFails ==
  /\ ~clientOpen /\ ~broken
  /\ ~Scheduled(Lost)
  /\ \E s \in SessionId : Waiting(s)
  /\ loop' = Append(loop, Lost)
  /\ UNCHANGED <<handlerVars, task, inbox, wire, broken, clientVars, refused>>

ClientStep == (\E m \in Message : ClientSends(m)) \/ ClientReads \/ ClientLeaves

Next ==
  \/ LoopStep
  \/ Closes
  \/ \E s \in SessionId : SleepEnds(s)
  \/ ClientStep
  \/ SendingFails

Spec == Init /\ [][Next]_vars

\* asyncio runs what is ready; the client owes nothing.
Fairness == WF_vars(LoopStep) /\ WF_vars(Closes) /\ WF_vars(SendingFails)

FairSpec == Spec /\ Fairness

-----------------------------------------------------------------------------
(***************************************************************************)
(* Properties                                                              *)
(***************************************************************************)
TaskType ==
  [at : {"none", "created", "sleeping", "woken", "draining", "drained", "lost", "done"},
   cancelled : BOOLEAN, sequenceNo : Nat]

TypeOK ==
  /\ mode \in Modes
  /\ loop \in Seq(SessionId \cup {Handler, Receive, Lost})
  /\ handler \in {"hello", "message", "running", "interrupting", "leaving", "closing", "done"}
  /\ {session, believed} \subseteq SessionId \cup {None}
  /\ task \in [SessionId -> TaskType]
  /\ inbox \in Seq(Message \cup {EndOfInput})
  /\ wire \in Seq({ServerHello(accepted) : accepted \in BOOLEAN} \cup {Ended(s) : s \in SessionId}
                    \cup {Fragment(s, n) : s \in SessionId, n \in 1..MaxSequence})
  /\ sent \in Seq(Message \cup {EndOfInput})
  /\ {broken, clientOpen, polite, refused} \subseteq BOOLEAN

\* At most one session task lives at a time, that of the session or the one the
\* handler awaits; and a session has a live task to end it, unless the client is
\* gone: otherwise two tasks would write to the client, or the client would wait
\* for a session that nobody serves (_handle_start, _clear_session).
OneTask ==
  LET live == {s \in SessionId : Alive(s)}
  IN /\ Cardinality(live) <= 1
     /\ session = None => \A s \in live : Awaiting /\ task[s].cancelled
     /\ session # None => live \subseteq {session} /\ (live = {} => broken)

\* A client that starts a session only when it has interrupted the one before,
\* or has read that it ended, is never refused: the server forgets a session
\* before anything the client sends next is read (docs/protocol.md, "Session
\* Lifecycle"; _handle_start, _run_session).
PoliteIsServed == polite => ~refused

\* With a write of a task that waits, the message has been said.
Said(s) == task[s].at \in {"draining", "drained"}

\* The connection is a Server: fragments in order and without a gap, nothing of
\* a session after its end or its interruption.
Abstract == INSTANCE Server WITH
  served <- IF session = None \/ broken \/ (mode = "ended" /\ Said(session)) THEN None ELSE session,
  sequenceNo <- IF session = None \/ broken \/ mode = "ended" THEN 1
                ELSE task[session].sequenceNo + IF Said(session) THEN 1 ELSE 0,
  unread <- IF wire # <<>> /\ Head(wire).type = "ServerHello" THEN Tail(wire) ELSE wire

ImplementsServer == Abstract!Spec

\* An interrupt, or the client's misbehaving, never leaves the handler waiting
\* for a task that waits for the client to read (_clear_session cancels).
ClearingEnds == Awaiting ~> ~Awaiting

\* When the client has left, the connection is taken down, whatever the handler
\* and the session's task were doing (handle, finally).
LeavingEnds == ~clientOpen ~> handler = "done"
=============================================================================
