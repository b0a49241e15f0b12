# fcitx5-scribe in TLA+

fcitx5-scribe is an fcitx5 add-on that types what a transcriber process hears.
A hotkey starts a dictation in the focused input context; the add-on connects
to the transcriber over a Unix socket, authenticates it, starts a session, and
commits the text fragments the server sends. This directory models the add-on's
control: which session runs, over which connection, for which context, and what
two threads and a server can do to each other in between.

## 1. The system

| Part | Source | State it keeps | Operations |
|---|---|---|---|
| Engine | `src/src/addon/engine.{hpp,cpp}` | known contexts and their liveness, focus, pending context, session with its next sequence number, connection state, configuration result | `handle(Event)`: eleven event types, each returning an ordered list of effects. Synchronous, deterministic but for the session id |
| Addon | `src/src/addon/addon.{hpp,cpp}` | maps between fcitx input contexts and ids; the queue of the running `dispatch` | `dispatch` runs an event and its follow-ups to completion; `apply` performs one effect; callbacks of fcitx and of Io |
| Io | `src/src/addon/io.{hpp,cpp}` | command channel, socket, generation counters, current config and nonce, outgoing frames, `connected`, `connectionActive`, `writerRunning`, the stopping flag | `connect`, `disconnect`, `send` from the fcitx thread; `run`, `runConnection`, `authenticate`, `readLoop`, `writeLoop`, `closeConnection` on the worker thread; destructor |
| Protocol codec | `src/src/addon/protocol.{hpp,cpp}` | none | length-prefixed frames, nonces, HMAC proof |
| Config | `src/src/addon/config.{hpp,cpp}` | the options and the expanded socket path, cached; the environment is read at every use | `load`, `set`, `connectionConfig` with the overrides for debugging |
| Helpers | `util`, `factory`, `error.hpp`, `types.hpp` | none | |
| PoC transcriber | `src/tools/poc_transcriber.py` | per connection: the session, its sequence number, its task, and what waits in the streams | `handle` reads messages, starts and clears sessions; `_run_session` writes fragments or an end; both are asyncio tasks |

**Interaction.** fcitx calls the addon on its main thread. The addon feeds the
engine and applies the effects: accepting the key, committing text, or calling
Io, which puts a command on a bounded channel (`try_send`, 128 entries). One
worker thread runs an asio `io_context` with four kinds of coroutines, all of
which may call `closeConnection`. Io reports back by scheduling callbacks on
fcitx's event dispatcher. `connected` is the one variable both threads read.

**What is hard.** Callbacks and commands cross each other, and neither carries
a generation number. A coroutine resumes a queue's length after its operation
ended, when the connection may be closed or another one. Commands can be
refused or ignored. Sessions exist three times (engine, transport queues,
server) and are only eventually the same. fcitx may destroy an input context
and create another at its address, with or without a word to the addon, while a
session runs for the first. The configuration is made of parts looked up at
different moments. In the server, a session's task is cancelled or finds its
client gone at any wait. At shutdown a second thread reaches into the
transport. The hazards, each at its line and with the properties aimed at it,
are listed in `PROJECT.json`.

**What makes each part correct.**

* Engine: a start waits and a session runs only where it should; one session
  at a time under a fresh id; fragments typed without a gap; the server told of
  every session given up.
* Io: no attempt, operation, frame or handler is forgotten; every change of
  `connected` is reported; attempts end.
* Addon: an id means one input context for ever; text goes to the object it is
  meant for; the engine goes by the configuration there is; `dispatch` returns.
* Transcriber: one session task at a time, a client that keeps to the protocol
  is never refused, nobody waits for ever.
* Together: the engine's idea of the connection and of the session is right or
  about to be corrected; a start does not hang.

## 2. Modules

| Module | Models | Correspondence |
|---|---|---|
| `Dictation` | what the engine promises | abstract: `Begin`, `Type`, `End`, `Idle` |
| `Engine` | `engine.cpp` | one action per event, a variable per data member, `effects` holds what `handle` returned. `ConnectionClosed` and `ConnectionFailed` are one action (they differ only in logging), as are `VadTimeout` and `Error`. `config` merges the two optionals of the configuration |
| `Io` | `io.cpp` | `commands` is the channel, `ready` the FIFO of handlers of the `io_context`, `co` what each coroutine is suspended in. Every stretch of code between two `co_await`s is one action |
| `Server` | what a transcriber promises | abstract: `Starts`, `Interrupted`, `Says`, `Forgets`; external to the add-on |
| `Scribe` | `addon.cpp`'s dispatch, composing `Engine`, `Io` and `Server` | `effects` and `followUps` are the rest of a dispatch; `Apply*` performs one effect; `Callback` runs one callback of Io; the `Server*` operators drive `Server` |
| `Transcriber` | `poc_transcriber.py`, one connection | `loop` is asyncio's ready queue; `handler` and `task[s].at` say at which `await` the handler and a session's task are; `wire` is what the client has not read, `HighWater` of which may wait before a write does |
| `Config` | `config.cpp` | a variable per option and for the cached path; `Replace` is `set` and `load` |
| `Addon` | `addon.cpp`, composing `Engine` and `Config` | `idOf` and `watched` are the two maps (`contexts_`, `contextsById_`), an input context is an object living at an address; Io may refuse a command and call back at any time |
| `Shutdown` | `~Io`, `SharedState::stop`, `isStopping` | one action per call on the socket, entered and left, by the fcitx thread and by the worker's handlers |
| `EngineProofs`, `IoProofs`, `TranscriberProofs`, `AddonProofs`, `ScribeProofs` | | theorems about the module of that name |
| `PoliteProofs`, `AttemptProofs` | | one theorem each that needs an invariant of its own: `PoliteIsServed` of `Transcriber`, `ConnectingHasAttempt` of `Scribe` |
| `IoSteps` | | lemmas on the steps of `Io` as the engine, the server and an attempt to connect see them, for `ScribeProofs` and `AttemptProofs` |
| `MCEngine`, `MCIo`, `MCScribe`, `MCAddon`, `MCTranscriber` | | values of the constants for TLC |

`Scribe` and `Addon` cut the add-on in two: what contexts and configurations do
to each other does not depend on the order in which Io's callbacks come, so
`Addon` lets them come in any order; what the transport does knows no contexts,
so `Scribe` has one. `Scribe` uses any `Server`; `Transcriber` implements it.

A coroutine's operation completes in one step (`OperationEnds`, `FrameArrives`,
`TimesOut`) and the coroutine resumes in a later one, when its handler is at
the front of `ready`. With `cancel_after` the handler of the operation first
cancels the timer and the coroutine resumes from the timer's handler
(`CancelsTimer`). A call of `closeConnection` completes all pending operations
with an error. These are facts about asio, marked external in the map.
Dereferencing the empty `currentConfig` and popping an empty deque are
undefined behaviour: the model sets `corrupt`, after which nothing is claimed.

Abstractions. Log effects, texts and the reason of an interrupt are left out.
A handshake proof is right iff it is for the nonce now stored. Events carry
the generation they belong to so that properties can speak of it; no action
reads it. The dispatcher delivers one callback per step, where fcitx takes all
that are waiting and then runs them: the same callbacks run in the same order
with more interleavings in between. The server answers out of one atomic
handler; after refusing a second session its connection may still take frames,
which adds behaviours and removes none. A dispatch is let run to its end before
the worker thread moves: it calls Io at most once, so any step of the worker in
the middle of it commutes to its beginning or end.

Some definitions are preceded by a second one with a mistake in it (a dropped
guard, a forgotten report). They are not part of any specification: each
property was tried against one of them and found violated.

In `Transcriber` a task runs from one `await` to the next as one action. A
task that is cancelled raises when it is next run, so a cancelled task is first
put on `loop`; a lost connection wakes the read or the write that waits one
round later (`Receive` and `Lost` are callbacks on the same queue). `vad-timeout`
and `error` mode end a session with one message after the first sleep and are
one mode here.

In `Addon` an object is a number that is never used again, and `watched[c]`
holds the object for which id `c`'s reference was made: the reference is valid
as long as the object lives anywhere. `ContextVanishes` is an object that goes
without its event reaching the add-on; a new object at its address finds the old
entry of the map. `starter` and `told` are auxiliary: the object whose key
started what waits or runs, and the environment at the moment the engine was
last told of the configuration.

## 3. Model checking

| Run | Checks | Shows | Distinct states |
|---|---|---|---|
| `engine` | `TypeOK`, `PendingInvariant`, `SessionInvariant`, `ConfigInvariant`, `EndIsTold`, `ImplementsDictation` | all events in all engine states | 2 530 |
| `io` | `TypeOK`, `ConnectedIsRead`, `AttemptIsDriven`, `PendingOnSocket`, `FramesHaveWriter`, `HandlersMatch`, `ChangesAreTold`, `AttemptsEnd`, `QueueDrains` | all interleavings of two connections; attempts end, a full channel drains | 380 k |
| `scribe` | `ReadyHasLink`, `ConnectingHasAttempt`, `SessionIsServed`, `FragmentsInOrder` | the whole system with a channel the user can fill | 4.7 M |
| `scribe_liveness` | `StartsResolve` | a start does not hang | 270 k |
| `transcriber` | `TypeOK`, `OneTask`, `PoliteIsServed`, `ImplementsServer`, `ClearingEnds`, `LeavingEnds` | one connection of the PoC server, every order of its tasks and of a client that may stop reading, misbehave or leave | 670 k |
| `addon` | `TypeOK`, `MapsAgree`, `IdsAreNotDead`, `TextIsWanted`, `EngineKnowsConfig`, `ConnectIsComplete`, `DispatchReturns` | contexts that come, go and replace each other, configurations and environments that change, callbacks in any order | 1.9 M |
| `one_session`, `stale_socket`, `writer_pops`, `handshake_config`, `connect_answered`, `stop_race` | one property each | violated, see section 5 | |

**Bounds.** `MaxSequence` bounds the sequence numbers a fragment may carry in
`Engine` (3: below, at and above the expected one) and `Addon` (1), and how many
the server sends in `Scribe` (2 in `scribe`, then an end, where `MaxPublished` 2
lets them be on their way at the same time; 0 where only liveness is asked)
and in `Transcriber` (2: a fragment after a first one). Two contexts suffice in
`Engine`: every handler tells apart the named context and others. `Scribe` has
one context, since contexts do not reach the transport. `MaxGeneration` 2 gives
an old and a new connection; `MaxConnects` counts connections begun and connects
queued, and 3 allows a Connect too many (`one_session`). `MaxWriters` 2 in `Io`
lets two write loops overlap if the code would let them. `MaxPublished`,
`MaxOutgoing` and `MaxQueued` bound the inbound messages waiting for the fcitx
thread, the frames waiting to be written and the commands queued while the user
acts. `Capacity` stands for 128 and is 1 or 2; with 1 the full
channel is reached, and `overrun` records that it has refused a Send or a
Disconnect. `Transcriber` has two sessions, so that one can follow another,
`HighWater` 1, so that the second unread message makes a write wait, and
`MaxInbox` 2, so that a message can come while another is handled. `Addon` has
two addresses, two objects and two ids: enough for a context to take another's
address, another's focus, or the address of one that went unnoticed; ids run out
only by the bound. It starts from any configuration `load` may find. Its variables are those that can make the parts of a
connection disagree: one in the path, one for the token, one override.
`SYMMETRY` is used only where every property is a safety property. Deadlock
checking is off where the system may stop: at the bounds, when the user, the
client, the server and the network do nothing more, and after shutdown.

**Fairness.** The worker thread runs (weak fairness of `WorkerStep`), timers of
`cancel_after` fire, and the write of a ClientHello completes: it is the first
write on a fresh socket, smaller than its buffer. Nothing is assumed of the
server or the user. In `Scribe` the fcitx thread also completes its dispatches
and gets round to Io's callbacks. There strong fairness is used because a
dispatch in progress disables the worker's step in the model, although the
threads run in parallel: endless key presses must not be allowed to stop it.
In `Transcriber` asyncio runs the tasks that are ready, closes what is to be
closed, and notices a client that has gone when there is something to send; the
client owes nothing, not even reading, and a session's sleep need not end. In
`Addon` the fcitx thread completes the handler it is in; no event need come.

## 4. Proofs

`EngineProofs` proves, for any sets of contexts and session ids and any bound on
sequence numbers, assuming only that `None` is none of the values and the bound
is a natural number (`NoneAssumption`, `MaxSequenceAssumption`):

* `EngineInvariant`: `Inv`, the conjunction of `TypeOK`, `PendingInvariant`,
  `SessionInvariant` and `ConfigInvariant`, is inductive. None of them is by
  itself: a session is well typed because the pending context it is made from
  is a focused context (`PendingInvariant`), the pending start is the only one
  because there is no session beside it, and a session needs a valid
  configuration because a connection does. One lemma per event, one step per
  conjunct the event can disturb.
* `TypeCorrect`, `PendingIsOnTarget`, `SessionIsOnTarget`,
  `ConnectionIsConfigured`: its parts.
* `EndsAreTold`: the action property `EndIsTold`, from `Inv` and one case per event.
  A fragment that cannot be typed ends the session too and owes the interrupt;
  only the server's own VadTimeout or Error is excepted, and a step that could
  be either counts as a fragment.
* `EngineImplementsDictation`: under the mapping `active <- session.id`,
  `typed <- nextSequenceNo - 1`, `output <- ` the visible effects, the initial
  state is one of `Dictation` and every step is `Begin`, `Type`, `End` or `Idle`.

`AddonProofs` proves the safety properties of the `addon` run for any addresses,
sessions and number of objects, and any set of ids that are positive numbers
(all of them, for the code as it is), assuming `ContextIdAssumption`,
`MaxObjectsAssumption`, `MaxSequenceAssumption` and that `None` is none of the
values (`NoneAssumption`):

* `MapsAlwaysAgree`: `MapInv` adds to `MapsAgree` the types of the maps and that
  an address with the focus has an object. Every step is `ensureContextId`,
  `eraseContext` or leaves the maps alone (`MapSteps`), and each of the two
  keeps the agreement (`EnsureKeeps`, `EraseKeeps`).
* `ConnectsComplete`, from `PathInv`: a path that is set and valid is expanded.
* Whatever the engine promises holds of the add-on's engine: a step of the
  add-on is a step of `Engine`, performs an effect, or does not touch it
  (`EngineSteps`), and `EngineProofs`' invariant is used through `INSTANCE`.
* `EngineIsTold`: `Known` says the engine's configuration is what the options
  gave in the environment of `told`, unless a report is queued; the environment
  is instantiated with `told` for that.
* `DeadIdsAreGone`: `Buried` adds that an id the engine has seen has been handed
  out (so no new context can get it) and that the context of a queued report is
  out of the maps.
* `TextGoesWhereWanted`: `Homes` (objects are told apart, and an id's object lives
  at the id's address or nowhere) and `Wanted`: for the context the engine has in
  its focus, fcitx has its object in focus, and the object of a context that a
  start waits for or a session types into is the starter's. The engine alone
  cannot see the difference between an object and the next one at its address;
  the theorem is that the maps, the references and the focus events make up for it.
* `AddonTypeCorrect`: `TypeOK`.

`IoProofs` proves every safety property of the `io` run, for any capacity, any
number of connections and write loops and any bounds that are positive numbers
(`CapacityAssumption`, `BoundsAssumption`, `FrameAssumption`). `IoInvariant`
shows `IInv` inductive, the conjunction of

* `TypeOK`, and `OpInv`: what each coroutine can be waiting for, with which
  generation and which results;
* `PendingOnSocket`: no operation is in flight on another socket than the open one;
* `ConnInv`: with `connectionActive` there is an attempt or a usable connection
  (`Current`): its coroutine is alive and the flags agree. Without it everything
  of a connection is off (`Quiet`);
* `WriterInv`: there is one writer at most, and one left over from an earlier
  connection is in `ready` before the handler that could make the new connection
  usable. This is why the write loops of two connections never run together,
  although nothing in the code compares their generations. It is a matter of
  order in the queue, and of the fact that a close completes all operations at
  once;
* `ReadyInv`: a handler is queued exactly when its operation is over, and once.

None stands alone: that an attempt is driven needs that its coroutine is not an
older one's (`OpInv`), that the writer finds frames needs the order (`ReadyInv`).
From `IInv` follow `ConnectedHasReader`, `AttemptHasDriver`,
`OperationsAreOnSocket`, `HandlersAreQueued` and `FramesAreWritten`, and
`ChangesReachAddon`, the action property `ChangesAreTold`, one case per
action. Operations of a kind that a close aborts complete in any order
(`Aborted`), so the theorems do not depend on the order asio happens to choose.

`TranscriberProofs` proves, for any sessions, any `HighWater` and any bounds
(`HighWaterAssumption`, `TranscriberBoundsAssumption`, `ModesAssumption`, and
`TasksAssumption`: a session is not one of the names the model gives to the
other tasks):

* `TranscriberInvariant`: `IInv`, of `TypeOK`; `LoopInv` (a task is queued once
  and exactly when it has something to do; a failed write is behind the
  notice that the client is gone); `SessionInv` (one live task; the one of
  `_session`, or the one that is cancelled and awaited); `TaskInv`; `FreshInv`
  (an id the client has yet to have read starts a task that never ran);
  `WireInv`.
* `TypeCorrect` and `OneTaskLives`: its consequences `TypeOK` and `OneTask`.
* `ConnectionIsServer`: under the mapping of `Abstract` the initial state is one
  of `Server`, and every step is one of its steps or a stutter. `LoopInv` is
  what the mapping needs: a task that a fault has ended says nothing more.

`PoliteProofs` proves, on top of that, that a client which starts a session only
after the last one's end was read or its interrupt sent is never refused
(`PoliteClientIsServed`). Whether the handler has a session when it reads a
StartSession is decided long before, so the invariant, `PoliteInvariant`, is about
what is under way:

* `EndInv`: a session whose end the client has still to read is `Spent`: its
  task has nothing more to say, and while the handler still has the session that
  end is the last word in the wire. This ties what
  the client believes to what the server's task is about to do.
* `PoliteInv`: the `Line` of messages read or sent but not handled is `Orderly`.
  Every StartSession in it has an interrupt between it and the start ahead of
  it, and either an interrupt between it and the running session or a
  place behind the point at which that session is `Forgotten`: the number of
  messages the handler can read before the callback that clears `_session` has
  its turn in asyncio's queue. The counterpart for the end of the line says what
  the client may send next. Without `Forgotten` the invariant is not inductive: the
  end of a session reaches the client before `_session` is cleared, and only the
  order of the ready queue puts the clearing before the answer.

`ScribeProofs` proves three of the four safety properties of the `scribe` run (the
fourth follows), for any contexts, sessions, capacity and bounds (`BoundsAssumption`, and
`NoneAssumption`: `None` is none of the values). The engine and the
transport of `Scribe` are instances of the modules their proofs are about
(`P` and `Q`), and nothing of those proofs is repeated:

* `PartsInvariant`: `PartsInv`, the engine's `Inv` and the transport's `IInv`,
  holds of the whole; so does `LinkInv`, which adds that callbacks carry what
  their type says and `AuthenticatedInv`: an Authenticated that the fcitx thread
  has still to take is of the connection that is there, or a report of an end
  comes after it. Without the latter `ReadyHasLink` is not inductive: the
  engine becomes ready on the strength of that callback.
* `ReadyIsLinked`: `ReadyHasLink`.
* `SyncInvariant`: `SyncInv`, on a session across its three places.
  `IdsInv`: a session on its way to the server, in it, or on its way back has
  an id the engine has given out, so a new session is unknown everywhere. `DialogueInv`: the
  start of the engine's session is sent once and before anything comes of it
  (`Announced`), and from then on the fragments under way are those from the
  engine's number to the server's, each once and in order (`Speaks`).
  `AnsweredInv` is `SessionIsServed` in terms of the queues.
* `SessionIsRun` and `FragmentsOrdered`: `SessionIsServed` and `FragmentsInOrder`.

The steps are few in kind: an event of the engine, an effect handed to the
transport, a step of the transport that the server may hear, an envelope that
arrives, a callback. `IoSteps` says of every action of `Io` which kind it is,
through what it does to two lines: the frames still to be written (`Unwritten`)
and the envelopes still to be handled (`Unheard`). A line loses its first
element (`Sheds`), gains one at its end (`Gains`), or keeps what is in it
(`Kept`).

`AttemptProofs` proves the fourth, `ConnectingHasAttempt`
(`ConnectingIsAttempted`), with one assumption more: contexts are ids, so none is
the name of the other kind of follow-up (`ContextAssumption`). The engine is out
of step with the transport while commands and callbacks are under way, so
`AttemptInvariant` is about what the two queues will still do:

* `LetGo`: if the engine has given up a connection that is there, a Disconnect is
  queued, or an Authenticated that will make the engine ready after all.
  Without it a new Connect could find the old connection and be ignored.
* `Welcomed`: while there is a connection, a report of an end in the queue is
  older than it, with its Authenticated behind.
* `Sought`, for an engine that waits: a Connect, an attempt or a report is under
  way; every Disconnect in the channel has a Connect behind it
  (`Reopens`); and so has every read loop that has met an end of file but not run
  yet (`Awaited`). Such a loop closes whatever connection is there when it
  runs, and says nothing (section 5); the proof is that, the queue of handlers
  being a FIFO, it has run before the attempt that matters begins, or that a
  later Connect is still to be taken. `IoSteps` says of every action of
  `Io` that it keeps to this (`Proceeds`).
* `EffectInv` and `LengthInv`: which effects go with which state of the engine,
  and that only the reader of a usable connection waits for a frame.

With these, every invariant and every action property that a passing run checks
is a theorem, and so are the implementations of `Dictation` and of `Server`. What
stays with TLC is liveness (`AttemptsEnd`, `QueueDrains`, `StartsResolve`,
`ClearingEnds`, `LeavingEnds`, `DispatchReturns`): the tools at hand prove no
property under fairness.

## 5. Where the code and its documents disagree

* `StaleLeavesSocketAlone`: generations are to keep stale coroutines from a
  reopened socket (`io.cpp:132`). The error paths after a `co_await` call
  `closeConnection` without comparing generations and close the new connection.
  An old read loop that meets an end of file ends a new attempt in the same way
  and tells nobody, which is why `ChangesAreTold` speaks of an attempt given up
  by its own coroutine.
* `WriterPopsItsFrame`: frames are to be drained in order (`io.cpp:248`). A
  write that succeeded just before a close pops the cleared queue.
* `HandshakeHasConfig`: the config is to be populated for the handshake's
  generation (`io.cpp:332`). A Disconnect between two reads of the handshake
  resets it and the next read dereferences it.
* `OneSession`: at most one session is to be active (`docs/protocol.md:103`).
  With a configuration change just as a handshake ends, the old connection's
  Authenticated is taken for the new one's, and its Closed drops the session
  started on the strength of it without an interrupt.
* `ConnectIsAnswered`: every Connect is to end in Authenticated or Failed
  (`docs/protocol.md:43`). Once the full command channel has refused a Send or
  a Disconnect, the engine is disconnected and the transport is not; it ignores
  the next Connect. With 128 entries and a worker that never blocks this takes a
  starved worker thread.

* `SocketHasOneThread`: all changes of the socket are to happen on the transport
  thread (`io.cpp:70`). `~Io` cancels and closes it on the fcitx thread, before
  the `io_context` is stopped, and a handler of the worker may be inside a
  function of the same socket: a data race.

What survives these: `ReadyHasLink`, `SessionIsServed` and `FragmentsInOrder`
hold in every behaviour short of undefined behaviour (`SessionIsServed` excepts
a server that has refused a second session), and `ConnectingHasAttempt` and
`StartsResolve` in every one without an overrun of the channel.

## 6. Not modelled

* Framing, protobuf and the bytes of nonces and proofs: pure functions over
  bytes, which call libraries. A frame is valid or not, a proof is right iff it
  is for the nonce now stored.
* Helpers, the plug-in factory and the message schema: no state.
* Logging, wording, the reason of an interrupt, which key is the toggle key, the
  timeout's value (a timer may fire at any moment).
* The uniqueness of session ids: `generateSessionId` draws 128 random bits, and
  the model takes an id not given out before (`issued`).
* `Io::send` tests `connected` and queues its command in one step of `Scribe`; in
  the code a close and a reconnect fit between the two. That `encodeFrame` may
  refuse an envelope is left out: none the engine sends is too large.
* That the parts of a connection are of one moment. `ConnectIsComplete` says they
  are there; the code looks the options and the environment up separately.
* Memory growth: of `outgoingFrames` and of `Engine::contexts_`. The models bound
  both, and nothing here says at which rate they grow.
* Callbacks after `~Io`: that they do not run is what fcitx's
  `scheduleWithContext` promises, and a model would only repeat it. Coroutines
  that are suspended when the `io_context` is stopped are never resumed; they
  own the shared state that owns the `io_context`, so neither is freed. That is
  memory again.
* `main` of the PoC transcriber, its signals and the removal of the socket file.
  Whether `wait_closed` waits for the clients depends on the version of Python.

## 7. Plan

Done: every module of section 2, and a theorem for every safety property the
passing runs check. What is left is out of the prover's reach (liveness), or has
no property that holds to prove (`Shutdown`, whose one run is a violation).
