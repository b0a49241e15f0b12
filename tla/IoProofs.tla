------------------------------ MODULE IoProofs ------------------------------
(***************************************************************************)
(* The safety properties of module Io, for any capacity, any number of     *)
(* connections and any bounds.                                             *)
(***************************************************************************)
EXTENDS Io, FiniteSetTheorems, SequenceTheorems, TLAPS

-----------------------------------------------------------------------------
\* a comes before b wherever both are in s.
Before(s, a, b) == \A i, j \in DOMAIN s : s[i] = a /\ s[j] = b => i < j

\* What Append does to the handlers in a queue and to their order.
LEMMA AppendedQueue ==
  ASSUME NEW S, NEW s \in Seq(S), NEW x \in S
  PROVE  /\ Append(s, x) \in Seq(S)
         /\ Range(Append(s, x)) = Range(s) \cup {x}
         /\ x \notin Range(s) /\ IsInjective(s) => IsInjective(Append(s, x))
         /\ \A a, b : Before(s, a, b) /\ a # x => Before(Append(s, x), a, b)
<1> DEFINE q == Append(s, x)
<1>1. /\ q \in Seq(S) /\ Len(q) = Len(s) + 1 /\ DOMAIN q = 1..Len(s) + 1
      /\ \A i \in 1..Len(s) : q[i] = s[i]
      /\ q[Len(s) + 1] = x /\ DOMAIN s = 1..Len(s) /\ Len(s) \in Nat
  OBVIOUS
<1> HIDE DEF q
<1>2. Range(q) = Range(s) \cup {x}
  BY <1>1 DEF Range
<1>3. x \notin Range(s) /\ IsInjective(s) => IsInjective(q)
  BY <1>1 DEF Range, IsInjective
<1>4. ASSUME NEW a, NEW b, Before(s, a, b), a # x PROVE Before(q, a, b)
  BY <1>1, <1>4 DEF Before
<1> QED
  BY <1>1, <1>2, <1>3, <1>4 DEF q

\* The same for a step of the worker, which takes the handler at the front and
\* leaves new ones at the end.
LEMMA SteppedQueue ==
  ASSUME NEW S, NEW s \in Seq(S), s # <<>>, NEW t \in Seq(S),
         IsInjective(s), IsInjective(t), \A x \in Range(t) : x \in Range(s) => x = Head(s)
  PROVE  LET q == Tail(s) \o t IN
         /\ q \in Seq(S) /\ IsInjective(q)
         /\ \A x : x \in Range(q) <=> (x \in Range(s) /\ x # Head(s)) \/ x \in Range(t)
         /\ \A a, b : a \in Range(s) /\ a # Head(s) /\ Before(s, a, b) => Before(q, a, b)
<1> DEFINE q == Tail(s) \o t  n == Len(s)  m == Len(t)
<1>1. /\ n \in Nat \ {0} /\ m \in Nat /\ DOMAIN s = 1..n /\ DOMAIN t = 1..m
      /\ Head(s) = s[1]
  OBVIOUS
<1>2. Tail(s) \in Seq(S) /\ Len(Tail(s)) = n - 1 /\ \A i \in 1..n-1 : Tail(s)[i] = s[i + 1]
  OBVIOUS
<1>3. /\ q \in Seq(S) /\ DOMAIN q = 1..(n - 1 + m)
      /\ \A i \in 1..n-1 : q[i] = s[i + 1]
      /\ \A i \in 1..m : q[n - 1 + i] = t[i]
  BY <1>1, <1>2
<1> HIDE DEF q, n, m
<1>4. \A i \in 1..(n - 1 + m) :
        \/ i + 1 \in 2..n /\ q[i] = s[i + 1]
        \/ i - (n - 1) \in 1..m /\ q[i] = t[i - (n - 1)]
  BY <1>1, <1>3
<1>0. /\ \A i, j \in 1..n : s[i] = s[j] => i = j
      /\ \A i, j \in 1..m : t[i] = t[j] => i = j
  BY <1>1 DEF IsInjective
<1>5. \A i \in 2..n, j \in 1..m : s[i] # t[j]
  BY <1>1 DEF Range, IsInjective
<1>6. IsInjective(q)
  <2> SUFFICES ASSUME NEW i \in DOMAIN q, NEW j \in DOMAIN q, q[i] = q[j] PROVE i = j
    BY DEF IsInjective
  <2>1. CASE i + 1 \in 2..n /\ q[i] = s[i + 1] /\ j + 1 \in 2..n /\ q[j] = s[j + 1]
    <3>0. s[i + 1] = s[j + 1]
      BY <2>1, Zenon
    <3>1. i + 1 \in 1..n /\ j + 1 \in 1..n
      BY <1>1, <2>1
    <3>2. i + 1 = j + 1
      BY <1>0, <3>0, <3>1
    <3> QED
      BY <1>1, <1>3, <3>2
  <2>2. CASE i - (n - 1) \in 1..m /\ q[i] = t[i - (n - 1)] /\ j - (n - 1) \in 1..m /\ q[j] = t[j - (n - 1)]
    <3>1. t[i - (n - 1)] = t[j - (n - 1)]
      BY <2>2
    <3>2. i - (n - 1) = j - (n - 1)
      BY <1>0, <2>2, <3>1
    <3> QED
      BY <1>1, <1>3, <3>2
  <2> QED
    BY <1>3, <1>4, <1>5, <2>1, <2>2
<1>7. ASSUME NEW x PROVE x \in Range(q) <=> (x \in Range(s) /\ x # Head(s)) \/ x \in Range(t)
  <2>1. ASSUME x \in Range(q) PROVE (x \in Range(s) /\ x # Head(s)) \/ x \in Range(t)
    <3>1. PICK i \in DOMAIN q : x = q[i]
      BY <2>1 DEF Range
    <3>2. CASE i + 1 \in 2..n /\ x = s[i + 1]
      <4>1. s[i + 1] # s[1]
        BY <1>0, <1>1, <3>2
      <4> QED
        BY <1>1, <3>2, <4>1 DEF Range
    <3>3. CASE i - (n - 1) \in 1..m /\ x = t[i - (n - 1)]
      BY <1>1, <3>3 DEF Range
    <3> QED
      BY <1>3, <1>4, <3>1, <3>2, <3>3
  <2>2. ASSUME x \in Range(s) /\ x # Head(s) PROVE x \in Range(q)
    <3>1. PICK i \in 2..n : x = s[i]
      BY <1>1, <2>2 DEF Range
    <3>2. i - 1 \in 1..n-1 /\ q[i - 1] = x /\ i - 1 \in DOMAIN q
      BY <1>1, <1>3, <3>1
    <3> QED
      BY <3>2 DEF Range
  <2>3. ASSUME x \in Range(t) PROVE x \in Range(q)
    <3>1. PICK i \in 1..m : x = t[i]
      BY <1>1, <2>3 DEF Range
    <3>2. n - 1 + i \in DOMAIN q /\ q[n - 1 + i] = x
      BY <1>1, <1>3, <3>1
    <3> QED
      BY <3>2 DEF Range
  <2> QED
    BY <2>1, <2>2, <2>3
<1>8. ASSUME NEW a, NEW b, a \in Range(s), a # Head(s), Before(s, a, b) PROVE Before(q, a, b)
  <2> SUFFICES ASSUME NEW i \in DOMAIN q, NEW j \in DOMAIN q, q[i] = a, q[j] = b PROVE i < j
    BY DEF Before
  <2>1. PICK k \in 2..n : s[k] = a
    BY <1>1, <1>8 DEF Range
  <2>2. i + 1 \in 2..n /\ s[i + 1] = a
    BY <1>3, <1>4, <1>5, <2>1
  <2>3. CASE j + 1 \in 2..n /\ q[j] = s[j + 1]
    BY <1>1, <1>3, <1>8, <2>2, <2>3 DEF Before
  <2>4. CASE j - (n - 1) \in 1..m
    BY <1>1, <1>3, <2>2, <2>4
  <2> QED
    BY <1>3, <1>4, <2>3, <2>4
<1> QED
  BY <1>3, <1>6, <1>7, <1>8 DEF q

\* The new handlers of most steps: none, one, or one and the next.
LEMMA ShortQueues ==
  ASSUME NEW S, NEW x \in S, NEW y \in S, x # y
  PROVE  /\ <<>> \in Seq(S) /\ IsInjective(<<>>) /\ Range(<<>>) = {}
         /\ <<x>> \in Seq(S) /\ IsInjective(<<x>>) /\ Range(<<x>>) = {x}
         /\ <<x, y>> \in Seq(S) /\ IsInjective(<<x, y>>) /\ Range(<<x, y>>) = {x, y}
  BY DEF IsInjective, Range

\* Two queues with nothing in common, one behind the other.
LEMMA JoinedQueue ==
  ASSUME NEW S, NEW s \in Seq(S), NEW t \in Seq(S),
         IsInjective(s), IsInjective(t), Range(s) \cap Range(t) = {}
  PROVE  s \o t \in Seq(S) /\ IsInjective(s \o t) /\ Range(s \o t) = Range(s) \cup Range(t)
<1> DEFINE q == s \o t
<1>1. /\ q \in Seq(S) /\ Len(s) \in Nat /\ Len(t) \in Nat /\ DOMAIN q = 1..(Len(s) + Len(t))
      /\ DOMAIN s = 1..Len(s) /\ DOMAIN t = 1..Len(t)
      /\ \A i \in 1..Len(s) : q[i] = s[i]
      /\ \A i \in 1..Len(t) : q[Len(s) + i] = t[i]
  OBVIOUS
<1> HIDE DEF q
<1>2. \A i \in DOMAIN q :
        \/ i \in 1..Len(s) /\ q[i] = s[i]
        \/ i - Len(s) \in 1..Len(t) /\ q[i] = t[i - Len(s)]
  BY <1>1
<1>3. \A i \in 1..Len(s), j \in 1..Len(t) : s[i] # t[j]
  BY <1>1 DEF Range
<1>4. IsInjective(q)
  BY <1>1, <1>2, <1>3 DEF IsInjective
<1>5. Range(q) \subseteq Range(s) \cup Range(t)
  BY <1>1, <1>2 DEF Range
<1>6. Range(s) \subseteq Range(q)
  BY <1>1 DEF Range
<1>7. Range(t) \subseteq Range(q)
  <2>1. \A i \in 1..Len(t) : Len(s) + i \in DOMAIN q
    BY <1>1
  <2> QED
    BY <1>1, <2>1 DEF Range
<1> QED
  BY <1>1, <1>4, <1>5, <1>6, <1>7 DEF q

-----------------------------------------------------------------------------
\* The coroutines of the three kinds, and run, are all different.
LEMMA Kinds ==
  /\ Connection \subseteq Coroutine /\ Reader \subseteq Coroutine /\ Writer \subseteq Coroutine
  /\ Connection \cap Reader = {} /\ Connection \cap Writer = {} /\ Reader \cap Writer = {}
  /\ Run \notin Coroutine
  /\ \A g \in Generation : <<"connection", g>> \in Connection /\ <<"reader", g>> \in Reader
  /\ \A c \in Connection : c[2] \in Generation /\ c = <<"connection", c[2]>>
  /\ \A c \in Reader : c[2] \in Generation /\ c = <<"reader", c[2]>>
<1>1. \A c \in Coroutine : c[1] \in {"connection", "reader", "writer"}
  BY DEF Coroutine, Connection, Reader, Writer
<1>2. Run \notin Coroutine
  BY <1>1 DEF Run
<1> QED
  BY <1>2 DEF Coroutine, Connection, Reader, Writer

\* There are finitely many of them.
LEMMA FiniteCoroutines == IsFiniteSet(Coroutine)
<1>1. MaxGeneration \in Int /\ MaxWriters \in Int
  BY BoundsAssumption
<1>2. IsFiniteSet(Generation) /\ IsFiniteSet(1..MaxWriters)
  BY <1>1, FS_Interval DEF Generation
<1>3. IsFiniteSet({"connection"} \X Generation)
  <2>1. IsFiniteSet({"connection"})
    BY FS_Singleton
  <2> QED
    BY <1>2, <2>1, FS_Product
<1>4. IsFiniteSet({"reader"} \X Generation)
  <2>1. IsFiniteSet({"reader"})
    BY FS_Singleton
  <2> QED
    BY <1>2, <2>1, FS_Product
<1>5. IsFiniteSet({"writer"} \X (1..MaxWriters))
  <2>1. IsFiniteSet({"writer"})
    BY FS_Singleton
  <2> QED
    BY <1>2, <2>1, FS_Product
<1>6. IsFiniteSet(Connection \cup Reader)
  BY <1>3, <1>4, FS_Union DEF Connection, Reader
<1> QED
  BY <1>5, <1>6, FS_Union DEF Coroutine, Writer

\* An order of a set of coroutines queues each of them once.
LEMMA OrdersQueue ==
  ASSUME NEW S \in SUBSET Coroutine, NEW q \in Orders(S)
  PROVE  q \in Seq(Coroutine \cup {Run}) /\ IsInjective(q) /\ Range(q) = S
<1>1. Cardinality(S) \in Nat
  BY FiniteCoroutines, FS_Subset, FS_CardinalityType
<1>2. /\ q \in [1..Cardinality(S) -> S] /\ IsInjective(q)
      /\ \A x \in S : \E i \in 1..Cardinality(S) : q[i] = x
  BY DEF Orders, Bijection, Injection, Surjection
<1>3. Range(q) = S
  BY <1>2 DEF Range
<1>4. q \in Seq(Coroutine \cup {Run})
  BY <1>1, <1>2
<1> QED
  BY <1>2, <1>3, <1>4

\* One order behind another.
LEMMA JoinedOrders ==
  ASSUME NEW A \in SUBSET Coroutine, NEW B \in SUBSET Coroutine, A \cap B = {},
         NEW q \in InTurn(A, B)
  PROVE  q \in Seq(Coroutine \cup {Run}) /\ IsInjective(q) /\ Range(q) = A \cup B
<1>1. PICK first \in Orders(A), second \in Orders(B) : q = first \o second
  BY DEF InTurn
<1>2. /\ first \in Seq(Coroutine \cup {Run}) /\ IsInjective(first) /\ Range(first) = A
      /\ second \in Seq(Coroutine \cup {Run}) /\ IsInjective(second) /\ Range(second) = B
  BY OrdersQueue
<1> QED
  BY <1>1, <1>2, JoinedQueue

\* Closing a connection queues each pending coroutine once.
LEMMA AbortedQueue ==
  ASSUME NEW running, NEW q \in Aborted(running)
  PROVE  /\ q \in Seq(Coroutine \cup {Run}) /\ IsInjective(q)
         /\ Range(q) = IF HadConnection(running) THEN Pending ELSE {}
<1>1. CASE HadConnection(running)
  <2>1. q \in InTurn(Reading, Pending \ Reading)
    BY <1>1 DEF Aborted
  <2>a. Reading \subseteq Pending /\ Pending \subseteq Coroutine
    BY DEF Pending, Reading
  <2>2. /\ Reading \in SUBSET Coroutine /\ Pending \ Reading \in SUBSET Coroutine
        /\ Reading \cap (Pending \ Reading) = {} /\ Reading \cup (Pending \ Reading) = Pending
    BY <2>a
  <2> QED
    BY <1>1, <2>1, <2>2, JoinedOrders
<1>2. CASE ~HadConnection(running)
  <2>1. q = <<>>
    BY <1>2 DEF Aborted
  <2>2. <<>> \in Seq(Coroutine \cup {Run}) /\ IsInjective(<<>>) /\ Range(<<>>) = {}
    BY DEF IsInjective, Range
  <2> QED
    BY <1>2, <2>1, <2>2
<1> QED
  BY <1>1, <1>2

-----------------------------------------------------------------------------
(***************************************************************************)
(* The inductive invariant: what a suspended coroutine can be suspended in *)
(* (OpInv); that there is a connection and what it consists of, or nothing *)
(* of one (ConnInv); who writes (WriterInv); who is in the queue           *)
(* (ReadyInv).                                                             *)
(***************************************************************************)
Steps(c) ==
  IF c \in Connection THEN {"connect", "hello", "hello header", "hello payload"}
  ELSE IF c \in Reader THEN {"length", "frame"}
  ELSE {"write"}

Data(c) ==
  IF c \in Connection THEN {None} ELSE IF c \in Reader THEN Inbound \cup {None} ELSE Frame

\* op is an operation coroutine c may wait for.
OpOf(c, op) ==
  /\ op \in OpType
  /\ op.at \in Steps(c)
  /\ op.generation \in 1..generationCounter
  /\ c \notin Writer => op.generation = c[2]
  /\ op.result \in {"pending"} \cup Results(op.at)
  /\ op.data \in Data(c)

OpInv == \A c \in Coroutine : co[c] # Idle => OpOf(c, co[c])

Quiet ==
  /\ socket = 0
  /\ ~connected /\ ~writerRunning
  /\ outgoingFrames = <<>>
  /\ activeGeneration = IF generationCounter = 0 THEN 0 ELSE generationCounter + 1

\* The coroutines of the newest connection.
Newest == <<"connection", generationCounter>>
NewestReader == <<"reader", generationCounter>>

\* From authentication on its reader is there, until then its handshake.
Current ==
  /\ generationCounter # 0
  /\ socket = generationCounter /\ activeGeneration = generationCounter
  /\ connected <=> co[Newest] = Idle
  /\ connected <=> co[NewestReader] # Idle
  /\ connected => co[NewestReader].on = generationCounter
  /\ writerRunning => connected
  /\ writerRunning <=> outgoingFrames # <<>>

ConnInv == IF connectionActive THEN Current ELSE Quiet

\* There is one writer at most.  A writer of an earlier connection has its handler
\* in the queue, and before the one that could make this connection usable: so it
\* never finds frames that are not its own.
WriterInv ==
  /\ \A c, d \in Writer : co[c] # Idle /\ co[d] # Idle => c = d
  /\ \A c \in Writer : co[c] # Idle =>
       IF writerRunning
       THEN co[c].generation = activeGeneration /\ co[c].data = Head(outgoingFrames)
       ELSE /\ co[c].result # "pending"
            /\ connectionActive => co[Newest].at = "connect" /\ Before(ready, c, Newest)
  /\ writerRunning => \E c \in Writer : co[c] # Idle

Done == {"ok", "eof", "error"}

ReadyInv ==
  /\ IsInjective(ready)
  /\ \A c \in Coroutine : c \in Range(ready) <=> co[c].result \in Done
  /\ Run \in Range(ready) <=> commands # <<>>

IInv == TypeOK /\ OpInv /\ PendingOnSocket /\ ConnInv /\ WriterInv /\ ReadyInv

-----------------------------------------------------------------------------
(***************************************************************************)
(* What the steps of the worker have in common.                            *)
(***************************************************************************)
\* A handler may be queued at every place a type is asked for.
Handlers == Coroutine \cup {Run}

\* A step of the worker keeps the queue in order: the handlers it adds are those
\* of the coroutines whose operations it has brought to an end.
LEMMA StepKeepsReady ==
  ASSUME TypeOK, ReadyInv, ready # <<>>,
         NEW s \in Seq(Handlers), IsInjective(s), ready' = Tail(ready) \o s,
         \A x \in Range(s) : x \in Range(ready) => x = Head(ready),
         \A c \in Coroutine :
           co'[c].result \in Done <=> c \in Range(s) \/ (c # Head(ready) /\ co[c].result \in Done),
         commands' # <<>> <=> Run \in Range(s) \/ (Run # Head(ready) /\ commands # <<>>)
  PROVE  /\ ReadyInv' /\ ready' \in Seq(Handlers)
         /\ \A a, b : a \in Range(ready) /\ a # Head(ready) /\ Before(ready, a, b)
                        => Before(ready', a, b)
<1>1. ready \in Seq(Handlers) /\ IsInjective(ready)
  BY DEF TypeOK, ReadyInv, Handlers
<1>2. /\ ready' \in Seq(Handlers) /\ IsInjective(ready')
      /\ \A x : x \in Range(ready') <=> (x \in Range(ready) /\ x # Head(ready)) \/ x \in Range(s)
      /\ \A a, b : a \in Range(ready) /\ a # Head(ready) /\ Before(ready, a, b)
                     => Before(ready', a, b)
  BY <1>1, SteppedQueue
<1>3. /\ \A c \in Coroutine : c \in Range(ready) <=> co[c].result \in Done
      /\ Run \in Range(ready) <=> commands # <<>>
  BY DEF ReadyInv
<1> QED
  BY <1>2, <1>3 DEF ReadyInv

\* The coroutine at the front waits for nothing any more.
LEMMA FrontIsDone ==
  ASSUME IInv, NEW c \in Coroutine, AtFront(c)
  PROVE  co[c] # Idle /\ OpOf(c, co[c]) /\ co[c].result \in Done /\ ready # <<>> /\ Head(ready) = c
<1>1. ready \in Seq(Handlers) /\ ready # <<>> /\ Head(ready) = c
  BY DEF IInv, TypeOK, AtFront, Handlers
<1>2. c \in Range(ready)
  <2>1. 1 \in DOMAIN ready /\ ready[1] = c
    BY <1>1
  <2> QED
    BY <2>1 DEF Range
<1>3. co[c].result \in Done
  BY <1>2 DEF IInv, ReadyInv
<1>4. co[c] # Idle
  BY <1>3 DEF Idle, Op, Done
<1> QED
  BY <1>1, <1>3, <1>4 DEF IInv, OpInv

\* As long as there is a writer of an earlier connection, the handshake of the
\* newest is not at the front.
LEMMA WritersFirst ==
  ASSUME IInv, AtFront(Newest), connectionActive, ~writerRunning, NEW w \in Writer
  PROVE  co[w] = Idle
<1> SUFFICES ASSUME co[w] # Idle PROVE FALSE
  OBVIOUS
<1>1. /\ co[w].result # "pending" /\ Before(ready, w, Newest) /\ OpOf(w, co[w]) /\ w \in Coroutine
  BY Kinds DEF IInv, WriterInv, OpInv
<1>2. co[w].result \in Done
  BY <1>1 DEF OpOf, Results, Done
<1>3. w \in Range(ready)
  BY <1>1, <1>2 DEF IInv, ReadyInv
<1>4. ready \in Seq(Handlers) /\ ready # <<>> /\ ready[1] = Newest
  BY DEF IInv, TypeOK, AtFront, Handlers
<1>5. PICK i \in DOMAIN ready : ready[i] = w
  BY <1>3 DEF Range
<1>6. i < 1
  BY <1>1, <1>4, <1>5 DEF Before
<1> QED
  BY <1>4, <1>5, <1>6

\* What Idle is made of.
LEMMA IdleFacts == Idle \in OpType /\ Idle.result = "none" /\ Idle.on = 0 /\ Idle.at = "idle"
  BY BoundsAssumption DEF Idle, Op, OpType

\* A coroutine that is in a step has suspended.
LEMMA SuspendedFacts ==
  ASSUME NEW c \in Coroutine, NEW op, OpOf(c, op)
  PROVE  /\ op # Idle /\ op.result \in {"pending"} \cup Done
         /\ op.at # "idle"
  BY IdleFacts DEF OpOf, Steps, Results, Done

\* A coroutine that resumes, and ends or waits for the next operation, disturbs
\* neither the others nor the order of the queue.
LEMMA MoveKeeps ==
  ASSUME IInv, NEW c \in Coroutine, AtFront(c),
         NEW op, op = Idle \/ OpOf(c, op),
         op.result = "pending" => socket # 0 /\ op.on = socket,
         co' = [co EXCEPT ![c] = op],
         ready' = Tail(ready) \o (IF op.result \in Done THEN <<c>> ELSE <<>>),
         UNCHANGED <<commands, generationCounter, socket>>
  PROVE  /\ OpInv' /\ PendingOnSocket' /\ ReadyInv'
         /\ ready' \in Seq(Handlers) /\ co' \in [Coroutine -> OpType]
         /\ co'[c] = op /\ \A d \in Coroutine : d # c => co'[d] = co[d]
         /\ \A w \in Writer : w # c /\ co[w] # Idle /\ co[w].result # "pending"
                              /\ Before(ready, w, Newest) => Before(ready', w, Newest)
<1>1. /\ co[c] # Idle /\ OpOf(c, co[c]) /\ co[c].result \in Done /\ ready # <<>> /\ Head(ready) = c
  BY FrontIsDone
<1>2. co \in [Coroutine -> OpType] /\ OpInv /\ PendingOnSocket /\ ReadyInv /\ TypeOK
  BY DEF IInv, TypeOK
<1>3. op \in OpType
  BY IdleFacts DEF OpOf
<1>4. /\ co'[c] = op /\ (\A d \in Coroutine : d # c => co'[d] = co[d])
      /\ co' \in [Coroutine -> OpType]
  BY <1>2, <1>3
<1>5. OpInv'
  <2> SUFFICES ASSUME NEW d \in Coroutine, co'[d] # Idle PROVE OpOf(d, co[d])'
    BY DEF OpInv
  <2>1. CASE d = c
    BY <1>4, <2>1 DEF OpOf
  <2>2. CASE d # c
    BY <1>2, <1>4, <2>2 DEF OpInv, OpOf
  <2> QED
    BY <2>1, <2>2
<1>6. PendingOnSocket'
  <2> SUFFICES ASSUME NEW d \in Coroutine, co'[d].result = "pending"
               PROVE  socket' # 0 /\ co'[d].on = socket'
    BY DEF PendingOnSocket
  <2>1. CASE d = c
    BY <1>4, <2>1
  <2>2. CASE d # c
    BY <1>2, <1>4, <2>2 DEF PendingOnSocket
  <2> QED
    BY <2>1, <2>2
<1> DEFINE s == IF op.result \in Done THEN <<c>> ELSE <<>>
<1>7. s \in Seq(Handlers) /\ IsInjective(s) /\ Range(s) = IF op.result \in Done THEN {c} ELSE {}
  <2>1. c \in Handlers /\ Run \in Handlers /\ c # Run
    BY Kinds DEF Handlers
  <2> QED
    BY <2>1, ShortQueues
<1>8. c # Run /\ Run \notin Range(s)
  BY <1>7, Kinds
<1>9. /\ ReadyInv' /\ ready' \in Seq(Handlers)
      /\ \A a, b : a \in Range(ready) /\ a # Head(ready) /\ Before(ready, a, b)
                     => Before(ready', a, b)
  <2>1. \A x \in Range(s) : x \in Range(ready) => x = Head(ready)
    BY <1>1, <1>7
  <2>2. \A d \in Coroutine :
          co'[d].result \in Done <=> d \in Range(s) \/ (d # Head(ready) /\ co[d].result \in Done)
    BY <1>1, <1>4, <1>7
  <2>3. commands' # <<>> <=> Run \in Range(s) \/ (Run # Head(ready) /\ commands # <<>>)
    BY <1>1, <1>8
  <2>4. ready' = Tail(ready) \o s
    OBVIOUS
  <2> HIDE DEF s
  <2> QED
    BY <1>1, <1>2, <1>7, <2>1, <2>2, <2>3, <2>4, StepKeepsReady
<1>10. ASSUME NEW w \in Writer, w # c, co[w] # Idle, co[w].result # "pending", Before(ready, w, Newest)
       PROVE  Before(ready', w, Newest)
  <2>1. w \in Coroutine
    BY Kinds
  <2>2. co[w].result \in Done
    BY <1>2, <1>10, <2>1, SuspendedFacts DEF OpInv
  <2>3. w \in Range(ready)
    BY <1>2, <2>1, <2>2 DEF ReadyInv
  <2> QED
    BY <1>1, <1>9, <1>10, <2>3
<1> QED
  BY <1>4, <1>5, <1>6, <1>9, <1>10

\* Without a connection closeConnection has nothing to close.
LEMMA WhatIsClosed ==
  ASSUME IInv, NEW running \in BOOLEAN, running => writerRunning
  PROVE  HadConnection(running) <=> connectionActive
  BY DEF IInv, ConnInv, Quiet, HadConnection

\* How closeConnection, called by the handler at the front, leaves the coroutines:
\* the caller has returned (run has not), and what was pending has failed.
LEMMA ClosedCoroutines ==
  ASSUME IInv, NEW h \in Handlers, NEW cs, NEW running \in BOOLEAN, NEW rf \in BOOLEAN,
         ready # <<>>, Head(ready) = h, running => writerRunning,
         cs = IF h = Run THEN co ELSE Finished(h),
         CloseConnection(rf, running, cs)
  PROVE  /\ co' = [c \in Coroutine |->
                     IF c = h THEN Idle
                     ELSE IF connectionActive /\ co[c].result = "pending"
                     THEN [co[c] EXCEPT !.result = "error"] ELSE co[c]]
         /\ co' \in [Coroutine -> OpType] /\ OpInv'
<1>1. co \in [Coroutine -> OpType] /\ OpInv
  BY DEF IInv, TypeOK
<1>2. cs = [c \in Coroutine |-> IF c = h THEN Idle ELSE co[c]]
  <2>1. CASE h = Run
    BY <1>1, <2>1, Kinds
  <2>2. CASE h # Run
    BY <1>1, <2>2 DEF Finished, Handlers
  <2> QED
    BY <2>1, <2>2
<1>3. co' = [c \in Coroutine |->
               IF c = h THEN Idle
               ELSE IF connectionActive /\ co[c].result = "pending"
               THEN [co[c] EXCEPT !.result = "error"] ELSE co[c]]
  <2>1. CASE connectionActive
    <3>1. co' = [c \in Coroutine |->
                   IF cs[c].result = "pending" THEN [cs[c] EXCEPT !.result = "error"] ELSE cs[c]]
      BY <2>1, WhatIsClosed DEF CloseConnection
    <3> QED
      BY <1>2, <2>1, <3>1, IdleFacts
  <2>2. CASE ~connectionActive
    <3>1. co' = cs
      BY <2>2, WhatIsClosed DEF CloseConnection
    <3> QED
      BY <1>2, <2>2, <3>1
  <2> QED
    BY <2>1, <2>2
<1>4. ASSUME NEW op, op \in OpType, op.result = "pending"
      PROVE  /\ [op EXCEPT !.result = "error"] \in OpType
             /\ [op EXCEPT !.result = "error"].at = op.at
             /\ [op EXCEPT !.result = "error"].generation = op.generation
             /\ [op EXCEPT !.result = "error"].data = op.data
             /\ [op EXCEPT !.result = "error"].result = "error"
  BY <1>4 DEF OpType
<1>5. co' \in [Coroutine -> OpType]
  BY <1>1, <1>3, <1>4, IdleFacts
<1>6. generationCounter' = generationCounter
  BY DEF CloseConnection
<1>7. OpInv'
  <2> SUFFICES ASSUME NEW c \in Coroutine, co'[c] # Idle PROVE OpOf(c, co[c])'
    BY DEF OpInv
  <2>1. c # h /\ co'[c] = IF connectionActive /\ co[c].result = "pending"
                          THEN [co[c] EXCEPT !.result = "error"] ELSE co[c]
    BY <1>3
  <2>2. co[c] # Idle
    BY <2>1, IdleFacts
  <2>3. OpOf(c, co[c])
    BY <1>1, <2>2 DEF OpInv
  <2>4. CASE connectionActive /\ co[c].result = "pending"
    BY <1>1, <1>4, <1>6, <2>1, <2>3, <2>4 DEF OpOf, Results
  <2>5. CASE ~(connectionActive /\ co[c].result = "pending")
    BY <1>6, <2>1, <2>3, <2>5 DEF OpOf
  <2> QED
    BY <2>4, <2>5
<1> QED
  BY <1>3, <1>5, <1>7

\* The state after closing, the queue aside.
LEMMA ClosedState ==
  ASSUME IInv, NEW h \in Handlers, NEW cs, NEW running \in BOOLEAN, NEW rf \in BOOLEAN,
         ready # <<>>, Head(ready) = h, running => writerRunning,
         cs = IF h = Run THEN co ELSE Finished(h),
         CloseConnection(rf, running, cs)
  PROVE  /\ PendingOnSocket' /\ ConnInv' /\ WriterInv' /\ ~connectionActive'
         /\ {connected, connectionActive, writerRunning}' \subseteq BOOLEAN
         /\ outgoingFrames' \in Seq(Frame)
         /\ UNCHANGED generationCounter
         /\ activeGeneration' \in {generationCounter', generationCounter' + 1}
         /\ {currentConfig, clientNonce}' \subseteq Generation \cup {None}
         /\ socket' \in 0..MaxGeneration
         /\ dispatcher' \in Seq(EventType)
         /\ connectionActive =>
              IF rf \/ connected
              THEN dispatcher' = Append(dispatcher,
                     Event(IF rf THEN "Failed" ELSE "Closed", activeGeneration, None))
              ELSE UNCHANGED dispatcher
<1>1. TypeOK /\ PendingOnSocket /\ ConnInv /\ WriterInv
  BY DEF IInv
<1>2. /\ \A c \in Coroutine : co'[c] = IF c = h THEN Idle
                     ELSE IF connectionActive /\ co[c].result = "pending"
                     THEN [co[c] EXCEPT !.result = "error"] ELSE co[c]
      /\ \A c \in Coroutine : co[c] \in OpType
  BY ClosedCoroutines DEF IInv, TypeOK
<1>3. /\ \A c \in Coroutine : co'[c].result = "pending" => co[c].result = "pending"
      /\ \A c \in Coroutine : co'[c] # Idle => co[c] # Idle
      /\ connectionActive => \A c \in Coroutine : co'[c].result # "pending"
  <2> SUFFICES ASSUME NEW c \in Coroutine
               PROVE  /\ co'[c].result = "pending" => co[c].result = "pending" /\ ~connectionActive
                      /\ co'[c] # Idle => co[c] # Idle
    OBVIOUS
  <2>1. CASE c = h
    BY <1>2, <2>1, IdleFacts
  <2>2. CASE c # h /\ connectionActive /\ co[c].result = "pending"
    <3>1. co'[c].result = "error" /\ co[c] # Idle
      BY <1>2, <2>2, IdleFacts DEF OpType
    <3> QED
      BY <2>2, <3>1
  <2>3. CASE c # h /\ ~(connectionActive /\ co[c].result = "pending")
    <3>1. co'[c] = co[c]
      BY <1>2, <2>3
    <3> QED
      BY <2>3, <3>1
  <2> QED
    BY <2>1, <2>2, <2>3
<1>4. CASE connectionActive
  <2>1. /\ connected' = FALSE /\ connectionActive' = FALSE /\ writerRunning' = FALSE
        /\ activeGeneration' = activeGeneration + 1
        /\ outgoingFrames' = <<>> /\ currentConfig' = None /\ clientNonce' = None /\ socket' = 0
        /\ dispatcher' = dispatcher \o Report(rf)
        /\ UNCHANGED generationCounter
    BY <1>4, WhatIsClosed DEF CloseConnection
  <2>2. generationCounter \in Generation /\ activeGeneration = generationCounter
    BY <1>1, <1>4, BoundsAssumption DEF TypeOK, ConnInv, Current, Generation
  <2>3. PendingOnSocket' /\ ConnInv'
    BY <1>3, <1>4, <2>1, <2>2 DEF PendingOnSocket, ConnInv, Quiet, Generation
  <2>4. WriterInv'
    BY <1>1, <1>3, <1>4, <2>1, Kinds DEF WriterInv
  <2>5. IF rf \/ connected
        THEN dispatcher' = Append(dispatcher,
               Event(IF rf THEN "Failed" ELSE "Closed", activeGeneration, None))
        ELSE UNCHANGED dispatcher
    <3>1. dispatcher \in Seq(EventType)
      BY <1>1 DEF TypeOK
    <3>2. /\ Event("Failed", activeGeneration, None) \in EventType
          /\ Event("Closed", activeGeneration, None) \in EventType
      BY <2>2 DEF Event, EventType
    <3> QED
      BY <2>1, <3>1, <3>2, AppendIsConcat, ConcatEmptySeq DEF Report
  <2>6. dispatcher' \in Seq(EventType)
    <3>1. dispatcher \in Seq(EventType)
      BY <1>1 DEF TypeOK
    <3>2. Event(IF rf THEN "Failed" ELSE "Closed", activeGeneration, None) \in EventType
      BY <2>2 DEF Event, EventType
    <3> QED
      BY <2>5, <3>1, <3>2
  <2>7. {connected, connectionActive, writerRunning}' \subseteq BOOLEAN
    BY <2>1
  <2>8. outgoingFrames' \in Seq(Frame) /\ socket' \in 0..MaxGeneration
    BY <2>1, BoundsAssumption
  <2>9. {currentConfig, clientNonce}' \subseteq Generation \cup {None}
    BY <2>1
  <2>10. activeGeneration' \in {generationCounter', generationCounter' + 1}
    BY <2>1, <2>2
  <2> QED
    BY <1>4, <2>1, <2>3, <2>4, <2>5, <2>6, <2>7, <2>8, <2>9, <2>10
<1>5. CASE ~connectionActive
  <2>1. /\ writerRunning' = running
        /\ UNCHANGED <<connected, connectionActive, outgoingFrames, generationCounter,
                      activeGeneration, currentConfig, clientNonce, socket, dispatcher>>
    BY <1>5, WhatIsClosed DEF CloseConnection
  <2>2. ~writerRunning /\ ~writerRunning'
    BY <1>1, <1>5, <2>1 DEF ConnInv, Quiet
  <2>3. PendingOnSocket' /\ ConnInv'
    BY <1>1, <1>3, <1>5, <2>1, <2>2 DEF PendingOnSocket, ConnInv, Quiet
  <2>4. WriterInv'
    BY <1>1, <1>3, <1>5, <2>1, <2>2, Kinds DEF WriterInv
  <2> QED
    BY <1>1, <1>5, <2>1, <2>2, <2>3, <2>4 DEF TypeOK
<1> QED
  BY <1>4, <1>5

\* The queue after closing: those it has failed are behind the others, once.
LEMMA ClosedQueue ==
  ASSUME IInv, NEW h \in Handlers, NEW cs, NEW running \in BOOLEAN, NEW rf \in BOOLEAN,
         ready # <<>>, Head(ready) = h, running => writerRunning,
         cs = IF h = Run THEN co ELSE Finished(h),
         CloseConnection(rf, running, cs),
         NEW aborted \in Aborted(running), NEW more \in {<<>>, <<Run>>},
         ready' = Tail(ready) \o (aborted \o more),
         more = <<Run>> => h = Run,
         commands' # <<>> <=> more = <<Run>> \/ (Run # h /\ commands # <<>>)
  PROVE  ReadyInv' /\ ready' \in Seq(Handlers)
<1>1. TypeOK /\ ReadyInv /\ OpInv /\ WriterInv
  BY DEF IInv
<1>2. /\ aborted \in Seq(Handlers) /\ IsInjective(aborted)
      /\ Range(aborted) = IF connectionActive THEN Pending ELSE {}
  BY AbortedQueue, WhatIsClosed DEF Handlers
<1>3. /\ more \in Seq(Handlers) /\ IsInjective(more)
      /\ Range(more) = IF more = <<Run>> THEN {Run} ELSE {}
  <2>1. Run \in Handlers
    BY DEF Handlers
  <2>2. /\ <<>> \in Seq(Handlers) /\ IsInjective(<<>>) /\ Range(<<>>) = {}
        /\ <<Run>> \in Seq(Handlers) /\ IsInjective(<<Run>>) /\ Range(<<Run>>) = {Run}
    BY <2>1 DEF IsInjective, Range
  <2> QED
    BY <2>2
<1>4. Pending \subseteq Coroutine /\ Run \notin Coroutine
  BY Kinds DEF Pending
<1> DEFINE s == aborted \o more
<1>5. s \in Seq(Handlers) /\ IsInjective(s) /\ Range(s) = Range(aborted) \cup Range(more)
  BY <1>2, <1>3, <1>4, JoinedQueue
<1>6. \A c \in Coroutine : co'[c] = IF c = h THEN Idle
                     ELSE IF connectionActive /\ co[c].result = "pending"
                     THEN [co[c] EXCEPT !.result = "error"] ELSE co[c]
  BY ClosedCoroutines
<1>7. \A c \in Coroutine : co[c].result = "pending" => [co[c] EXCEPT !.result = "error"].result = "error"
  BY <1>1 DEF TypeOK, OpType
<1>8. h \in Coroutine => co[h].result \in Done
  <2>1. 1 \in DOMAIN ready /\ ready[1] = h
    BY <1>1 DEF TypeOK, Handlers
  <2> QED
    BY <1>1, <2>1 DEF ReadyInv, Range
<1>9. \A x \in Range(s) : x \in Range(ready) => x = Head(ready)
  BY <1>1, <1>2, <1>3, <1>5 DEF ReadyInv, Pending, Done
<1>10. ASSUME NEW c \in Coroutine
       PROVE  co'[c].result \in Done <=> c \in Range(s) \/ (c # Head(ready) /\ co[c].result \in Done)
  <2>1. c \in Range(s) <=> connectionActive /\ co[c].result = "pending"
    BY <1>2, <1>3, <1>4, <1>5 DEF Pending
  <2>2. CASE c = h
    BY <1>6, <1>8, <2>1, <2>2, IdleFacts DEF Done
  <2>3. CASE c # h
    BY <1>6, <1>7, <2>1, <2>3 DEF Done
  <2> QED
    BY <2>2, <2>3
<1>11. commands' # <<>> <=> Run \in Range(s) \/ (Run # Head(ready) /\ commands # <<>>)
  BY <1>2, <1>3, <1>4, <1>5
<1>12. ready' = Tail(ready) \o s
  OBVIOUS
<1> HIDE DEF s
<1> QED
  BY <1>1, <1>5, <1>9, <1>10, <1>11, <1>12, StepKeepsReady

\* A coroutine closes the connection and returns.
LEMMA ClosesKeeps ==
  ASSUME IInv, NEW c \in Coroutine, AtFront(c), NEW rf \in BOOLEAN, Closes(c, rf)
  PROVE  IInv'
<1> DEFINE running == writerRunning /\ c \notin Writer
<1>1. /\ co[c] # Idle /\ ready # <<>> /\ Head(ready) = c /\ c \in Handlers /\ c # Run
      /\ ready \in Seq(Handlers)
  BY FrontIsDone, Kinds DEF Handlers, IInv, TypeOK
<1>2. running \in BOOLEAN /\ (running => writerRunning)
  OBVIOUS
<1>3. CloseConnection(rf, running, Finished(c)) /\ UNCHANGED <<commands, corrupt>>
  BY DEF Closes
<1>4. PICK aborted \in Aborted(running) : ready' = Tail(ready) \o aborted
  BY DEF Closes
<1>5. aborted \in Seq(Handlers)
  BY AbortedQueue DEF Handlers
<1>6. ready' = Tail(ready) \o (aborted \o <<>>)
  BY <1>4, <1>5, ConcatEmptySeq
<1> HIDE DEF running
<1>7. co' \in [Coroutine -> OpType] /\ OpInv'
  BY <1>1, <1>2, <1>3, ClosedCoroutines
<1>8. ReadyInv' /\ ready' \in Seq(Handlers)
  <2>1. <<>> # <<Run>>
    OBVIOUS
  <2> QED
    BY <1>1, <1>2, <1>3, <1>6, <2>1, ClosedQueue
<1>9. /\ PendingOnSocket' /\ ConnInv' /\ WriterInv'
      /\ {connected, connectionActive, writerRunning}' \subseteq BOOLEAN
      /\ outgoingFrames' \in Seq(Frame)
      /\ UNCHANGED generationCounter
      /\ activeGeneration' \in {generationCounter', generationCounter' + 1}
      /\ {currentConfig, clientNonce}' \subseteq Generation \cup {None}
      /\ socket' \in 0..MaxGeneration
      /\ dispatcher' \in Seq(EventType)
  BY <1>1, <1>2, <1>3, ClosedState
<1>10. TypeOK'
  BY <1>3, <1>7, <1>8, <1>9 DEF IInv, TypeOK, Handlers
<1> QED
  BY <1>7, <1>8, <1>9, <1>10 DEF IInv

-----------------------------------------------------------------------------
(***************************************************************************)
(* The steps of the coroutines.                                            *)
(***************************************************************************)
\* The step a coroutine is in tells its kind.
LEMMA KindOfStep ==
  ASSUME NEW c \in Coroutine, NEW op, OpOf(c, op)
  PROVE  /\ op.at \in {"connect", "hello", "hello header", "hello payload"} => c \in Connection
         /\ op.at \in {"length", "frame"} => c \in Reader
         /\ op.at = "write" => c \in Writer
         /\ c \in Connection => op.at \in {"connect", "hello", "hello header", "hello payload"}
         /\ c \in Reader => op.at \in {"length", "frame"}
  BY Kinds DEF OpOf, Steps, Coroutine

\* What the connection consists of is not touched.
ConnUnchanged ==
  UNCHANGED <<commands, connected, connectionActive, writerRunning, outgoingFrames,
              generationCounter, activeGeneration, socket>>

\* The coroutine at the front ends or goes on, and it was not, or still is, the
\* one the newest connection depends on.
LEMMA BystanderKeeps ==
  ASSUME IInv, NEW c \in Coroutine \ Writer, AtFront(c),
         NEW op, op = Idle \/ OpOf(c, op),
         op.result = "pending" => socket # 0 /\ op.on = socket,
         op = Idle \/ op.on \in {socket, co[c].on}
           \/ ~connectionActive \/ c \notin {Newest, NewestReader},
         op = Idle => ~connectionActive \/ c \notin {Newest, NewestReader},
         co' = [co EXCEPT ![c] = op],
         ready' = Tail(ready) \o (IF op.result \in Done THEN <<c>> ELSE <<>>),
         ConnUnchanged
  PROVE  /\ OpInv' /\ PendingOnSocket' /\ ReadyInv' /\ ConnInv' /\ WriterInv'
         /\ ready' \in Seq(Handlers) /\ co' \in [Coroutine -> OpType]
<1>1. /\ OpInv' /\ PendingOnSocket' /\ ReadyInv'
      /\ ready' \in Seq(Handlers) /\ co' \in [Coroutine -> OpType]
      /\ co'[c] = op /\ \A d \in Coroutine : d # c => co'[d] = co[d]
      /\ \A w \in Writer : w # c /\ co[w] # Idle /\ co[w].result # "pending"
                           /\ Before(ready, w, Newest) => Before(ready', w, Newest)
  BY MoveKeeps DEF ConnUnchanged
<1>2. co[c] # Idle /\ OpOf(c, co[c])
  BY FrontIsDone
<1>3. Newest' = Newest /\ NewestReader' = NewestReader
  BY DEF ConnUnchanged, Newest, NewestReader
<1>4. /\ ConnInv /\ WriterInv /\ \A w \in Writer : w # c /\ w \in Coroutine
      /\ co'[c] # Idle \/ ~connectionActive \/ c \notin {Newest, NewestReader}
  BY <1>1, Kinds DEF IInv
<1>5. connectionActive => /\ Newest \in Coroutine /\ NewestReader \in Coroutine
                          /\ Newest # NewestReader /\ socket = generationCounter
  <2>1. ASSUME connectionActive PROVE generationCounter \in Generation
    BY <2>1 DEF IInv, TypeOK, ConnInv, Current, Generation
  <2> QED
    BY <1>4, <2>1, Kinds DEF Newest, NewestReader, ConnInv, Current
<1>6. connectionActive => /\ co'[Newest] = Idle <=> co[Newest] = Idle
                          /\ co'[NewestReader] = Idle <=> co[NewestReader] = Idle
  BY <1>1, <1>2, <1>4, <1>5
<1>7. connectionActive /\ connected => co'[NewestReader].on = generationCounter
  <2> SUFFICES ASSUME connectionActive, connected PROVE co'[NewestReader].on = generationCounter
    OBVIOUS
  <2>1. co[NewestReader].on = generationCounter
    BY <1>4 DEF ConnInv, Current
  <2>2. CASE c = NewestReader
    BY <1>1, <1>4, <1>5, <2>1, <2>2
  <2>3. CASE c # NewestReader
    BY <1>1, <1>5, <2>1, <2>3
  <2> QED
    BY <2>2, <2>3
<1>8. ConnInv'
  <2>1. CASE connectionActive
    BY <1>3, <1>4, <1>6, <1>7, <2>1 DEF ConnInv, Current, ConnUnchanged
  <2>2. CASE ~connectionActive
    BY <1>4, <2>2 DEF ConnInv, Quiet, ConnUnchanged
  <2> QED
    BY <2>1, <2>2
<1>9. WriterInv'
  <2>1. \A w \in Writer : co'[w] = co[w]
    BY <1>1, <1>4
  <2>2. ASSUME NEW w \in Writer, co[w] # Idle, ~writerRunning, connectionActive
        PROVE  co'[Newest].at = "connect" /\ Before(ready', w, Newest)
    <3>1. co[w].result # "pending" /\ co[Newest].at = "connect" /\ Before(ready, w, Newest)
      BY <1>4, <2>2 DEF WriterInv
    <3>2. c # Newest
      BY <2>2, WritersFirst
    <3> QED
      BY <1>1, <1>4, <1>5, <2>2, <3>1, <3>2
  <2> QED
    BY <1>3, <1>4, <2>1, <2>2 DEF WriterInv, ConnUnchanged
<1> QED
  BY <1>1, <1>8, <1>9

\* An operation, by its parts.
LEMMA OpFacts ==
  ASSUME NEW at, NEW generation, NEW on, NEW result, NEW data
  PROVE  LET op == Op(at, generation, on, result, data) IN
         /\ op.at = at /\ op.generation = generation /\ op.on = on
         /\ op.result = result /\ op.data = data
  BY DEF Op

\* A coroutine waits for an operation on the socket there is.
LEMMA AwaitedOp ==
  ASSUME IInv, NEW c \in Coroutine, AtFront(c), NEW at \in Steps(c), NEW data \in Data(c),
         Await(c, at, co[c].generation, data)
  PROVE  \E op : /\ OpOf(c, op)
                 /\ op.at = at /\ op.generation = co[c].generation /\ op.on = socket /\ op.data = data
                 /\ op.result = "pending" => socket # 0
                 /\ co' = [co EXCEPT ![c] = op]
                 /\ ready' = Tail(ready) \o (IF op.result \in Done THEN <<c>> ELSE <<>>)
<1> DEFINE result == IF socket = 0 THEN "error" ELSE "pending"
           op == Op(at, co[c].generation, socket, result, data)
<1>1. OpOf(c, co[c]) /\ socket \in 0..MaxGeneration
  BY FrontIsDone DEF IInv, TypeOK
<1>2. /\ op.at = at /\ op.generation = co[c].generation /\ op.on = socket
      /\ op.result = result /\ op.data = data
  BY OpFacts
<1>3. op \in OpType
  <2>1. at \in {"idle", "connect", "hello", "hello header", "hello payload", "length", "frame", "write"}
    BY DEF Steps
  <2>2. data \in Frame \cup Inbound \cup {None}
    BY DEF Data
  <2> QED
    BY <1>1, <2>1, <2>2 DEF Op, OpOf, OpType
<1>4. OpOf(c, op)
  BY <1>1, <1>2, <1>3 DEF OpOf, Results
<1>5. /\ co' = [co EXCEPT ![c] = op]
      /\ ready' = Tail(ready) \o (IF socket = 0 THEN <<c>> ELSE <<>>)
  BY DEF Await, Op
<1>6. op.result \in Done <=> socket = 0
  BY <1>2 DEF Done
<1> HIDE DEF op
<1> QED
  BY <1>2, <1>4, <1>5, <1>6

\* A coroutine of a connection that goes on to its next step.
LEMMA GoesOnKeeps ==
  ASSUME IInv, NEW c \in Coroutine \ Writer, AtFront(c), NEW at \in Steps(c),
         GoesOn(c, at), clientNonce' \in Generation \cup {None}
  PROVE  IInv'
<1>1. None \in Data(c)
  BY DEF Data, Coroutine
<1>2. PICK op : /\ OpOf(c, op) /\ op.on = socket
                /\ op.result = "pending" => socket # 0
                /\ co' = [co EXCEPT ![c] = op]
                /\ ready' = Tail(ready) \o (IF op.result \in Done THEN <<c>> ELSE <<>>)
  BY <1>1, AwaitedOp DEF GoesOn
<1>3. ConnUnchanged
  BY DEF ConnUnchanged, GoesOn
<1>4. op # Idle
  BY <1>2, SuspendedFacts
<1>5. /\ OpInv' /\ PendingOnSocket' /\ ReadyInv' /\ ConnInv' /\ WriterInv'
      /\ ready' \in Seq(Handlers) /\ co' \in [Coroutine -> OpType]
  BY <1>2, <1>3, <1>4, BystanderKeeps
<1>6. TypeOK'
  <2>1. UNCHANGED <<commands, connected, connectionActive, writerRunning, outgoingFrames,
                    generationCounter, activeGeneration, currentConfig, socket, dispatcher, corrupt>>
    BY DEF GoesOn
  <2> QED
    BY <1>5, <2>1 DEF IInv, TypeOK, Handlers
<1> QED
  BY <1>5, <1>6 DEF IInv

\* The handshake begins.
LEMMA HandshakeStartsKeeps ==
  ASSUME IInv, NEW c \in Coroutine, HandshakeStarts(c) PROVE IInv'
<1>1. AtFront(c) /\ co[c].at = "connect" /\ GoesOn(c, "hello") /\ clientNonce' = co[c].generation
  BY DEF HandshakeStarts, Resumes
<1>2. OpOf(c, co[c])
  BY <1>1, FrontIsDone
<1>3. c \in Connection /\ c \notin Writer /\ "hello" \in Steps(c)
  BY <1>1, <1>2, KindOfStep, Kinds DEF Steps
<1>4. clientNonce' \in Generation \cup {None}
  BY <1>1, <1>2, <1>3, Kinds DEF OpOf
<1> QED
  BY <1>1, <1>3, <1>4, GoesOnKeeps

\* ClientHello is out.
LEMMA HelloWrittenKeeps ==
  ASSUME IInv, NEW c \in Coroutine, HelloWritten(c) PROVE IInv'
<1>1. AtFront(c) /\ co[c].at = "hello" /\ GoesOn(c, "hello header") /\ UNCHANGED clientNonce
  BY DEF HelloWritten, Resumes
<1>2. OpOf(c, co[c])
  BY <1>1, FrontIsDone
<1>3. c \notin Writer /\ "hello header" \in Steps(c) /\ clientNonce' \in Generation \cup {None}
  BY <1>1, <1>2, KindOfStep, Kinds DEF Steps, IInv, TypeOK
<1> QED
  BY <1>1, <1>3, GoesOnKeeps

\* The header of ServerHello is in.
LEMMA HelloHeaderReadKeeps ==
  ASSUME IInv, NEW c \in Coroutine, HelloHeaderRead(c) PROVE IInv'
<1>1. AtFront(c) /\ co[c].at = "hello header" /\ GoesOn(c, "hello payload") /\ UNCHANGED clientNonce
  BY DEF HelloHeaderRead, Resumes
<1>2. OpOf(c, co[c])
  BY <1>1, FrontIsDone
<1>3. c \notin Writer /\ "hello payload" \in Steps(c) /\ clientNonce' \in Generation \cup {None}
  BY <1>1, <1>2, KindOfStep, Kinds DEF Steps, IInv, TypeOK
<1> QED
  BY <1>1, <1>3, GoesOnKeeps

\* The length of a frame is in.
LEMMA LengthReadKeeps ==
  ASSUME IInv, NEW c \in Coroutine, LengthRead(c) PROVE IInv'
<1>1. AtFront(c) /\ co[c].at = "length" /\ GoesOn(c, "frame") /\ UNCHANGED clientNonce
  BY DEF LengthRead, Resumes
<1>2. OpOf(c, co[c])
  BY <1>1, FrontIsDone
<1>3. c \notin Writer /\ "frame" \in Steps(c) /\ clientNonce' \in Generation \cup {None}
  BY <1>1, <1>2, KindOfStep, Kinds DEF Steps, IInv, TypeOK
<1> QED
  BY <1>1, <1>3, GoesOnKeeps

\* The timer of an operation.
LEMMA CancelsTimerKeeps ==
  ASSUME IInv, NEW c \in Coroutine, CancelsTimer(c) PROVE IInv'
<1>1. /\ AtFront(c) /\ Timed(co[c].at)
      /\ co' = [co EXCEPT ![c].timerDone = TRUE]
      /\ ready' = Append(Tail(ready), c)
      /\ UNCHANGED <<commands, stateVars, corrupt>>
  BY DEF CancelsTimer
<1>2. co[c] # Idle /\ OpOf(c, co[c]) /\ co[c].result \in Done /\ ready # <<>>
  BY <1>1, FrontIsDone
<1>3. c \in Connection /\ c \notin Writer
  BY <1>1, <1>2, KindOfStep, Kinds DEF Timed
<1>4. TypeOK
  BY DEF IInv
<1> DEFINE op == [co[c] EXCEPT !.timerDone = TRUE]
<1>5. op \in OpType
  BY <1>4 DEF TypeOK, OpType
<1>6. /\ op.at = co[c].at /\ op.generation = co[c].generation /\ op.on = co[c].on
      /\ op.result = co[c].result /\ op.data = co[c].data
  BY <1>4 DEF TypeOK, OpType
<1>7. OpOf(c, op)
  BY <1>2, <1>5, <1>6 DEF OpOf
<1>8. co' = [co EXCEPT ![c] = op]
  BY <1>1
<1>9. ready' = Tail(ready) \o (IF op.result \in Done THEN <<c>> ELSE <<>>)
  <2>1. Tail(ready) \in Seq(Handlers) /\ c \in Handlers
    BY <1>2, <1>4 DEF TypeOK, Handlers
  <2> QED
    BY <1>1, <1>2, <1>6, <2>1, AppendIsConcat
<1>10. op # Idle /\ op.result # "pending"
  BY <1>2, <1>6, <1>7, SuspendedFacts DEF Done
<1>11. ConnUnchanged
  BY <1>1 DEF ConnUnchanged, stateVars
<1> HIDE DEF op
<1>12. /\ OpInv' /\ PendingOnSocket' /\ ReadyInv' /\ ConnInv' /\ WriterInv'
      /\ ready' \in Seq(Handlers) /\ co' \in [Coroutine -> OpType]
  <2>1. c \in Coroutine \ Writer /\ AtFront(c) /\ (op = Idle \/ OpOf(c, op))
    BY <1>1, <1>3, <1>7
  <2>2. op.result = "pending" => socket # 0 /\ op.on = socket
    BY <1>10
  <2>3. op.on \in {socket, co[c].on}
    BY <1>6
  <2>4. op = Idle => ~connectionActive \/ c \notin {Newest, NewestReader}
    BY <1>10
  <2> QED
    BY <1>8, <1>9, <1>11, <2>1, <2>2, <2>3, <2>4, BystanderKeeps
<1>13. TypeOK'
  BY <1>1, <1>4, <1>12 DEF TypeOK, stateVars, Handlers
<1> QED
  BY <1>12, <1>13 DEF IInv

\* A coroutine returns that was not the one the newest connection depends on.
LEMMA ReturnKeeps ==
  ASSUME IInv, NEW c \in Coroutine \ Writer, AtFront(c),
         ~connectionActive \/ c \notin {Newest, NewestReader},
         co' = Finished(c), ready' = Tail(ready), ConnUnchanged,
         UNCHANGED <<currentConfig, corrupt>>, clientNonce' \in Generation \cup {None},
         dispatcher' \in Seq(EventType)
  PROVE  IInv'
<1>1. TypeOK /\ ready # <<>>
  BY FrontIsDone DEF IInv
<1>2. Idle.result = "none" /\ Idle.result \notin Done
  BY IdleFacts DEF Done
<1>3. Tail(ready) \in Seq(Handlers)
  BY <1>1 DEF TypeOK, Handlers
<1>4. ready' = Tail(ready) \o (IF Idle.result \in Done THEN <<c>> ELSE <<>>)
  BY <1>2, <1>3, ConcatEmptySeq
<1>5. co' = [co EXCEPT ![c] = Idle]
  BY DEF Finished
<1>6. /\ OpInv' /\ PendingOnSocket' /\ ReadyInv' /\ ConnInv' /\ WriterInv'
      /\ ready' \in Seq(Handlers) /\ co' \in [Coroutine -> OpType]
  BY <1>2, <1>4, <1>5, BystanderKeeps
<1>7. TypeOK'
  BY <1>1, <1>6 DEF TypeOK, ConnUnchanged, Handlers
<1> QED
  BY <1>6, <1>7 DEF IInv

\* A message for the fcitx thread.
LEMMA InboundEvent ==
  ASSUME IInv, NEW c \in Reader, OpOf(c, co[c])
  PROVE  Append(dispatcher, Event("Inbound", co[c].generation, co[c].data)) \in Seq(EventType)
<1>1. co[c].generation \in Generation /\ co[c].data \in Inbound \cup {None}
  BY Kinds DEF OpOf, Data
<1>2. Event("Inbound", co[c].generation, co[c].data) \in EventType
  BY <1>1 DEF Event, EventType
<1> QED
  BY <1>2 DEF IInv, TypeOK

\* A frame is in, and the read loop goes round or ends.
LEMMA FrameReadKeeps ==
  ASSUME IInv, NEW c \in Coroutine, FrameRead(c) PROVE IInv'
<1>1. /\ AtFront(c) /\ co[c].at = "frame"
      /\ dispatcher' = Append(dispatcher, Event("Inbound", co[c].generation, co[c].data))
      /\ ConnUnchanged /\ UNCHANGED <<currentConfig, clientNonce, corrupt>>
  BY DEF FrameRead, Resumes, ConnUnchanged
<1>2. OpOf(c, co[c]) /\ TypeOK
  BY <1>1, FrontIsDone DEF IInv
<1>3. c \in Reader /\ c \notin Writer /\ "length" \in Steps(c) /\ None \in Data(c)
  BY <1>1, <1>2, KindOfStep, Kinds DEF Steps, Data
<1>4. dispatcher' \in Seq(EventType)
  BY <1>1, <1>2, <1>3, InboundEvent
<1>5. CASE co[c].generation = activeGeneration /\ socket # 0
  <2>1. Await(c, "length", co[c].generation, None)
    BY <1>5 DEF FrameRead
  <2>2. PICK op : /\ OpOf(c, op) /\ op.on = socket
                  /\ op.result = "pending" => socket # 0
                  /\ co' = [co EXCEPT ![c] = op]
                  /\ ready' = Tail(ready) \o (IF op.result \in Done THEN <<c>> ELSE <<>>)
    BY <1>1, <1>3, <2>1, AwaitedOp
  <2>3. op # Idle
    BY <2>2, SuspendedFacts
  <2>4. /\ OpInv' /\ PendingOnSocket' /\ ReadyInv' /\ ConnInv' /\ WriterInv'
        /\ ready' \in Seq(Handlers) /\ co' \in [Coroutine -> OpType]
    BY <1>1, <1>3, <2>2, <2>3, BystanderKeeps
  <2>5. TypeOK'
    BY <1>1, <1>2, <1>4, <2>4 DEF TypeOK, ConnUnchanged, Handlers
  <2> QED
    BY <2>4, <2>5 DEF IInv
<1>6. CASE ~(co[c].generation = activeGeneration /\ socket # 0)
  <2>1. co' = Finished(c) /\ ready' = Tail(ready)
    BY <1>6 DEF FrameRead
  <2>2. ~connectionActive \/ c \notin {Newest, NewestReader}
    <3>1. co[c].generation = c[2]
      BY <1>2, <1>3 DEF OpOf
    <3>2. c = NewestReader => c[2] = generationCounter
      BY DEF NewestReader
    <3>3. c # Newest
      BY <1>3 DEF Newest, Reader
    <3> QED
      BY <1>6, <3>1, <3>2, <3>3 DEF IInv, ConnInv, Current
  <2>3. clientNonce' \in Generation \cup {None}
    BY <1>1, <1>2 DEF TypeOK
  <2> QED
    BY <1>1, <1>3, <1>4, <2>1, <2>2, <2>3, ReturnKeeps
<1> QED
  BY <1>5, <1>6

\* ServerHello is in: the connection is refused, found to be an old one, or usable.
LEMMA HandshakeEndsKeeps ==
  ASSUME IInv, NEW c \in Coroutine, HandshakeEnds(c) PROVE IInv'
<1> DEFINE g == co[c].generation
           r == <<"reader", g>>
<1>1. AtFront(c) /\ co[c].at = "hello payload"
  BY DEF HandshakeEnds, Resumes
<1>2. co[c] # Idle /\ OpOf(c, co[c]) /\ ready # <<>> /\ Head(ready) = c /\ co[c].result \in Done
  BY <1>1, FrontIsDone
<1>3. /\ c \in Connection /\ c \notin Writer /\ g = c[2] /\ g \in Generation /\ g <= generationCounter
      /\ r \in Reader /\ c = <<"connection", g>>
  <2>1. c \in Connection /\ c \notin Writer /\ g = c[2] /\ g \in 1..generationCounter
    BY <1>1, <1>2, KindOfStep, Kinds DEF OpOf
  <2>2. g \in Generation /\ r \in Reader /\ c = <<"connection", g>>
    BY <2>1, Kinds
  <2> QED
    BY <2>1, <2>2 DEF IInv, TypeOK
<1>4. TypeOK
  BY DEF IInv
<1>5. CASE currentConfig = None \/ clientNonce # g
  BY <1>1, <1>5, ClosesKeeps DEF HandshakeEnds
<1>6. CASE ~(currentConfig = None \/ clientNonce # g)
  <2>1. /\ UNCHANGED <<commands, connectionActive, writerRunning, outgoingFrames,
                        generationCounter, activeGeneration, currentConfig, socket, corrupt>>
        /\ ready' = Tail(ready)
    BY <1>6 DEF HandshakeEnds
  <2>2. CASE g # activeGeneration \/ socket = 0
    <3>1. co' = Finished(c) /\ UNCHANGED <<connected, clientNonce, dispatcher>>
      BY <1>6, <2>2 DEF HandshakeEnds
    <3>2. ~connectionActive \/ c \notin {Newest, NewestReader}
      BY <1>3, <2>2 DEF IInv, ConnInv, Current, Newest, NewestReader
    <3> QED
      BY <1>1, <1>3, <1>4, <2>1, <3>1, <3>2, ReturnKeeps DEF TypeOK, ConnUnchanged
  <2>3. CASE ~(g # activeGeneration \/ socket = 0)
    <3>1. /\ clientNonce' = None /\ connected' = TRUE
          /\ dispatcher' = Append(dispatcher, Event("Authenticated", g, None))
          /\ co' = [Finished(c) EXCEPT ![r] = Op("length", g, socket, "pending", None)]
      BY <1>6, <2>3 DEF HandshakeEnds
    <3>2. /\ connectionActive /\ g = generationCounter /\ socket = g /\ activeGeneration = g
          /\ c = Newest /\ r = NewestReader
      BY <1>3, <2>3 DEF IInv, ConnInv, Current, Quiet, Newest, NewestReader
    <3>3. ~connected /\ co[r] = Idle /\ ~writerRunning /\ outgoingFrames = <<>>
      BY <1>2, <3>2 DEF IInv, ConnInv, Current
    <3>4. \A w \in Writer : co[w] = Idle
      BY <1>1, <3>2, <3>3, WritersFirst
    <3> DEFINE op == Op("length", g, socket, "pending", None)
    <3>5. /\ op \in OpType /\ op.at = "length" /\ op.generation = g /\ op.on = socket
          /\ op.result = "pending" /\ op.data = None
      BY <1>2, <1>4 DEF Op, OpType, OpOf, TypeOK
    <3>6. OpOf(r, op)
      BY <1>2, <1>3, <3>5, Kinds DEF OpOf, Steps, Data
    <3>7. r # c /\ r \in Coroutine
      BY <1>3, Kinds
    <3>8. co' = [co EXCEPT ![c] = Idle, ![r] = op]
      BY <3>1 DEF Finished
    <3> HIDE DEF op
    <3>9. /\ co'[c] = Idle /\ co'[r] = op
          /\ \A d \in Coroutine : d # c /\ d # r => co'[d] = co[d]
          /\ co' \in [Coroutine -> OpType]
      BY <1>4, <3>5, <3>7, <3>8, IdleFacts DEF TypeOK
    <3>10. OpInv'
      <4> SUFFICES ASSUME NEW d \in Coroutine, co'[d] # Idle PROVE OpOf(d, co[d])'
        BY DEF OpInv
      <4>1. CASE d = r
        BY <2>1, <3>6, <3>9, <4>1 DEF OpOf
      <4>2. CASE d # r
        BY <2>1, <3>9, <4>2 DEF OpOf, OpInv, IInv
      <4> QED
        BY <4>1, <4>2
    <3>11. PendingOnSocket'
      <4> SUFFICES ASSUME NEW d \in Coroutine, co'[d].result = "pending"
                   PROVE  socket' # 0 /\ co'[d].on = socket'
        BY DEF PendingOnSocket
      <4>1. CASE d = r
        BY <2>1, <2>3, <3>5, <3>9, <4>1
      <4>2. CASE d # r
        BY <2>1, <3>9, <4>2, IdleFacts DEF PendingOnSocket, IInv
      <4> QED
        BY <4>1, <4>2
    <3>12. ConnInv'
      <4>1. Newest' = Newest /\ NewestReader' = NewestReader
        BY <2>1 DEF Newest, NewestReader
      <4>2. co'[Newest] = Idle /\ co'[NewestReader] # Idle /\ co'[NewestReader].on = generationCounter
        BY <3>2, <3>5, <3>6, <3>7, <3>9, SuspendedFacts
      <4> QED
        BY <2>1, <3>1, <3>2, <3>3, <4>1, <4>2 DEF ConnInv, Current, IInv
    <3>13. WriterInv'
      <4>1. \A w \in Writer : co'[w] = Idle
        BY <1>3, <3>4, <3>9, Kinds
      <4> QED
        BY <2>1, <3>3, <4>1 DEF WriterInv
    <3>14. ReadyInv' /\ ready' \in Seq(Handlers)
      <4>1. Tail(ready) \in Seq(Handlers)
        BY <1>2, <1>4 DEF TypeOK, Handlers
      <4>2. ready' = Tail(ready) \o <<>>
        BY <2>1, <4>1, ConcatEmptySeq
      <4>3. <<>> \in Seq(Handlers) /\ IsInjective(<<>>) /\ Range(<<>>) = {}
        BY DEF IsInjective, Range
      <4>4. \A d \in Coroutine :
              co'[d].result \in Done <=> d \in {} \/ (d # Head(ready) /\ co[d].result \in Done)
        BY <1>2, <3>3, <3>5, <3>9, IdleFacts DEF Done
      <4>5. commands' # <<>> <=> Run \in {} \/ (Run # Head(ready) /\ commands # <<>>)
        BY <1>2, <2>1, Kinds
      <4> QED
        BY <1>2, <1>4, <4>2, <4>3, <4>4, <4>5, StepKeepsReady DEF IInv
    <3>15. dispatcher' \in Seq(EventType)
      <4>1. Event("Authenticated", g, None) \in EventType
        BY <1>3 DEF Event, EventType
      <4> QED
        BY <1>4, <3>1, <4>1 DEF TypeOK
    <3>16. TypeOK'
      BY <1>4, <2>1, <3>1, <3>9, <3>14, <3>15 DEF TypeOK, Handlers
    <3> QED
      BY <3>10, <3>11, <3>12, <3>13, <3>14, <3>16 DEF IInv
  <2> QED
    BY <2>2, <2>3
<1> QED
  BY <1>5, <1>6

\* A step that gives up the connection.
LEMMA EndingsKeep ==
  ASSUME IInv, NEW c \in Coroutine,
         \/ HandshakeFails(c) \/ HandshakeCannotStart(c)
         \/ ReaderFails(c) \/ ReaderReachesEnd(c) \/ WriterFails(c)
  PROVE  IInv'
<1>1. AtFront(c) /\ (Closes(c, TRUE) \/ Closes(c, FALSE))
  BY DEF HandshakeFails, HandshakeCannotStart, ReaderFails, ReaderReachesEnd, WriterFails, Resumes
<1> QED
  BY <1>1, ClosesKeeps

\* A writer has written its frame, and goes round the loop or ends.
LEMMA FrameWrittenKeeps ==
  ASSUME IInv, NEW c \in Coroutine, FrameWritten(c) PROVE IInv'
<1>1. /\ AtFront(c) /\ co[c].at = "write" /\ outgoingFrames # <<>>
      /\ outgoingFrames' = Tail(outgoingFrames)
      /\ UNCHANGED <<commands, connected, connectionActive, generationCounter, activeGeneration,
                     currentConfig, clientNonce, socket, dispatcher, corrupt>>
  BY DEF FrameWritten, Resumes
<1>2. co[c] # Idle /\ OpOf(c, co[c]) /\ ready # <<>> /\ TypeOK /\ c \in Writer
  BY <1>1, FrontIsDone, KindOfStep DEF IInv
<1>3. outgoingFrames \in Seq(Frame) /\ outgoingFrames' \in Seq(Frame)
  BY <1>1, <1>2 DEF TypeOK
<1>4. connectionActive /\ writerRunning /\ connected
  BY <1>1 DEF IInv, ConnInv, Quiet, Current
<1>5. /\ co[c].generation = activeGeneration
      /\ \A w \in Writer : co[w] # Idle => w = c
  BY <1>2, <1>4 DEF IInv, WriterInv
<1>6. /\ socket = generationCounter /\ generationCounter # 0
      /\ Newest \in Coroutine /\ NewestReader \in Coroutine /\ Newest # c /\ NewestReader # c
  <2>1. socket = generationCounter /\ generationCounter # 0 /\ generationCounter \in Generation
    BY <1>2, <1>4 DEF IInv, ConnInv, Current, TypeOK, Generation
  <2> QED
    BY <1>2, <2>1, Kinds DEF Newest, NewestReader
<1>7. ASSUME NEW op, op = Idle \/ OpOf(c, op), op.result = "pending" => socket # 0 /\ op.on = socket,
             co' = [co EXCEPT ![c] = op],
             ready' = Tail(ready) \o (IF op.result \in Done THEN <<c>> ELSE <<>>),
             writerRunning' \in BOOLEAN,
             writerRunning' <=> outgoingFrames' # <<>>,
             op # Idle <=> writerRunning',
             writerRunning' => op.generation = activeGeneration /\ op.data = Head(outgoingFrames')
      PROVE  IInv'
  <2>1. UNCHANGED <<commands, generationCounter, socket>>
    BY <1>1
  <2>2. /\ OpInv' /\ PendingOnSocket' /\ ReadyInv'
        /\ ready' \in Seq(Handlers) /\ co' \in [Coroutine -> OpType]
        /\ co'[c] = op /\ \A d \in Coroutine : d # c => co'[d] = co[d]
    BY <1>1, <1>7, <2>1, MoveKeeps
  <2>3. ConnInv'
    <3>1. Newest' = Newest /\ NewestReader' = NewestReader
      BY <1>1 DEF Newest, NewestReader
    <3> QED
      BY <1>1, <1>4, <1>6, <1>7, <2>2, <3>1 DEF IInv, ConnInv, Current
  <2>4. WriterInv'
    <3>1. \A w \in Writer : w # c => co'[w] = Idle
      BY <1>5, <2>2, Kinds
    <3> QED
      BY <1>1, <1>2, <1>7, <2>2, <3>1 DEF WriterInv
  <2>5. TypeOK'
    BY <1>1, <1>2, <1>3, <1>7, <2>2 DEF TypeOK, Handlers
  <2> QED
    BY <2>2, <2>3, <2>4, <2>5 DEF IInv
<1>8. CASE co[c].generation = activeGeneration /\ socket # 0 /\ outgoingFrames' # <<>>
  <2>1. UNCHANGED writerRunning
    BY <1>8 DEF FrameWritten
  <2>2. PICK f \in Data(c) : f = Head(outgoingFrames')
    BY <1>2, <1>3, <1>8, Kinds DEF Data
  <2>6. Await(c, "write", co[c].generation, f) /\ "write" \in Steps(c)
    BY <1>2, <1>8, <2>2, Kinds DEF FrameWritten, Await, Steps
  <2>3. PICK op : /\ OpOf(c, op)
                  /\ op.at = "write" /\ op.generation = co[c].generation /\ op.on = socket /\ op.data = f
                  /\ op.result = "pending" => socket # 0
                  /\ co' = [co EXCEPT ![c] = op]
                  /\ ready' = Tail(ready) \o (IF op.result \in Done THEN <<c>> ELSE <<>>)
    <3>1. AtFront(c) /\ "write" \in Steps(c) /\ Await(c, "write", co[c].generation, f)
      BY <1>1, <2>6
    <3> QED
      BY <3>1, AwaitedOp, Zenon
  <2>4. op # Idle
    BY <2>3, SuspendedFacts
  <2>5. writerRunning' \in BOOLEAN
    BY <1>2, <2>1 DEF TypeOK
  <2> QED
    BY <1>4, <1>5, <1>7, <1>8, <2>1, <2>2, <2>3, <2>4, <2>5
<1>9. CASE ~(co[c].generation = activeGeneration /\ socket # 0 /\ outgoingFrames' # <<>>)
  <2>1. co' = Finished(c) /\ ready' = Tail(ready) /\ writerRunning' = FALSE
    BY <1>9 DEF FrameWritten
  <2>2. outgoingFrames' = <<>>
    BY <1>5, <1>6, <1>9
  <2>3. Idle.result = "none" /\ Idle.result \notin Done
    BY IdleFacts DEF Done
  <2>4. Tail(ready) \in Seq(Handlers)
    BY <1>2 DEF TypeOK, Handlers
  <2>5. ready' = Tail(ready) \o (IF Idle.result \in Done THEN <<c>> ELSE <<>>)
    BY <2>1, <2>3, <2>4, ConcatEmptySeq
  <2>6. co' = [co EXCEPT ![c] = Idle]
    BY <2>1 DEF Finished
  <2> QED
    BY <1>7, <2>1, <2>2, <2>3, <2>5, <2>6
<1> QED
  BY <1>8, <1>9

\* Undefined behaviour: the model stands still from there on.
LEMMA CorruptsKeeps ==
  ASSUME IInv, Corrupts PROVE IInv'
<1>1. UNCHANGED <<commands, ready, co, stateVars>> /\ corrupt' = TRUE
  BY DEF Corrupts
<1> QED
  BY <1>1 DEF IInv, TypeOK, OpInv, OpOf, PendingOnSocket, ConnInv, Current, Quiet, Newest,
              NewestReader, WriterInv, ReadyInv, stateVars

\* Every step of a coroutine.
LEMMA CoroutineKeeps ==
  ASSUME IInv, NEW c \in Coroutine, CoroutineStep(c) PROVE IInv'
<1>1. CASE HandshakeFails(c) \/ HandshakeCannotStart(c)
           \/ ReaderFails(c) \/ ReaderReachesEnd(c) \/ WriterFails(c)
  BY <1>1, EndingsKeep
<1>2. CASE TimeoutOfNoConfig(c) \/ PopsNothing(c)
  BY <1>2, CorruptsKeeps DEF TimeoutOfNoConfig, PopsNothing
<1> QED
  BY <1>1, <1>2, CancelsTimerKeeps, HandshakeStartsKeeps, HelloWrittenKeeps, HelloHeaderReadKeeps,
     HandshakeEndsKeeps, LengthReadKeeps, FrameReadKeeps, FrameWrittenKeeps DEF CoroutineStep

-----------------------------------------------------------------------------
(***************************************************************************)
(* The commands.                                                           *)
(***************************************************************************)
\* run has a command, and queues itself for the next one, if there is one.
LEMMA TakenCommand ==
  ASSUME IInv, NEW type, TakesCommand(type)
  PROVE  /\ ready # <<>> /\ Head(ready) = Run /\ Run \in Range(ready) /\ commands # <<>>
         /\ commands' \in Seq(Command) /\ Len(commands') <= Capacity + 1
         /\ RunAgain \in {<<>>, <<Run>>}
         /\ commands' # <<>> <=> RunAgain = <<Run>>
<1>1. /\ TypeOK /\ ReadyInv /\ ready # <<>> /\ Head(ready) = Run /\ commands' = Tail(commands)
      /\ Capacity \in Nat
  BY CapacityAssumption DEF IInv, TakesCommand
<1>2. 1 \in DOMAIN ready /\ ready[1] = Run
  BY <1>1 DEF TypeOK
<1>3. Run \in Range(ready) /\ commands # <<>>
  BY <1>1, <1>2 DEF ReadyInv, Range
<1>4. /\ commands' \in Seq(Command) /\ Len(commands') <= Capacity + 1
      /\ commands' # <<>> <=> Len(commands) > 1
  <2>1. commands \in Seq(Command) /\ Len(commands) <= Capacity + 1
    BY <1>1 DEF TypeOK
  <2>2. commands' \in Seq(Command) /\ Len(commands') = Len(commands) - 1 /\ Len(commands) \in Nat \ {0}
    BY <1>1, <1>3, <2>1
  <2>3. (commands' # <<>>) <=> (Len(commands') # 0)
    <3>1. \A S : \A q \in Seq(S) : q # <<>> <=> Len(q) # 0
      OBVIOUS
    <3> QED
      BY <2>2, <3>1
  <2>4. ASSUME NEW n \in Nat \ {0}, n <= Capacity + 1
        PROVE  n - 1 <= Capacity + 1 /\ (n - 1 # 0 <=> n > 1)
    BY <1>1, <2>4
  <2>5. Len(commands') <= Capacity + 1 /\ (Len(commands') # 0 <=> Len(commands) > 1)
    BY <2>1, <2>2, <2>4
  <2> QED
    BY <2>2, <2>3, <2>5
<1>5. <<>> # <<Run>>
  OBVIOUS
<1> QED
  BY <1>1, <1>3, <1>4, <1>5 DEF RunAgain

\* A command leaves the queue in order: what it has started and is already over is
\* behind the others, and run is behind that.
LEMMA CommandQueue ==
  ASSUME IInv, NEW type, TakesCommand(type), NEW s \in Seq(Handlers),
         \/ s = <<>>
         \/ \E c \in Coroutine : s = <<c>> /\ co[c] = Idle,
         ready' = Tail(ready) \o (s \o RunAgain),
         \A d \in Coroutine : co'[d].result \in Done <=> d \in Range(s) \/ co[d].result \in Done
  PROVE  /\ ReadyInv' /\ ready' \in Seq(Handlers)
         /\ \A w \in Writer : \A b : co[w] # Idle /\ co[w].result # "pending" /\ Before(ready, w, b)
                               => Before(ready', w, b)
<1>1. /\ ready # <<>> /\ Head(ready) = Run /\ Run \in Range(ready) /\ commands # <<>>
      /\ RunAgain \in {<<>>, <<Run>>}
      /\ commands' # <<>> <=> RunAgain = <<Run>>
  BY TakenCommand
<1>2. TypeOK /\ ReadyInv /\ OpInv
  BY DEF IInv
<1>3. Run \in Handlers /\ Run \notin Coroutine
  BY Kinds DEF Handlers
<1>4. /\ RunAgain \in Seq(Handlers) /\ IsInjective(RunAgain)
      /\ Range(RunAgain) = IF RunAgain = <<Run>> THEN {Run} ELSE {}
  <2>1. /\ <<>> \in Seq(Handlers) /\ IsInjective(<<>>) /\ Range(<<>>) = {}
        /\ <<Run>> \in Seq(Handlers) /\ IsInjective(<<Run>>) /\ Range(<<Run>>) = {Run}
    BY <1>3 DEF IsInjective, Range
  <2> QED
    BY <1>1, <2>1
<1>5. /\ IsInjective(s) /\ Range(s) \subseteq Coroutine
      /\ \A x \in Range(s) : co[x] = Idle
  <2>1. CASE s = <<>>
    BY <2>1 DEF IsInjective, Range
  <2>2. ASSUME NEW c \in Coroutine, s = <<c>>, co[c] = Idle
        PROVE  IsInjective(s) /\ Range(s) = {c}
    BY <2>2 DEF IsInjective, Range
  <2> QED
    BY <2>1, <2>2
<1> DEFINE q == s \o RunAgain
<1>6. q \in Seq(Handlers) /\ IsInjective(q) /\ Range(q) = Range(s) \cup Range(RunAgain)
  BY <1>3, <1>4, <1>5, JoinedQueue
<1>7. \A x \in Range(q) : x \in Range(ready) => x = Head(ready)
  BY <1>1, <1>2, <1>4, <1>5, <1>6, IdleFacts DEF ReadyInv, Done
<1>8. \A d \in Coroutine :
        co'[d].result \in Done <=> d \in Range(q) \/ (d # Head(ready) /\ co[d].result \in Done)
  BY <1>1, <1>3, <1>4, <1>6
<1>9. commands' # <<>> <=> Run \in Range(q) \/ (Run # Head(ready) /\ commands # <<>>)
  BY <1>1, <1>3, <1>4, <1>5, <1>6
<1>10. ready' = Tail(ready) \o q
  OBVIOUS
<1> HIDE DEF q
<1>11. /\ ReadyInv' /\ ready' \in Seq(Handlers)
       /\ \A a, b : a \in Range(ready) /\ a # Head(ready) /\ Before(ready, a, b)
                      => Before(ready', a, b)
  BY <1>1, <1>2, <1>6, <1>7, <1>8, <1>9, <1>10, StepKeepsReady
<1>12. ASSUME NEW w \in Writer, NEW b, co[w] # Idle, co[w].result # "pending", Before(ready, w, b)
       PROVE  Before(ready', w, b)
  <2>1. w \in Coroutine /\ w # Run
    BY <1>3, Kinds
  <2>2. co[w].result \in Done
    BY <1>2, <1>12, <2>1, SuspendedFacts DEF OpInv
  <2>3. w \in Range(ready)
    BY <1>2, <2>1, <2>2 DEF ReadyInv
  <2> QED
    BY <1>1, <1>11, <1>12, <2>1, <2>3
<1> QED
  BY <1>11, <1>12

\* A command that starts no coroutine, for a transport that stays as it is.
LEMMA NothingStarts ==
  ASSUME IInv, NEW type, TakesCommand(type), ready' = Tail(ready) \o RunAgain, UNCHANGED co
  PROVE  /\ ReadyInv' /\ ready' \in Seq(Handlers)
         /\ \A w \in Writer : \A b : co[w] # Idle /\ co[w].result # "pending" /\ Before(ready, w, b)
                               => Before(ready', w, b)
         /\ commands' \in Seq(Command) /\ Len(commands') <= Capacity + 1
<1>1. RunAgain \in {<<>>, <<Run>>}
  BY TakenCommand
<1>2. <<>> \in Seq(Handlers) /\ RunAgain \in Seq(Handlers) /\ Range(<<>>) = {}
  <2>1. Run \in Handlers
    BY DEF Handlers
  <2>2. <<>> \in Seq(Handlers) /\ <<Run>> \in Seq(Handlers) /\ Range(<<>>) = {}
    BY <2>1 DEF Range
  <2> QED
    BY <1>1, <2>2
<1>3. ready' = Tail(ready) \o (<<>> \o RunAgain)
  BY <1>2, ConcatEmptySeq
<1>4. \A d \in Coroutine : co'[d].result \in Done <=> d \in Range(<<>>) \/ co[d].result \in Done
  BY <1>2
<1>5. /\ ReadyInv' /\ ready' \in Seq(Handlers)
      /\ \A w \in Writer : \A b : co[w] # Idle /\ co[w].result # "pending" /\ Before(ready, w, b)
                            => Before(ready', w, b)
  BY <1>2, <1>3, <1>4, CommandQueue
<1> QED
  BY <1>5, TakenCommand

\* Connect is ignored, Send dropped, or its frame left to the writer there is.
LEMMA PlainCommandKeeps ==
  ASSUME IInv, ConnectIgnored \/ SendDropped \/ SendQueued PROVE IInv'
<1> DEFINE frames == outgoingFrames' = outgoingFrames
                     \/ (outgoingFrames' = Append(outgoingFrames, Head(commands).frame) /\ writerRunning
                         /\ Head(commands).type = "Send")
<1>1. PICK type : /\ TakesCommand(type) /\ ready' = Tail(ready) \o RunAgain /\ frames
                  /\ UNCHANGED <<co, connected, connectionActive, writerRunning, generationCounter,
                                 activeGeneration, currentConfig, clientNonce, socket,
                                 dispatcher, corrupt>>
  BY DEF ConnectIgnored, SendDropped, SendQueued, stateVars, TakesCommand
<1>2. /\ ReadyInv' /\ ready' \in Seq(Handlers)
      /\ \A w \in Writer : \A b : co[w] # Idle /\ co[w].result # "pending" /\ Before(ready, w, b)
                            => Before(ready', w, b)
      /\ commands' \in Seq(Command) /\ Len(commands') <= Capacity + 1
  BY <1>1, NothingStarts
<1>3. TypeOK
  BY DEF IInv
<1>4. /\ outgoingFrames \in Seq(Frame) /\ outgoingFrames' \in Seq(Frame)
      /\ outgoingFrames' = <<>> <=> outgoingFrames = <<>>
      /\ outgoingFrames # <<>> => Head(outgoingFrames') = Head(outgoingFrames)
  <2>1. CASE outgoingFrames' = outgoingFrames
    BY <1>3, <2>1 DEF TypeOK
  <2>2. CASE outgoingFrames' # outgoingFrames
    <3>1. /\ outgoingFrames' = Append(outgoingFrames, Head(commands).frame)
          /\ writerRunning /\ Head(commands).type = "Send"
      BY <1>1, <2>2
    <3>2. outgoingFrames # <<>>
      BY <3>1 DEF IInv, ConnInv, Current, Quiet
    <3>3. Head(commands) \in Command
      BY <1>1, <1>3, TakenCommand DEF TypeOK
    <3>4. Head(commands).frame \in Frame
      BY <3>1, <3>3 DEF Command, Connect, Disconnect, Send
    <3> QED
      BY <1>3, <3>1, <3>2, <3>4 DEF TypeOK
  <2> QED
    BY <2>1, <2>2
<1>5. Newest' = Newest /\ NewestReader' = NewestReader
  BY <1>1 DEF Newest, NewestReader
<1>6. OpInv' /\ PendingOnSocket'
  BY <1>1 DEF IInv, OpInv, OpOf, PendingOnSocket
<1>7. ConnInv'
  BY <1>1, <1>4, <1>5 DEF IInv, ConnInv, Current, Quiet
<1>8. WriterInv'
  <2>1. writerRunning => outgoingFrames # <<>>
    BY DEF IInv, ConnInv, Current, Quiet
  <2> QED
    BY <1>1, <1>2, <1>4, <1>5, <2>1 DEF IInv, WriterInv
<1>9. TypeOK'
  BY <1>1, <1>2, <1>3, <1>4 DEF TypeOK, Handlers
<1> QED
  BY <1>2, <1>6, <1>7, <1>8, <1>9 DEF IInv

\* The connection that has failed before it began.
LEMMA ConnectThrowsKeeps ==
  ASSUME IInv, ConnectThrows PROVE IInv'
<1>1. /\ TakesCommand("Connect") /\ ~connectionActive /\ ready' = Tail(ready) \o RunAgain
      /\ generationCounter < MaxGeneration /\ generationCounter' = generationCounter + 1
      /\ activeGeneration' = generationCounter' + 1
      /\ dispatcher' = Append(dispatcher, Event("Failed", generationCounter', None))
      /\ UNCHANGED <<co, connected, connectionActive, writerRunning, outgoingFrames,
                     currentConfig, clientNonce, socket, corrupt>>
  BY DEF ConnectThrows, Free
<1>2. /\ ReadyInv' /\ ready' \in Seq(Handlers)
      /\ commands' \in Seq(Command) /\ Len(commands') <= Capacity + 1
  BY <1>1, NothingStarts
<1>3. TypeOK /\ Quiet
  BY <1>1 DEF IInv, ConnInv
<1>4. generationCounter \in Nat /\ generationCounter' \in Generation /\ MaxGeneration \in Nat
  BY <1>1, <1>3, BoundsAssumption DEF TypeOK, Generation
<1>5. OpInv'
  BY <1>1, <1>4 DEF IInv, OpInv, OpOf
<1>6. PendingOnSocket'
  BY <1>1 DEF IInv, PendingOnSocket
<1>7. ConnInv' /\ WriterInv'
  <2>1. ConnInv'
    BY <1>1, <1>3, <1>4 DEF ConnInv, Quiet
  <2>2. ~writerRunning /\ ~connectionActive /\ WriterInv
    BY <1>1, <1>3 DEF IInv, Quiet
  <2>3. UNCHANGED <<co, writerRunning, connectionActive>>
    BY <1>1
  <2>4. WriterInv'
    BY <2>2, <2>3 DEF WriterInv
  <2> QED
    BY <2>1, <2>4
<1>8. dispatcher' \in Seq(EventType)
  <2>1. Event("Failed", generationCounter', None) \in EventType
    BY <1>4 DEF Event, EventType
  <2> QED
    BY <1>1, <1>3, <2>1 DEF TypeOK
<1>9. TypeOK'
  <2>1. ready' \in Seq(Coroutine \cup {Run})
    BY <1>2 DEF Handlers
  <2>2. /\ generationCounter' \in 0..MaxGeneration
        /\ activeGeneration' \in {generationCounter', generationCounter' + 1}
    BY <1>1, <1>4 DEF Generation
  <2>3. /\ co' \in [Coroutine -> OpType]
        /\ {connected', connectionActive', writerRunning', corrupt'} \subseteq BOOLEAN
        /\ outgoingFrames' \in Seq(Frame)
        /\ {currentConfig', clientNonce'} \subseteq Generation \cup {None}
        /\ socket' \in 0..MaxGeneration
    BY <1>1, <1>3 DEF TypeOK
  <2> QED
    BY <1>2, <1>8, <2>1, <2>2, <2>3 DEF TypeOK
<1> QED
  BY <1>2, <1>5, <1>6, <1>7, <1>9 DEF IInv

\* Disconnect closes what there is.
LEMMA HandleDisconnectKeeps ==
  ASSUME IInv, HandleDisconnect PROVE IInv'
<1>1. TakesCommand("Disconnect") /\ CloseConnection(FALSE, writerRunning, co) /\ UNCHANGED corrupt
  BY DEF HandleDisconnect
<1>2. PICK aborted \in Aborted(writerRunning) : ready' = Tail(ready) \o (aborted \o RunAgain)
  BY DEF HandleDisconnect
<1>3. /\ ready # <<>> /\ Head(ready) = Run /\ Run \in Handlers
      /\ RunAgain \in {<<>>, <<Run>>}
      /\ commands' # <<>> <=> RunAgain = <<Run>>
      /\ commands' \in Seq(Command) /\ Len(commands') <= Capacity + 1
  BY <1>1, TakenCommand DEF Handlers
<1>4. TypeOK /\ writerRunning \in BOOLEAN
  BY DEF IInv, TypeOK
<1>5. PICK more \in {<<>>, <<Run>>} : more = RunAgain
  BY <1>3
<1>6. ready' = Tail(ready) \o (aborted \o more)
  BY <1>2, <1>5
<1>7. PICK running \in BOOLEAN : running = writerRunning
  BY <1>4
<1>8. PICK cs : cs = co
  OBVIOUS
<1>9. CloseConnection(FALSE, running, cs) /\ aborted \in Aborted(running)
  BY <1>1, <1>2, <1>7, <1>8
<1>10. co' \in [Coroutine -> OpType] /\ OpInv'
  BY <1>3, <1>7, <1>8, <1>9, ClosedCoroutines
<1>11. ReadyInv' /\ ready' \in Seq(Handlers)
  BY <1>3, <1>5, <1>6, <1>7, <1>8, <1>9, ClosedQueue
<1>12. /\ PendingOnSocket' /\ ConnInv' /\ WriterInv'
       /\ {connected, connectionActive, writerRunning}' \subseteq BOOLEAN
       /\ outgoingFrames' \in Seq(Frame)
       /\ UNCHANGED generationCounter
       /\ activeGeneration' \in {generationCounter', generationCounter' + 1}
       /\ {currentConfig, clientNonce}' \subseteq Generation \cup {None}
       /\ socket' \in 0..MaxGeneration
       /\ dispatcher' \in Seq(EventType)
  BY <1>3, <1>7, <1>8, <1>9, ClosedState
<1>13. TypeOK'
  BY <1>1, <1>3, <1>4, <1>10, <1>11, <1>12 DEF TypeOK, Handlers
<1> QED
  BY <1>10, <1>11, <1>12, <1>13 DEF IInv

\* The coroutine a command starts is queued at once if its first operation is over.
LEMMA StartedQueue ==
  ASSUME IInv, NEW type, TakesCommand(type), NEW c \in Coroutine, co[c] = Idle,
         NEW result \in {"pending", "ok", "error"}, co'[c].result = result,
         \A d \in Coroutine : d # c => co'[d] = co[d],
         ready' = Tail(ready) \o ((IF result = "pending" THEN <<>> ELSE <<c>>) \o RunAgain)
  PROVE  /\ ReadyInv' /\ ready' \in Seq(Handlers)
         /\ \A w \in Writer : \A b : co[w] # Idle /\ co[w].result # "pending" /\ Before(ready, w, b)
                               => Before(ready', w, b)
<1> DEFINE s == IF result = "pending" THEN <<>> ELSE <<c>>
<1>1. c \in Handlers
  BY DEF Handlers
<1>2. s \in Seq(Handlers) /\ Range(s) = IF result = "pending" THEN {} ELSE {c}
  <2>1. <<>> \in Seq(Handlers) /\ Range(<<>>) = {} /\ <<c>> \in Seq(Handlers) /\ Range(<<c>>) = {c}
    BY <1>1 DEF Range
  <2> QED
    BY <2>1
<1>3. s = <<>> \/ \E d \in Coroutine : s = <<d>> /\ co[d] = Idle
  OBVIOUS
<1>4. \A d \in Coroutine : co'[d].result \in Done <=> d \in Range(s) \/ co[d].result \in Done
  BY <1>2, IdleFacts DEF Done
<1>5. ready' = Tail(ready) \o (s \o RunAgain)
  OBVIOUS
<1> HIDE DEF s
<1> QED
  BY <1>2, <1>3, <1>4, <1>5, CommandQueue

\* A coroutine of a connection that has not begun yet does not exist.
LEMMA NotBegun ==
  ASSUME IInv, NEW g \in Generation, generationCounter < g
  PROVE  co[<<"connection", g>>] = Idle /\ co[<<"reader", g>>] = Idle
<1>1. generationCounter \in Nat /\ g \in Nat
  BY BoundsAssumption DEF IInv, TypeOK, Generation
<1>2. ASSUME NEW c \in Connection \cup Reader, c[2] = g PROVE co[c] = Idle
  <2>1. c \in Coroutine /\ c \notin Writer
    BY Kinds
  <2>2. ~(g \in 1..generationCounter)
    BY <1>1
  <2> QED
    BY <1>2, <2>1, <2>2 DEF IInv, OpInv, OpOf
<1>3. <<"connection", g>> \in Connection /\ <<"reader", g>> \in Reader
  BY Kinds
<1> QED
  BY <1>2, <1>3

\* A connection begins.
LEMMA ConnectStartsKeeps ==
  ASSUME IInv, NEW result \in {"pending", "ok", "error"}, ConnectStarts(result) PROVE IInv'
<1>0. PICK g, c, op : /\ g = generationCounter + 1 /\ c = <<"connection", g>>
                      /\ op = Op("connect", g, g, result, None)
  OBVIOUS
<1>1. /\ TakesCommand("Connect") /\ ~connectionActive /\ g <= MaxGeneration
      /\ connectionActive' = TRUE /\ generationCounter' = g /\ activeGeneration' = g
      /\ currentConfig' = g /\ socket' = g
      /\ co' = [co EXCEPT ![c] = op]
      /\ ready' = Tail(ready) \o ((IF result = "pending" THEN <<>> ELSE <<c>>) \o RunAgain)
      /\ UNCHANGED <<connected, writerRunning, outgoingFrames, clientNonce, dispatcher, corrupt>>
  BY <1>0 DEF ConnectStarts, Free
<1>2. TypeOK /\ Quiet /\ PendingOnSocket /\ OpInv /\ WriterInv /\ ReadyInv
  BY <1>1 DEF IInv, ConnInv
<1>3. g \in Generation /\ generationCounter \in Nat /\ MaxGeneration \in Nat /\ generationCounter < g
  BY <1>0, <1>1, <1>2, BoundsAssumption DEF TypeOK, Generation
<1>4. /\ co[c] = Idle /\ co[<<"reader", g>>] = Idle /\ c \in Connection /\ c \in Coroutine
      /\ c \notin Writer /\ <<"reader", g>> \in Coroutine /\ <<"reader", g>> # c
  BY <1>0, <1>3, NotBegun, Kinds
<1>5. /\ op.result = result /\ op.on = g /\ op.at = "connect" /\ op.generation = g /\ op.data = None
      /\ op \in OpType
  BY <1>0, <1>3, BoundsAssumption DEF Op, OpType, Generation
<1>6. /\ co'[c] = op /\ (\A d \in Coroutine : d # c => co'[d] = co[d])
      /\ co' \in [Coroutine -> OpType]
  BY <1>1, <1>2, <1>4, <1>5 DEF TypeOK
<1>7. /\ ReadyInv' /\ ready' \in Seq(Handlers)
      /\ \A w \in Writer : \A b : co[w] # Idle /\ co[w].result # "pending" /\ Before(ready, w, b)
                            => Before(ready', w, b)
      /\ commands' \in Seq(Command) /\ Len(commands') <= Capacity + 1
  BY <1>1, <1>4, <1>5, <1>6, StartedQueue, TakenCommand
<1>8. OpInv'
  <2> SUFFICES ASSUME NEW d \in Coroutine, co'[d] # Idle PROVE OpOf(d, co[d])'
    BY DEF OpInv
  <2>1. CASE d = c
    <3>1. op.at \in Steps(c) /\ op.data \in Data(c)
      BY <1>4, <1>5 DEF Steps, Data
    <3>3. op.result \in {"pending"} \cup Results(op.at)
      BY <1>5 DEF Results
    <3>4. op.generation \in 1..generationCounter'
      BY <1>0, <1>1, <1>3, <1>5
    <3>2. op.generation = c[2]
      BY <1>0, <1>5
    <3> QED
      BY <1>5, <1>6, <2>1, <3>1, <3>2, <3>3, <3>4 DEF OpOf
  <2>2. CASE d # c
    <3>1. co'[d] = co[d] /\ OpOf(d, co[d])
      BY <1>2, <1>6, <2>2 DEF OpInv
    <3>2. co[d].generation \in 1..generationCounter'
      BY <1>0, <1>1, <1>3, <3>1 DEF OpOf
    <3> QED
      BY <3>1, <3>2 DEF OpOf
  <2> QED
    BY <2>1, <2>2
<1>9. PendingOnSocket'
  BY <1>1, <1>2, <1>3, <1>5, <1>6 DEF PendingOnSocket, Quiet
<1>10. Newest' = c /\ NewestReader' = <<"reader", g>>
  BY <1>0, <1>1 DEF Newest, NewestReader
<1>11. op # Idle /\ co'[c] = op /\ co'[<<"reader", g>>] = Idle
  BY <1>4, <1>5, <1>6, IdleFacts
<1>12. ConnInv'
  BY <1>1, <1>2, <1>3, <1>10, <1>11 DEF ConnInv, Current, Quiet
<1>13. WriterInv'
  <2>1. \A w \in Writer : co'[w] = co[w]
    BY <1>4, <1>6, Kinds
  <2>3. c \notin Range(ready)
    BY <1>2, <1>4, IdleFacts DEF ReadyInv, Done
  <2>4. \A w : Before(ready, w, c)
    BY <2>3 DEF Before, Range
  <2>5. ASSUME NEW w \in Writer, co[w] # Idle
        PROVE  co[w].result # "pending" /\ Before(ready', w, c)
    <3>1. co[w].result # "pending"
      BY <1>2, <2>5, Kinds DEF PendingOnSocket, Quiet
    <3> QED
      BY <1>7, <2>4, <2>5, <3>1
  <2> QED
    BY <1>1, <1>2, <1>5, <1>10, <1>11, <2>1, <2>5 DEF WriterInv, Quiet
<1>14. TypeOK'
  BY <1>1, <1>2, <1>3, <1>6, <1>7 DEF TypeOK, Handlers, Generation
<1> QED
  BY <1>7, <1>8, <1>9, <1>12, <1>13, <1>14 DEF IInv

\* A write loop begins.
LEMMA SendStartsWriterKeeps ==
  ASSUME IInv, NEW c \in Writer, NEW result \in {"pending", "ok", "error"}, SendStartsWriter(c, result)
  PROVE  IInv'
<1> DEFINE op == Op("write", activeGeneration, socket, result, Head(outgoingFrames'))
<1>1. /\ TakesCommand("Send") /\ connected /\ socket # 0 /\ ~writerRunning
      /\ co[c] = Idle
      /\ outgoingFrames' = Append(outgoingFrames, Head(commands).frame)
      /\ writerRunning' = TRUE
      /\ co' = [co EXCEPT ![c] = op]
      /\ ready' = Tail(ready) \o ((IF result = "pending" THEN <<>> ELSE <<c>>) \o RunAgain)
      /\ UNCHANGED <<connectionActive, connected, generationCounter, activeGeneration,
                     currentConfig, clientNonce, socket, dispatcher, corrupt>>
  BY DEF SendStartsWriter
<1>2. TypeOK /\ Current /\ connectionActive /\ PendingOnSocket /\ OpInv /\ WriterInv /\ ReadyInv
  BY <1>1 DEF IInv, ConnInv, Quiet
<1>3. c \in Coroutine /\ c \notin Connection /\ c \notin Reader
  BY Kinds
<1>4. Head(commands).frame \in Frame /\ Head(commands).type = "Send"
  <2>1. Head(commands).type = "Send" /\ Head(commands) \in Command
    BY <1>1, <1>2, TakenCommand DEF TakesCommand, TypeOK
  <2> QED
    BY <2>1 DEF Command, Connect, Disconnect, Send
<1>5. /\ outgoingFrames = <<>> /\ outgoingFrames' \in Seq(Frame) /\ outgoingFrames' # <<>>
      /\ Head(outgoingFrames') \in Frame
  BY <1>1, <1>2, <1>4 DEF Current, TypeOK
<1>6. /\ generationCounter \in Generation /\ activeGeneration = generationCounter
      /\ socket = generationCounter /\ MaxGeneration \in Nat
  BY <1>2, BoundsAssumption DEF Current, TypeOK, Generation
<1>7. /\ op.result = result /\ op.on = socket /\ op.at = "write" /\ op.generation = activeGeneration
      /\ op.data = Head(outgoingFrames') /\ op \in OpType
  BY <1>5, <1>6, BoundsAssumption DEF Op, OpType, Generation
<1>8. PICK o : o = op
  OBVIOUS
<1> HIDE DEF op
<1>9. /\ co'[c] = o /\ (\A d \in Coroutine : d # c => co'[d] = co[d])
      /\ co' \in [Coroutine -> OpType]
  BY <1>1, <1>2, <1>3, <1>7, <1>8 DEF TypeOK
<1>10. /\ ReadyInv' /\ ready' \in Seq(Handlers)
       /\ commands' \in Seq(Command) /\ Len(commands') <= Capacity + 1
  BY <1>1, <1>3, <1>7, <1>8, <1>9, StartedQueue, TakenCommand
<1>11. OpInv'
  <2> SUFFICES ASSUME NEW d \in Coroutine, co'[d] # Idle PROVE OpOf(d, co[d])'
    BY DEF OpInv
  <2>1. CASE d = c
    BY <1>1, <1>3, <1>5, <1>6, <1>7, <1>8, <1>9, <2>1 DEF OpOf, Steps, Data, Results, Generation
  <2>2. CASE d # c
    BY <1>1, <1>2, <1>9, <2>2 DEF OpOf, OpInv
  <2> QED
    BY <2>1, <2>2
<1>12. PendingOnSocket'
  BY <1>1, <1>2, <1>7, <1>8, <1>9 DEF PendingOnSocket
<1>13. /\ Newest' = Newest /\ NewestReader' = NewestReader
       /\ co'[Newest] = co[Newest] /\ co'[NewestReader] = co[NewestReader]
  <2>1. Newest \in Connection /\ NewestReader \in Reader
    BY <1>6, Kinds DEF Newest, NewestReader
  <2> QED
    BY <1>1, <1>3, <1>9, <2>1, Kinds DEF Newest, NewestReader
<1>14. ConnInv'
  BY <1>1, <1>2, <1>5, <1>13 DEF ConnInv, Current
<1>15. \A w \in Writer : co[w] = Idle
  BY <1>1, <1>2, IdleFacts DEF WriterInv, Current
<1>16. WriterInv'
  <2>1. \A w \in Writer : w # c => co'[w] = Idle
    BY <1>9, <1>15, Kinds
  <2>2. co'[c] # Idle
    BY <1>7, <1>8, <1>9, IdleFacts
  <2> QED
    BY <1>1, <1>7, <1>8, <1>9, <2>1, <2>2 DEF WriterInv
<1>17. TypeOK'
  BY <1>1, <1>2, <1>5, <1>9, <1>10 DEF TypeOK, Handlers
<1> QED
  BY <1>10, <1>11, <1>12, <1>14, <1>16, <1>17 DEF IInv

-----------------------------------------------------------------------------
(***************************************************************************)
(* The fcitx thread, the kernel and the peer.                              *)
(***************************************************************************)
\* A command is queued, and run with it if it was waiting for one.
LEMMA TrySendKeeps ==
  ASSUME IInv, NEW command \in Command, TrySend(command) PROVE IInv'
<1>1. /\ ~ChannelFull /\ commands' = Append(commands, command)
      /\ ready' = IF commands = <<>> THEN Append(ready, Run) ELSE ready
      /\ UNCHANGED <<co, stateVars, corrupt>>
  BY DEF TrySend
<1>2. /\ TypeOK /\ ReadyInv /\ ready \in Seq(Handlers) /\ Run \in Handlers /\ Run \notin Coroutine
      /\ Capacity \in Nat
  BY CapacityAssumption, Kinds DEF IInv, TypeOK, Handlers
<1>3. commands' \in Seq(Command) /\ Len(commands') <= Capacity + 1 /\ commands' # <<>>
  BY <1>1, <1>2 DEF TypeOK, ChannelFull
<1>4. /\ ready' \in Seq(Handlers) /\ IsInjective(ready')
      /\ Range(ready') = Range(ready) \cup {Run}
      /\ \A a, b : Before(ready, a, b) /\ a # Run => Before(ready', a, b)
  <2>1. CASE commands = <<>>
    <3>1. Run \notin Range(ready) /\ IsInjective(ready) /\ ready' = Append(ready, Run)
      BY <1>1, <1>2, <2>1 DEF ReadyInv
    <3> QED
      BY <1>2, <3>1, AppendedQueue
  <2>2. CASE commands # <<>>
    BY <1>1, <1>2, <2>2 DEF ReadyInv
  <2> QED
    BY <2>1, <2>2
<1>5. ReadyInv'
  BY <1>1, <1>2, <1>3, <1>4 DEF ReadyInv
<1>6. OpInv' /\ PendingOnSocket' /\ ConnInv'
  BY <1>1 DEF IInv, stateVars, OpInv, OpOf, PendingOnSocket, ConnInv, Quiet, Current, Newest, NewestReader
<1>7. WriterInv'
  <2>1. \A w \in Writer : w # Run
    BY <1>2, Kinds
  <2>2. Newest' = Newest
    BY <1>1 DEF stateVars, Newest
  <2> QED
    BY <1>1, <1>4, <2>1, <2>2 DEF IInv, WriterInv, stateVars
<1>8. TypeOK'
  BY <1>1, <1>2, <1>3, <1>4 DEF TypeOK, stateVars, Handlers
<1> QED
  BY <1>5, <1>6, <1>7, <1>8 DEF IInv

\* The dispatcher runs a callback.
LEMMA DeliverKeeps == ASSUME IInv, Deliver PROVE IInv'
<1>1. /\ dispatcher # <<>> /\ dispatcher' = Tail(dispatcher)
      /\ UNCHANGED <<commands, ready, co, connected, connectionActive, writerRunning, outgoingFrames,
                     generationCounter, activeGeneration, currentConfig, clientNonce, socket, corrupt>>
  BY DEF Deliver
<1>2. dispatcher' \in Seq(EventType)
  BY <1>1 DEF IInv, TypeOK
<1> QED
  BY <1>1, <1>2 DEF IInv, TypeOK, OpInv, OpOf, PendingOnSocket, ConnInv, Quiet, Current, Newest,
                    NewestReader, WriterInv, ReadyInv

\* An operation is over.
LEMMA CompletesKeeps ==
  ASSUME IInv, NEW c \in Coroutine, NEW result, NEW data \in Inbound \cup {None},
         Completes(c, result, data), UNCHANGED dispatcher
  PROVE  IInv'
<1>1. /\ co[c].result = "pending" /\ result \in Results(co[c].at)
      /\ co' = [co EXCEPT ![c].result = result,
                          ![c].data = IF c \in Reader THEN data ELSE @]
      /\ ready' = Append(ready, c)
      /\ UNCHANGED <<commands, stateVars, corrupt>>
  BY DEF Completes
<1>2. /\ TypeOK /\ ReadyInv /\ OpInv /\ PendingOnSocket /\ ConnInv /\ WriterInv
      /\ ready \in Seq(Handlers) /\ c \in Handlers /\ c # Run
  BY Kinds DEF IInv, TypeOK, Handlers
<1>3. co[c] # Idle /\ OpOf(c, co[c]) /\ co[c] \in OpType
  BY <1>1, <1>2, IdleFacts DEF OpInv, TypeOK
<1>4. result \in Done
  BY <1>1 DEF Results, Done
<1>5. PICK op : /\ op \in OpType
                /\ op.at = co[c].at /\ op.generation = co[c].generation /\ op.on = co[c].on
                /\ op.result = result /\ op.data = (IF c \in Reader THEN data ELSE co[c].data)
                /\ co'[c] = op
  <2>1. co'[c] = [[co[c] EXCEPT !.result = result] EXCEPT !.data = IF c \in Reader THEN data ELSE co[c].data]
    BY <1>1, <1>2, <1>3 DEF TypeOK, OpType
  <2>2. result \in {"none", "pending", "ok", "eof", "error"} /\ data \in Frame \cup Inbound \cup {None}
    BY <1>4 DEF Done
  <2> QED
    BY <1>3, <2>1, <2>2 DEF OpType
<1>6. (\A d \in Coroutine : d # c => co'[d] = co[d]) /\ co' \in [Coroutine -> OpType]
  BY <1>1, <1>2, <1>5 DEF TypeOK
<1>7. op # Idle /\ op.data \in Data(c)
  BY <1>3, <1>4, <1>5, IdleFacts, Kinds DEF Data, OpOf, Done
<1>8. OpInv'
  <2> SUFFICES ASSUME NEW d \in Coroutine, co'[d] # Idle PROVE OpOf(d, co[d])'
    BY DEF OpInv
  <2>1. CASE d = c
    BY <1>1, <1>3, <1>5, <1>7, <2>1 DEF OpOf, stateVars
  <2>2. CASE d # c
    BY <1>1, <1>2, <1>6, <2>2 DEF OpOf, OpInv, stateVars
  <2> QED
    BY <2>1, <2>2
<1>9. \A d \in Coroutine : /\ co'[d] = Idle <=> co[d] = Idle
                           /\ co'[d].on = co[d].on /\ co'[d].at = co[d].at
                           /\ co'[d].generation = co[d].generation
                           /\ co'[d].result = "pending" => co[d].result = "pending"
                           /\ d \notin Reader => co'[d].data = co[d].data
  BY <1>1, <1>3, <1>5, <1>6, <1>7
<1>10. PendingOnSocket'
  BY <1>1, <1>2, <1>9 DEF PendingOnSocket, stateVars
<1>11. Newest' = Newest /\ NewestReader' = NewestReader
  BY <1>1 DEF Newest, NewestReader, stateVars
<1>12. connectionActive => Newest \in Coroutine /\ NewestReader \in Coroutine
  <2>1. connectionActive => generationCounter \in Generation
    BY <1>2 DEF ConnInv, Current, TypeOK, Generation
  <2> QED
    BY <2>1, Kinds DEF Newest, NewestReader
<1>13. ConnInv'
  <2>1. CASE connectionActive
    <3>1. Newest \in Coroutine /\ NewestReader \in Coroutine /\ Current
      BY <1>2, <1>12, <2>1 DEF ConnInv
    <3>2. /\ co'[Newest] = Idle <=> co[Newest] = Idle
          /\ co'[NewestReader] = Idle <=> co[NewestReader] = Idle
          /\ co'[NewestReader].on = co[NewestReader].on
      BY <1>9, <3>1
    <3>3. Current'
      BY <1>1, <1>11, <3>1, <3>2 DEF Current, stateVars
    <3> QED
      BY <1>1, <2>1, <3>3 DEF ConnInv, stateVars
  <2>2. CASE ~connectionActive
    <3>1. Quiet'
      BY <1>1, <1>2, <2>2 DEF ConnInv, Quiet, stateVars
    <3> QED
      BY <1>1, <2>2, <3>1 DEF ConnInv, stateVars
  <2> QED
    BY <2>1, <2>2
<1>14. /\ ready' \in Seq(Handlers) /\ IsInjective(ready') /\ Range(ready') = Range(ready) \cup {c}
       /\ \A a, b : Before(ready, a, b) /\ a # c => Before(ready', a, b)
  <2>1. c \notin Range(ready) /\ IsInjective(ready)
    BY <1>1, <1>2 DEF ReadyInv, Done
  <2> QED
    BY <1>1, <1>2, <2>1, AppendedQueue
<1>15. ReadyInv'
  <2>1. \A d \in Coroutine : co'[d].result \in Done <=> d = c \/ co[d].result \in Done
    BY <1>4, <1>5, <1>6
  <2> QED
    BY <1>1, <1>2, <1>14, <2>1 DEF ReadyInv
<1>16. WriterInv'
  <2>1. \A w \in Writer : w \in Coroutine /\ w \notin Reader
    BY Kinds
  <2>2. ASSUME NEW w \in Writer, co[w] # Idle, ~writerRunning
        PROVE  /\ co'[w].result # "pending"
               /\ connectionActive => co'[Newest].at = "connect" /\ Before(ready', w, Newest)
    <3>1. w \in Coroutine /\ co[w].result # "pending"
          /\ (connectionActive => co[Newest].at = "connect" /\ Before(ready, w, Newest))
      BY <1>2, <2>1, <2>2 DEF WriterInv
    <3>2. co'[w].result # "pending" /\ w # c
      BY <1>1, <1>9, <3>1
    <3>3. ASSUME connectionActive
          PROVE  co'[Newest].at = "connect" /\ Before(ready', w, Newest)
      BY <1>9, <1>12, <1>14, <3>1, <3>2, <3>3
    <3> QED
      BY <3>2, <3>3
  <2>3. \A w \in Writer : /\ co'[w] = Idle <=> co[w] = Idle
                          /\ co'[w].generation = co[w].generation /\ co'[w].data = co[w].data
    BY <1>9, <2>1
  <2>4. UNCHANGED <<writerRunning, connectionActive, activeGeneration, outgoingFrames>>
    BY <1>1 DEF stateVars
  <2> QED
    BY <1>2, <1>11, <2>2, <2>3, <2>4 DEF WriterInv
<1>17. TypeOK'
  BY <1>1, <1>2, <1>6, <1>14 DEF TypeOK, stateVars, Handlers
<1> QED
  BY <1>8, <1>10, <1>13, <1>15, <1>16, <1>17 DEF IInv

\* Nothing has begun.
LEMMA InitHolds == Init => IInv
<1> SUFFICES ASSUME Init PROVE IInv
  OBVIOUS
<1>1. /\ commands = <<>> /\ ready = <<>> /\ dispatcher = <<>> /\ outgoingFrames = <<>>
      /\ \A c \in Coroutine : co[c] = Idle
      /\ co \in [Coroutine -> OpType]
  BY IdleFacts DEF Init
<1>2. TypeOK
  <2>1. /\ commands \in Seq(Command) /\ Len(commands) <= Capacity + 1
        /\ ready \in Seq(Coroutine \cup {Run})
        /\ outgoingFrames \in Seq(Frame) /\ dispatcher \in Seq(EventType)
    BY <1>1, CapacityAssumption
  <2>2. {connected, connectionActive, writerRunning, corrupt} \subseteq BOOLEAN
    BY DEF Init
  <2>3. /\ generationCounter \in 0..MaxGeneration /\ socket \in 0..MaxGeneration
        /\ activeGeneration \in {generationCounter, generationCounter + 1}
        /\ {currentConfig, clientNonce} \subseteq Generation \cup {None}
    BY BoundsAssumption DEF Init
  <2> QED
    BY <1>1, <2>1, <2>2, <2>3 DEF TypeOK
<1>3. OpInv /\ PendingOnSocket /\ WriterInv
  BY <1>1, IdleFacts, Kinds DEF Init, OpInv, PendingOnSocket, WriterInv
<1>4. ConnInv
  BY DEF Init, ConnInv, Quiet
<1>5. ReadyInv
  <2>1. IsInjective(ready) /\ Range(ready) = {}
    BY <1>1 DEF IsInjective, Range
  <2> QED
    BY <1>1, <2>1, IdleFacts DEF ReadyInv, Done
<1> QED
  BY <1>2, <1>3, <1>4, <1>5 DEF IInv

\* Every step keeps the invariant.
LEMMA NextKeeps == IInv /\ [Next]_ioVars => IInv'
<1> SUFFICES ASSUME IInv, [Next]_ioVars PROVE IInv'
  OBVIOUS
<1>1. CASE CallerStep
  <2>1. Connect \in Command /\ Disconnect \in Command /\ \A f \in Frame : Send(f) \in Command
    BY DEF Command
  <2> QED
    BY <1>1, <2>1, TrySendKeeps, DeliverKeeps
    DEF CallerStep, RequestConnect, RequestDisconnect, RequestSend
<1>2. CASE PeerStep
  <2>1. PICK c \in Coroutine, result \in Done, data \in Inbound \cup {None} : Completes(c, result, data)
    BY <1>2 DEF PeerStep, FrameArrives, OperationEnds, TimesOut, Done
  <2>2. UNCHANGED dispatcher
    BY <2>1 DEF Completes, stateVars
  <2> QED
    BY <2>1, <2>2, CompletesKeeps
<1>3. CASE HandleCommand
  BY <1>3, PlainCommandKeeps, ConnectStartsKeeps, ConnectThrowsKeeps, HandleDisconnectKeeps,
     SendStartsWriterKeeps DEF HandleCommand
<1>4. CASE \E c \in Coroutine : CoroutineStep(c)
  BY <1>4, CoroutineKeeps
<1>5. CASE UNCHANGED ioVars
  BY <1>5 DEF ioVars, IInv, TypeOK, OpInv, OpOf, PendingOnSocket, ConnInv, Quiet, Current, Newest,
              NewestReader, WriterInv, ReadyInv
<1> QED
  BY <1>1, <1>2, <1>3, <1>4, <1>5 DEF Next, WorkerStep

-----------------------------------------------------------------------------
(***************************************************************************)
(* The theorems.                                                           *)
(***************************************************************************)
\* The inductive invariant holds in every run of the transport.
THEOREM IoInvariant == Spec => []IInv
  BY InitHolds, NextKeeps, PTL DEF Spec

\* Type correctness of the transport's state, its queues included.
THEOREM TypeCorrect == Spec => []TypeOK
  BY IoInvariant, PTL DEF IInv

\* What is reported as a usable connection has its socket and its read loop.
THEOREM ConnectedHasReader == Spec => []ConnectedIsRead
<1>1. IInv => ConnectedIsRead
  BY DEF IInv, ConnInv, Current, Quiet, NewestReader, ConnectedIsRead
<1> QED
  BY <1>1, IoInvariant, PTL

\* A connection attempt always has the coroutine that will end it.
THEOREM AttemptHasDriver == Spec => []AttemptIsDriven
<1>1. IInv => AttemptIsDriven
  <2> SUFFICES ASSUME IInv, connectionActive, ~connected
               PROVE  \E c \in Connection : co[c] # Idle /\ co[c].generation = generationCounter
    BY DEF AttemptIsDriven
  <2>1. co[Newest] # Idle /\ generationCounter \in Generation
    BY DEF IInv, ConnInv, Current, TypeOK, Generation
  <2>2. Newest \in Connection /\ Newest \in Coroutine /\ Newest \notin Writer
    BY <2>1, Kinds DEF Newest
  <2>3. co[Newest].generation = Newest[2]
    BY <2>1, <2>2 DEF IInv, OpInv, OpOf
  <2> QED
    BY <2>1, <2>2, <2>3 DEF Newest
<1> QED
  BY <1>1, IoInvariant, PTL

\* Every operation in flight is on the open socket.
THEOREM OperationsAreOnSocket == Spec => []PendingOnSocket
  BY IoInvariant, PTL DEF IInv

\* The places of a handler that is queued at most once.
LEMMA PlacesOf ==
  ASSUME NEW s, IsInjective(s), NEW x
  PROVE  Cardinality({i \in DOMAIN s : s[i] = x}) = IF x \in Range(s) THEN 1 ELSE 0
<1>1. CASE x \in Range(s)
  <2>1. PICK i \in DOMAIN s : s[i] = x
    BY <1>1 DEF Range
  <2>2. {j \in DOMAIN s : s[j] = x} = {i}
    BY <2>1 DEF IsInjective
  <2> QED
    BY <1>1, <2>2, FS_Singleton
<1>2. CASE x \notin Range(s)
  <2>1. {j \in DOMAIN s : s[j] = x} = {}
    BY <1>2 DEF Range
  <2> QED
    BY <1>2, <2>1, FS_EmptySet
<1> QED
  BY <1>1, <1>2

\* Each coroutine whose operation is over, and run when it has a command, is in
\* the io_context's queue once, and nothing else is.
THEOREM HandlersAreQueued == Spec => []HandlersMatch
<1>1. ASSUME IInv PROVE HandlersMatch
  <2>1. ReadyInv
    BY <1>1 DEF IInv
  <2>2. ASSUME NEW c \in Coroutine
        PROVE  Cardinality({i \in DOMAIN ready : ready[i] = c})
                 = IF co[c].result \in {"ok", "eof", "error"} THEN 1 ELSE 0
    BY <2>1, PlacesOf DEF ReadyInv, Done
  <2>3. Cardinality({i \in DOMAIN ready : ready[i] = Run}) = IF commands = <<>> THEN 0 ELSE 1
    BY <2>1, PlacesOf DEF ReadyInv
  <2> QED
    BY <2>2, <2>3 DEF HandlersMatch
<1> QED
  BY <1>1, IoInvariant, PTL

\* A queued frame has its one writer, and that one is at the oldest frame; this
\* holds even after undefined behaviour, which changes nothing else here.
THEOREM FramesAreWritten == Spec => []FramesHaveWriter
<1>1. ASSUME IInv PROVE FramesHaveWriter
  <2>1. WriterInv /\ ConnInv
    BY <1>1 DEF IInv
  <2>2. Cardinality({c \in Writer : co[c] # Idle}) <= 1
    <3>1. CASE \E c \in Writer : co[c] # Idle
      <4>1. PICK c \in Writer : co[c] # Idle
        BY <3>1
      <4>2. {d \in Writer : co[d] # Idle} = {c}
        BY <2>1, <4>1 DEF WriterInv
      <4> QED
        BY <4>2, FS_Singleton
    <3>2. CASE \A c \in Writer : co[c] = Idle
      <4>1. {d \in Writer : co[d] # Idle} = {}
        BY <3>2
      <4> QED
        BY <4>1, FS_EmptySet
    <3> QED
      BY <3>1, <3>2
  <2>3. outgoingFrames # <<>> => writerRunning
    BY <2>1 DEF ConnInv, Current, Quiet
  <2>4. writerRunning =>
          \E c \in Writer : co[c].generation = activeGeneration /\ co[c].data = Head(outgoingFrames)
    BY <2>1 DEF WriterInv
  <2> QED
    BY <2>2, <2>3, <2>4 DEF FramesHaveWriter
<1> QED
  BY <1>1, IoInvariant, PTL

\* One event more.
LEMMA AppendTells ==
  ASSUME TypeOK, NEW e, e \in EventType, dispatcher' = Append(dispatcher, e), NEW types, e.type \in types
  PROVE  Tells(types)
  BY DEF TypeOK, Tells

\* The change of a step, as the fcitx thread has to hear of it.
Told ==
  /\ ~connected /\ connected' => Tells({"Authenticated"})
  /\ connected /\ ~connected' => Tells({"Closed", "Failed"})
  /\ connectionActive /\ ~connectionActive' =>
       \/ Head(ready) = Run \/ co[Head(ready)].generation # generationCounter
       \/ Tells({"Closed", "Failed"})

\* Closing is told, unless there was no usable connection and no failure to tell of.
LEMMA ClosingTells ==
  ASSUME IInv, NEW h \in Handlers, NEW cs, NEW running \in BOOLEAN, NEW rf \in BOOLEAN,
         ready # <<>>, Head(ready) = h, running => writerRunning,
         cs = IF h = Run THEN co ELSE Finished(h),
         CloseConnection(rf, running, cs)
  PROVE  connected' = FALSE /\ (connectionActive /\ (rf \/ connected) => Tells({"Closed", "Failed"}))
<1>1. /\ ConnInv' /\ ~connectionActive'
      /\ connectionActive =>
              IF rf \/ connected
              THEN dispatcher' = Append(dispatcher,
                     Event(IF rf THEN "Failed" ELSE "Closed", activeGeneration, None))
              ELSE UNCHANGED dispatcher
  BY ClosedState
<1>2. connected' = FALSE
  <2>1. connected' \in BOOLEAN
    BY ClosedState
  <2> QED
    BY <1>1, <2>1 DEF ConnInv, Quiet
<1>3. ASSUME connectionActive, rf \/ connected PROVE Tells({"Closed", "Failed"})
  <2>1. activeGeneration \in Generation /\ TypeOK
    BY <1>3 DEF IInv, ConnInv, Current, TypeOK, Generation
  <2>2. PICK e : e = Event(IF rf THEN "Failed" ELSE "Closed", activeGeneration, None)
    OBVIOUS
  <2>3. e \in EventType /\ e.type \in {"Closed", "Failed"}
    BY <2>1, <2>2 DEF Event, EventType
  <2>4. dispatcher' = Append(dispatcher, e)
    BY <1>1, <1>3, <2>2
  <2> QED
    BY <2>1, <2>3, <2>4, AppendTells
<1> QED
  BY <1>2, <1>3

\* A coroutine that closes tells, except the reader of an older connection.
LEMMA EndingTells ==
  ASSUME IInv, NEW c \in Coroutine,
         \/ HandshakeFails(c) \/ HandshakeCannotStart(c)
         \/ ReaderFails(c) \/ ReaderReachesEnd(c) \/ WriterFails(c)
         \/ AtFront(c) /\ Closes(c, TRUE)
  PROVE  Told
<1>1. PICK rf \in BOOLEAN : AtFront(c) /\ Closes(c, rf) /\ (rf \/ ReaderReachesEnd(c))
  BY DEF HandshakeFails, HandshakeCannotStart, ReaderFails, ReaderReachesEnd, WriterFails, Resumes
<1>2. /\ co[c] # Idle /\ OpOf(c, co[c]) /\ ready # <<>> /\ Head(ready) = c
      /\ c \in Handlers /\ c # Run
  BY <1>1, FrontIsDone, Kinds DEF Handlers
<1>3. connected' = FALSE /\ (connectionActive /\ (rf \/ connected) => Tells({"Closed", "Failed"}))
  <2>1. PICK running \in BOOLEAN : running = (writerRunning /\ c \notin Writer)
    OBVIOUS
  <2>2. CloseConnection(rf, running, Finished(c)) /\ (running => writerRunning)
    BY <1>1, <2>1 DEF Closes
  <2> QED
    BY <1>2, <2>2, ClosingTells
<1>4. ReaderReachesEnd(c) /\ connectionActive /\ co[c].generation = generationCounter => connected
  <2> SUFFICES ASSUME ReaderReachesEnd(c), connectionActive, co[c].generation = generationCounter
               PROVE  connected
    OBVIOUS
  <2>1. co[c].at = "length"
    BY DEF ReaderReachesEnd, Resumes
  <2>2. c \in Reader
    BY <1>2, <2>1 DEF OpOf, Steps
  <2>3. c = NewestReader
    BY <1>2, <2>2, Kinds DEF OpOf, NewestReader
  <2> QED
    BY <1>2, <2>3 DEF IInv, ConnInv, Current
<1>5. connected => connectionActive
  BY DEF IInv, ConnInv, Quiet
<1> QED
  BY <1>1, <1>2, <1>3, <1>4, <1>5 DEF Told

\* Every step tells what it has to.
LEMMA StepTells == IInv /\ [Next]_ioVars => [Told]_ioVars
<1> SUFFICES ASSUME IInv, Next PROVE Told
  BY DEF ioVars
<1>0. TypeOK
  BY DEF IInv
<1>1. CASE UNCHANGED <<connected, connectionActive>>
  BY <1>1 DEF Told
<1>2. ASSUME NEW c \in Coroutine, HandshakeEnds(c) PROVE Told
  <2> DEFINE g == co[c].generation
  <2>1. AtFront(c) /\ Resumes(c, "hello payload", "ok")
    BY <1>2 DEF HandshakeEnds, Resumes
  <2>2. CASE currentConfig = None \/ clientNonce # g
    BY <1>2, <2>1, <2>2, EndingTells DEF HandshakeEnds
  <2>3. CASE ~(currentConfig = None \/ clientNonce # g) /\ (g # activeGeneration \/ socket = 0)
    BY <1>2, <2>3 DEF HandshakeEnds, Told
  <2>4. CASE ~(currentConfig = None \/ clientNonce # g) /\ ~(g # activeGeneration \/ socket = 0)
    <3>1. /\ connected' = TRUE /\ UNCHANGED connectionActive
          /\ dispatcher' = Append(dispatcher, Event("Authenticated", g, None))
      BY <1>2, <2>4 DEF HandshakeEnds
    <3>2. g \in Generation
      <4>1. OpOf(c, co[c])
        BY <2>1, FrontIsDone
      <4>2. g \in 1..generationCounter
        BY <4>1 DEF OpOf
      <4> QED
        BY <1>0, <4>2, BoundsAssumption DEF TypeOK, Generation
    <3>3. PICK e : e = Event("Authenticated", g, None)
      OBVIOUS
    <3>4. e \in EventType /\ e.type \in {"Authenticated"}
      BY <3>2, <3>3 DEF Event, EventType
    <3>5. Tells({"Authenticated"})
      BY <1>0, <3>1, <3>3, <3>4, AppendTells
    <3> QED
      BY <3>1, <3>5 DEF Told
  <2> QED
    BY <2>2, <2>3, <2>4
<1>3. CASE HandleDisconnect
  <2>1. ready # <<>> /\ Head(ready) = Run /\ Run \in Handlers
    BY <1>3, TakenCommand DEF HandleDisconnect, Handlers
  <2>2. PICK running \in BOOLEAN : running = writerRunning
    BY <1>0 DEF TypeOK
  <2>3. CloseConnection(FALSE, running, co)
    BY <1>3, <2>2 DEF HandleDisconnect
  <2>4. connected' = FALSE /\ (connectionActive /\ connected => Tells({"Closed", "Failed"}))
    BY <2>1, <2>2, <2>3, ClosingTells
  <2>5. connected => connectionActive
    BY DEF IInv, ConnInv, Quiet
  <2> QED
    BY <2>1, <2>4, <2>5 DEF Told
<1>4. CASE \E result \in {"pending", "ok", "error"} : ConnectStarts(result)
  BY <1>4 DEF ConnectStarts, Told
<1>5. CASE HandleCommand
  BY <1>1, <1>3, <1>4, <1>5 DEF HandleCommand, ConnectIgnored, ConnectThrows, SendDropped, SendQueued,
     SendStartsWriter, stateVars
<1>6. ASSUME NEW c \in Coroutine, CoroutineStep(c) PROVE Told
  <2>1. CASE \/ CancelsTimer(c) \/ HandshakeStarts(c) \/ HelloWritten(c) \/ HelloHeaderRead(c)
             \/ TimeoutOfNoConfig(c) \/ LengthRead(c) \/ FrameRead(c)
             \/ FrameWritten(c) \/ PopsNothing(c)
    BY <1>1, <2>1 DEF CancelsTimer, HandshakeStarts, HelloWritten, HelloHeaderRead,
       TimeoutOfNoConfig, LengthRead, FrameRead, FrameWritten, PopsNothing, GoesOn, Corrupts, stateVars
  <2> QED
    BY <1>2, <1>6, <2>1, EndingTells DEF CoroutineStep
<1>7. CASE CallerStep
  BY <1>1, <1>7 DEF CallerStep, RequestConnect, RequestDisconnect, RequestSend, TrySend, Deliver, stateVars
<1>8. CASE PeerStep
  BY <1>1, <1>8 DEF PeerStep, FrameArrives, OperationEnds, TimesOut, Completes, stateVars
<1> QED
  BY <1>5, <1>6, <1>7, <1>8 DEF Next, WorkerStep

\* No change of the connection escapes the fcitx thread.
THEOREM ChangesReachAddon == Spec => ChangesAreTold
<1>1. IInv /\ [Next]_ioVars =>
        [/\ ~connected /\ connected' => Tells({"Authenticated"})
         /\ connected /\ ~connected' => Tells({"Closed", "Failed"})
         /\ connectionActive /\ ~connectionActive' =>
              \/ Head(ready) = Run \/ co[Head(ready)].generation # generationCounter
              \/ Tells({"Closed", "Failed"})]_ioVars
  BY StepTells DEF Told
<1> QED
  BY <1>1, IoInvariant, PTL DEF Spec, ChangesAreTold
=============================================================================
