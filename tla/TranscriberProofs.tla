-------------------------- MODULE TranscriberProofs --------------------------
(***************************************************************************)
(* The safety properties of module Transcriber, for any sessions and any   *)
(* bounds: type correctness, that one session task lives at a time, and    *)
(* that the connection is a Server.                                        *)
(***************************************************************************)
EXTENDS Transcriber, FiniteSetTheorems, SequenceTheorems, TLAPS

-----------------------------------------------------------------------------
(***************************************************************************)
(* Queues.  Of asyncio's callbacks only the tasks are queued at most once. *)
(***************************************************************************)
In(q, x) == \E i \in DOMAIN q : q[i] = x
Once(q, x) == \A i, j \in DOMAIN q : q[i] = x /\ q[j] = x => i = j
Ahead(q, a, b) == \E i, j \in DOMAIN q : i < j /\ q[i] = a /\ q[j] = b
Count(q, x) == Cardinality({i \in DOMAIN q : q[i] = x})

\* There are finitely many places in a queue.
LEMMA FinitePlaces ==
  ASSUME NEW S, NEW q \in Seq(S), NEW x
  PROVE  IsFiniteSet({i \in DOMAIN q : q[i] = x}) /\ Count(q, x) \in Nat
<1>1. DOMAIN q = 1..Len(q) /\ Len(q) \in Nat
  OBVIOUS
<1>2. IsFiniteSet(DOMAIN q)
  BY <1>1, FS_Interval
<1>3. IsFiniteSet({i \in DOMAIN q : q[i] = x})
  BY <1>2, FS_Subset
<1> QED
  BY <1>3, FS_CardinalityType DEF Count

\* What is in a queue that has one more at its end, how often, and what is ahead of
\* what.
LEMMA Appended ==
  ASSUME NEW S, NEW q \in Seq(S), NEW x \in S
  PROVE  LET p == Append(q, x) IN
         /\ p \in Seq(S) /\ p # <<>> /\ Len(p) = Len(q) + 1
         /\ \A t : In(p, t) <=> (In(q, t) \/ t = x)
         /\ \A t : (Once(q, t) /\ (t # x \/ ~In(q, t))) => Once(p, t)
         /\ \A t : Count(p, t) = IF t = x THEN Count(q, t) + 1 ELSE Count(q, t)
         /\ \A a, b : Ahead(q, a, b) => Ahead(p, a, b)
         /\ \A a : In(q, a) => Ahead(p, a, x)
         /\ q # <<>> => Head(p) = Head(q)
<1> DEFINE p == Append(q, x)
           n == Len(q)
<1>1. /\ p \in Seq(S) /\ Len(p) = n + 1 /\ DOMAIN p = 1..n + 1 /\ n \in Nat
      /\ \A i \in 1..n : p[i] = q[i]
      /\ p[n + 1] = x /\ DOMAIN q = 1..n
  OBVIOUS
<1>7. p # <<>> /\ (q # <<>> => Head(p) = Head(q))
  <2>1. q # <<>> => n # 0
    OBVIOUS
  <2> QED
    BY <1>1, <2>1
<1> HIDE DEF p, n
<1>2. \A t : In(p, t) <=> (In(q, t) \/ t = x)
  BY <1>1 DEF In
<1>3. \A t : (Once(q, t) /\ (t # x \/ ~In(q, t))) => Once(p, t)
  BY <1>1 DEF Once, In
<1>4. ASSUME NEW t PROVE Count(p, t) = IF t = x THEN Count(q, t) + 1 ELSE Count(q, t)
  <2>1. CASE t = x
    <3>1. {i \in DOMAIN p : p[i] = t} = {i \in DOMAIN q : q[i] = t} \cup {n + 1}
      BY <1>1, <2>1
    <3>2. n + 1 \notin {i \in DOMAIN q : q[i] = t}
      BY <1>1
    <3>3. IsFiniteSet({i \in DOMAIN q : q[i] = t})
      BY FinitePlaces
    <3>4. Cardinality({i \in DOMAIN q : q[i] = t} \cup {n + 1})
            = Cardinality({i \in DOMAIN q : q[i] = t}) + 1
      BY <3>2, <3>3, FS_AddElement
    <3> QED
      BY <2>1, <3>1, <3>4 DEF Count
  <2>2. CASE t # x
    <3>1. {i \in DOMAIN p : p[i] = t} = {i \in DOMAIN q : q[i] = t}
      BY <1>1, <2>2
    <3> QED
      BY <2>2, <3>1 DEF Count
  <2> QED
    BY <2>1, <2>2
<1>5. \A a, b : Ahead(q, a, b) => Ahead(p, a, b)
  BY <1>1 DEF Ahead
<1>6. ASSUME NEW a, In(q, a) PROVE Ahead(p, a, x)
  <2>1. PICK i \in 1..n : q[i] = a
    BY <1>1, <1>6 DEF In
  <2>2. i \in DOMAIN p /\ n + 1 \in DOMAIN p /\ i < n + 1 /\ p[i] = a /\ p[n + 1] = x
    BY <1>1, <2>1
  <2> QED
    BY <2>2 DEF Ahead
<1> QED
  BY <1>1, <1>2, <1>3, <1>4, <1>5, <1>6, <1>7 DEF p, n

\* The same for a queue that has lost its first.
LEMMA Taken ==
  ASSUME NEW S, NEW q \in Seq(S), q # <<>>
  PROVE  LET p == Tail(q) IN
         /\ p \in Seq(S) /\ Len(q) = Len(p) + 1
         /\ Head(q) \in S /\ In(q, Head(q)) /\ Count(q, Head(q)) # 0
         /\ \A t : Once(q, t) => Once(p, t)
         /\ \A t : In(p, t) => In(q, t)
         /\ \A t : t # Head(q) => (In(p, t) <=> In(q, t))
         /\ Once(q, Head(q)) => ~In(p, Head(q))
         /\ \A t : Count(q, t) = IF t = Head(q) THEN Count(p, t) + 1 ELSE Count(p, t)
         /\ \A a, b : a # Head(q) /\ Ahead(q, a, b) => Ahead(p, a, b)
<1> DEFINE p == Tail(q)
           n == Len(q)
<1>1. /\ p \in Seq(S) /\ Len(p) = n - 1 /\ n \in Nat \ {0} /\ DOMAIN p = 1..n - 1
      /\ DOMAIN q = 1..n /\ Head(q) = q[1] /\ Head(q) \in S
      /\ \A i \in 1..n - 1 : p[i] = q[i + 1]
  OBVIOUS
<1> HIDE DEF p, n
<1>2. \A i \in 2..n : i - 1 \in 1..n - 1 /\ p[i - 1] = q[i]
  BY <1>1
<1>3. \A t : Once(q, t) => Once(p, t)
  <2> SUFFICES ASSUME NEW t, Once(q, t), NEW i \in DOMAIN p, NEW j \in DOMAIN p, p[i] = t, p[j] = t
               PROVE  i = j
    BY DEF Once
  <2>1. i + 1 \in DOMAIN q /\ j + 1 \in DOMAIN q /\ q[i + 1] = t /\ q[j + 1] = t
    BY <1>1
  <2>2. i + 1 = j + 1
    BY <2>1 DEF Once
  <2> QED
    BY <1>1, <2>2
<1>4. \A t : In(p, t) => In(q, t)
  <2> SUFFICES ASSUME NEW t, NEW i \in DOMAIN p, p[i] = t PROVE In(q, t)
    BY DEF In
  <2>1. i + 1 \in DOMAIN q /\ q[i + 1] = t
    BY <1>1
  <2> QED
    BY <2>1 DEF In
<1>5. ASSUME NEW t, t # Head(q), In(q, t) PROVE In(p, t)
  <2>1. PICK i \in 2..n : q[i] = t
    BY <1>1, <1>5 DEF In
  <2> QED
    BY <1>1, <1>2, <2>1 DEF In
<1>6. Once(q, Head(q)) => ~In(p, Head(q))
  <2> SUFFICES ASSUME Once(q, Head(q)), NEW i \in DOMAIN p, p[i] = Head(q) PROVE FALSE
    BY DEF In
  <2>1. i + 1 \in DOMAIN q /\ 1 \in DOMAIN q /\ q[i + 1] = Head(q) /\ q[1] = Head(q)
    BY <1>1
  <2>2. i + 1 = 1
    BY <2>1 DEF Once
  <2> QED
    BY <1>1, <2>2
<1>7. In(q, Head(q))
  BY <1>1 DEF In
<1>8. ASSUME NEW t PROVE Count(q, t) = IF t = Head(q) THEN Count(p, t) + 1 ELSE Count(p, t)
  <2> DEFINE A == {i \in DOMAIN p : p[i] = t}
             B == {i \in DOMAIN q : q[i] = t} \ {1}
             f == [i \in A |-> i + 1]
  <2>1. f \in Bijection(A, B)
    <3>1. f \in [A -> B]
      BY <1>1
    <3>2. \A i, j \in A : f[i] = f[j] => i = j
      BY <1>1
    <3>3. \A k \in B : \E i \in A : f[i] = k
      <4> TAKE k \in B
      <4>1. k \in 2..n /\ k - 1 \in A
        BY <1>1, <1>2
      <4>2. f[k - 1] = k
        BY <4>1
      <4> QED
        BY <4>1, <4>2
    <3> QED
      BY <3>1, <3>2, <3>3 DEF Bijection, Injection, Surjection, IsInjective
  <2>2. IsFiniteSet(A) /\ Cardinality(A) = Count(p, t) /\ Count(p, t) \in Nat
    BY <1>1, FinitePlaces DEF Count
  <2>3. IsFiniteSet(B) /\ Cardinality(B) = Count(p, t)
    BY <2>1, <2>2, FS_Bijection DEF ExistsBijection
  <2>4. CASE t = Head(q)
    <3>1. {i \in DOMAIN q : q[i] = t} = B \cup {1} /\ 1 \notin B
      BY <1>1, <2>4
    <3> QED
      BY <2>3, <2>4, <3>1, FS_AddElement DEF Count
  <2>5. CASE t # Head(q)
    <3>1. {i \in DOMAIN q : q[i] = t} = B
      BY <1>1, <2>5
    <3> QED
      BY <2>3, <2>5, <3>1 DEF Count
  <2> QED
    BY <2>4, <2>5
<1>9. ASSUME NEW a, NEW b, a # Head(q), Ahead(q, a, b) PROVE Ahead(p, a, b)
  <2>1. PICK i \in 1..n, j \in 1..n : i < j /\ q[i] = a /\ q[j] = b
    BY <1>1, <1>9 DEF Ahead
  <2>2. i \in 2..n /\ j \in 2..n
    BY <1>1, <1>9, <2>1
  <2>3. i - 1 \in DOMAIN p /\ j - 1 \in DOMAIN p /\ i - 1 < j - 1 /\ p[i - 1] = a /\ p[j - 1] = b
    BY <1>1, <1>2, <2>1, <2>2
  <2> QED
    BY <2>3 DEF Ahead
<1>10. Count(q, Head(q)) # 0
  <2>1. Count(p, Head(q)) \in Nat
    BY <1>1, FinitePlaces
  <2> QED
    BY <1>8, <2>1
<1> QED
  BY <1>1, <1>3, <1>4, <1>5, <1>6, <1>7, <1>8, <1>9, <1>10 DEF p, n

\* Queues of none and of one behind another.
LEMMA Extended ==
  ASSUME NEW S, NEW q \in Seq(S), NEW x \in S
  PROVE  q \o <<>> = q /\ q \o <<x>> = Append(q, x)
  OBVIOUS

-----------------------------------------------------------------------------
(***************************************************************************)
(* The inductive invariant: what asyncio is about to run (LoopInv), whose  *)
(* task may be alive (SessionInv), the fragments a task has counted        *)
(* (TaskInv), the sessions the client may still start (FreshInv), and that *)
(* the handshake comes first (WireInv).                                    *)
(***************************************************************************)
Tasks == SessionId \cup {Handler, Receive, Lost}

\* Task s waits for nothing but its turn.
Due(s) ==
  Alive(s) /\ (task[s].cancelled \/ task[s].at \in {"created", "woken", "drained", "lost"})

\* The handler that awaits a task is queued exactly when that task is over; a
\* failed write is behind what makes the handler see that the client is gone.
LoopInv ==
  /\ \A t \in SessionId \cup {Handler} : Once(loop, t)
  /\ \A s \in SessionId : In(loop, s) <=> Due(s)
  /\ handler \in {"closing", "done"} => ~In(loop, Handler)
  /\ handler = "running" => loop # <<>> /\ Head(loop) = Handler
  /\ Awaiting => (In(loop, Handler) <=> \A s \in SessionId : ~Alive(s))
  /\ Count(loop, Receive) = Len(sent)
  /\ \A s \in SessionId : task[s].at = "lost" => broken \/ Ahead(loop, Lost, s)
  /\ broken \/ In(loop, Lost) => ~clientOpen

SessionInv ==
  /\ \A s, r \in SessionId : Alive(s) /\ Alive(r) => s = r
  /\ \A s \in SessionId :
       Alive(s) => IF session = None THEN Awaiting /\ task[s].cancelled ELSE s = session
  /\ session # None =>
       /\ ~Awaiting /\ handler # "hello"
       /\ task[session].at # "none" /\ ~task[session].cancelled
       /\ Alive(session) \/ broken

TaskInv ==
  \A s \in SessionId :
    /\ task[s].sequenceNo # 0
    /\ task[s].at = "woken" => task[s].sequenceNo <= MaxSequence
    /\ task[s].at = "none" => ~task[s].cancelled /\ task[s].sequenceNo = 1

FreshInv ==
  \A s \in SessionId :
    /\ In(sent, Start(s)) \/ In(inbox, Start(s)) => task[s].at = "none"
    /\ Once(sent, Start(s)) /\ Once(inbox, Start(s))
    /\ ~(In(sent, Start(s)) /\ In(inbox, Start(s)))

WireInv ==
  /\ \A i \in DOMAIN wire : wire[i].type = "ServerHello" => i = 1
  /\ handler = "hello" => wire = <<>>

IInv == TypeOK /\ LoopInv /\ SessionInv /\ TaskInv /\ FreshInv /\ WireInv

-----------------------------------------------------------------------------
\* The names of what asyncio runs are all different.
LEMMA TaskNames ==
  /\ Handler \notin SessionId /\ Receive \notin SessionId /\ Lost \notin SessionId
  /\ Handler # Receive /\ Handler # Lost /\ Receive # Lost
  /\ Handler \in Tasks /\ Receive \in Tasks /\ Lost \in Tasks
  /\ \A s \in SessionId : s \in Tasks /\ s # Handler /\ s # Receive /\ s # Lost /\ s # None
  BY TasksAssumption, ModesAssumption DEF Handler, Receive, Lost, Tasks

\* What asyncio runs next, and what is left of its queue then.
LEMMA FrontFacts ==
  ASSUME IInv, loop # <<>>
  PROVE  /\ loop \in Seq(Tasks) /\ Tail(loop) \in Seq(Tasks) /\ Head(loop) \in Tasks
         /\ In(loop, Head(loop))
         /\ \A t \in SessionId \cup {Handler} : Once(Tail(loop), t)
         /\ Head(loop) \in SessionId \cup {Handler} => ~In(Tail(loop), Head(loop))
         /\ \A t : t # Head(loop) => (In(Tail(loop), t) <=> In(loop, t))
         /\ \A t : In(Tail(loop), t) => In(loop, t)
         /\ Head(loop) # Receive => Count(Tail(loop), Receive) = Len(sent)
         /\ Head(loop) = Receive => Count(Tail(loop), Receive) = Len(sent) - 1 /\ sent # <<>>
         /\ Head(loop) # Lost =>
              \A s \in SessionId : Ahead(loop, Lost, s) => Ahead(Tail(loop), Lost, s)
         /\ Head(loop) \in SessionId => Due(Head(loop)) /\ (task[Head(loop)].at = "lost" => broken)
<1> DEFINE p == Tail(loop)
           h == Head(loop)
<1>1. loop \in Seq(Tasks) /\ LoopInv /\ sent \in Seq(Message \cup {EndOfInput})
  BY DEF IInv, TypeOK, Tasks
<1>2. /\ p \in Seq(Tasks)
      /\ h \in Tasks /\ In(loop, h) /\ Count(loop, h) # 0
      /\ \A t : Once(loop, t) => Once(p, t)
      /\ \A t : In(p, t) => In(loop, t)
      /\ \A t : t # h => (In(p, t) <=> In(loop, t))
      /\ Once(loop, h) => ~In(p, h)
      /\ \A t : Count(loop, t) = IF t = h THEN Count(p, t) + 1 ELSE Count(p, t)
      /\ \A a, b : a # h /\ Ahead(loop, a, b) => Ahead(p, a, b)
  BY <1>1, Taken
<1>3. Count(p, Receive) \in Nat
  BY <1>2, FinitePlaces
<1>4. h = Receive => sent # <<>>
  BY <1>1, <1>2 DEF LoopInv
<1>5. ASSUME h \in SessionId PROVE Due(h) /\ (task[h].at = "lost" => broken)
  <2>1. Due(h) /\ Once(loop, h)
    BY <1>1, <1>2, <1>5 DEF LoopInv
  <2>2. ASSUME Ahead(loop, Lost, h) PROVE FALSE
    <3>1. PICK i \in DOMAIN loop, j \in DOMAIN loop : i < j /\ loop[j] = h
      BY <2>2 DEF Ahead
    <3>2. 1 \in DOMAIN loop /\ loop[1] = h /\ DOMAIN loop = 1..Len(loop)
      BY <1>1
    <3>3. j = 1
      BY <2>1, <3>1, <3>2 DEF Once
    <3> QED
      BY <1>1, <3>1, <3>2, <3>3
  <2> QED
    BY <1>1, <1>5, <2>1, <2>2 DEF LoopInv
<1> QED
  BY <1>1, <1>2, <1>3, <1>4, <1>5, TaskNames DEF LoopInv

-----------------------------------------------------------------------------
(***************************************************************************)
(* LoopInv and SessionInv under what the steps do to the queue and the     *)
(* tasks.                                                                  *)
(***************************************************************************)
\* A task ends.
LEMMA TaskDoneKeeps ==
  ASSUME IInv, NEW s \in SessionId, loop # <<>>, Head(loop) = s, TaskDone(s),
         UNCHANGED <<handler, sent, broken, clientOpen>>,
         \/ session' = session /\ (session = s => broken)
         \/ session = s /\ session' = None
  PROVE  LoopInv' /\ SessionInv'
<1>1. task \in [SessionId -> TaskType] /\ LoopInv /\ SessionInv
  BY DEF IInv, TypeOK
<1>2. /\ task' = [task EXCEPT ![s].at = "done"]
      /\ task'[s].at = "done" /\ task'[s].cancelled = task[s].cancelled
      /\ \A r \in SessionId : r # s => task'[r] = task[r]
  BY <1>1 DEF TaskDone, TaskType
<1>3. Due(s) /\ Alive(s) /\ s # None
  BY FrontFacts, TaskNames DEF Due
<1> DEFINE p == Tail(loop)
<1>4. /\ p \in Seq(Tasks)
      /\ \A t \in SessionId \cup {Handler} : Once(p, t)
      /\ ~In(p, s) /\ \A t : t # s => (In(p, t) <=> In(loop, t))
      /\ Count(p, Receive) = Len(sent)
      /\ \A r \in SessionId : Ahead(loop, Lost, r) => Ahead(p, Lost, r)
  BY FrontFacts, TaskNames
<1>5. Awaiting' <=> Awaiting
  BY DEF Awaiting
<1>6. loop' = IF Awaiting THEN Append(p, Handler) ELSE p
  <2>1. p \o <<>> = p /\ p \o <<Handler>> = Append(p, Handler)
    BY <1>4, Extended, TaskNames
  <2> QED
    BY <2>1 DEF TaskDone
<1> HIDE DEF p
<1>7. SessionInv'
  BY <1>1, <1>2, <1>3, <1>5 DEF SessionInv, Alive
<1>8. CASE Awaiting
  <2>1. session = None /\ ~In(loop, Handler)
    BY <1>1, <1>3, <1>8 DEF SessionInv, LoopInv
  <2>2. \A r \in SessionId : r # s => ~Alive(r)
    BY <1>1, <1>3 DEF SessionInv
  <2>3. /\ \A t : In(loop', t) <=> (In(p, t) \/ t = Handler)
        /\ \A t : (Once(p, t) /\ (t # Handler \/ ~In(p, t))) => Once(loop', t)
        /\ \A t : Count(loop', t) = IF t = Handler THEN Count(p, t) + 1 ELSE Count(p, t)
        /\ \A a, b : Ahead(p, a, b) => Ahead(loop', a, b)
    BY <1>4, <1>6, <1>8, Appended, TaskNames
  <2>4. handler \notin {"closing", "done", "running"}
    BY <1>8 DEF Awaiting
  <2> QED
    BY <1>1, <1>2, <1>3, <1>4, <1>5, <1>7, <1>8, <2>1, <2>2, <2>3, <2>4, TaskNames
    DEF LoopInv, Alive, Due
<1>9. CASE ~Awaiting
  <2>1. loop' = p /\ handler # "running"
    BY <1>1, <1>6, <1>9, TaskNames DEF LoopInv
  <2> QED
    BY <1>1, <1>2, <1>3, <1>4, <1>5, <1>7, <1>9, <2>1, TaskNames DEF LoopInv, Alive, Due
<1> QED
  BY <1>8, <1>9

\* A task goes to sleep or waits for the client to read.
LEMMA TaskRestsKeeps ==
  ASSUME IInv, NEW s \in SessionId, loop # <<>>, Head(loop) = s, ~task[s].cancelled,
         loop' = Tail(loop), task' \in [SessionId -> TaskType],
         task'[s].at \in {"sleeping", "draining"}, ~task'[s].cancelled,
         \A r \in SessionId : r # s => task'[r] = task[r],
         UNCHANGED <<handler, session, sent, broken, clientOpen>>
  PROVE  LoopInv' /\ SessionInv'
<1>1. task \in [SessionId -> TaskType] /\ LoopInv /\ SessionInv
  BY DEF IInv, TypeOK
<1>3. Due(s) /\ Alive(s) /\ s # None
  BY FrontFacts, TaskNames DEF Due
<1>4. /\ \A t \in SessionId \cup {Handler} : Once(loop', t)
      /\ ~In(loop', s) /\ \A t : t # s => (In(loop', t) <=> In(loop, t))
      /\ Count(loop', Receive) = Len(sent)
      /\ \A r \in SessionId : Ahead(loop, Lost, r) => Ahead(loop', Lost, r)
  BY FrontFacts, TaskNames
<1>5. Awaiting' <=> Awaiting
  BY DEF Awaiting
<1>6. handler # "running"
  BY <1>1, TaskNames DEF LoopInv
<1>7. SessionInv'
  BY <1>1, <1>3, <1>5 DEF SessionInv, Alive
<1>8. LoopInv'
  BY <1>1, <1>3, <1>4, <1>5, <1>6, TaskNames DEF LoopInv, Alive, Due
<1> QED
  BY <1>7, <1>8

\* A task that slept or waited for the client is queued again.
LEMMA TaskRisesKeeps ==
  ASSUME IInv, NEW s \in SessionId, task[s].at \in {"sleeping", "draining"}, ~In(loop, s),
         loop' = Append(loop, s), task' \in [SessionId -> TaskType],
         task'[s].at \in {"woken", "drained"}, task'[s].cancelled = task[s].cancelled,
         \A r \in SessionId : r # s => task'[r] = task[r],
         UNCHANGED <<handler, session, sent, broken, clientOpen>>
  PROVE  LoopInv' /\ SessionInv'
<1>1. task \in [SessionId -> TaskType] /\ LoopInv /\ SessionInv /\ loop \in Seq(Tasks)
  BY DEF IInv, TypeOK, Tasks
<1>2. Alive(s) /\ s # None
  BY TaskNames DEF Alive
<1>3. /\ \A t : In(loop', t) <=> (In(loop, t) \/ t = s)
      /\ \A t : (Once(loop, t) /\ (t # s \/ ~In(loop, t))) => Once(loop', t)
      /\ \A t : Count(loop', t) = IF t = s THEN Count(loop, t) + 1 ELSE Count(loop, t)
      /\ \A a, b : Ahead(loop, a, b) => Ahead(loop', a, b)
      /\ loop' # <<>> /\ (loop # <<>> => Head(loop') = Head(loop))
  BY <1>1, Appended, TaskNames
<1>4. Awaiting' <=> Awaiting
  BY DEF Awaiting
<1>5. SessionInv'
  BY <1>1, <1>2, <1>4 DEF SessionInv, Alive
<1>6. LoopInv'
  BY <1>1, <1>2, <1>3, <1>4, TaskNames DEF LoopInv, Alive, Due
<1> QED
  BY <1>5, <1>6

\* A write in vain: its failure is queued, behind the loss of the connection.
LEMMA WritesInVainKeeps ==
  ASSUME IInv, NEW s \in SessionId, Runs(s, "woken"), ~clientOpen, WritesInVain(s),
         UNCHANGED <<handler, sent, broken, clientOpen>>
  PROVE  LoopInv' /\ SessionInv'
<1>1. /\ task \in [SessionId -> TaskType] /\ LoopInv /\ SessionInv
      /\ loop # <<>> /\ Head(loop) = s /\ task[s].at = "woken" /\ ~task[s].cancelled
  BY DEF IInv, TypeOK, Runs
<1>2. /\ task'[s].at = "lost" /\ task'[s].cancelled = task[s].cancelled
      /\ \A r \in SessionId : r # s => task'[r] = task[r]
      /\ UNCHANGED session
  BY <1>1 DEF WritesInVain, TaskType
<1>3. Alive(s) /\ s # None
  BY <1>1, TaskNames DEF Alive
<1> DEFINE p == Tail(loop)
           q == IF broken \/ In(loop, Lost) THEN p ELSE Append(p, Lost)
<1>4. /\ p \in Seq(Tasks)
      /\ \A t \in SessionId \cup {Handler} : Once(p, t)
      /\ ~In(p, s) /\ \A t : t # s => (In(p, t) <=> In(loop, t))
      /\ Count(p, Receive) = Len(sent)
      /\ \A r \in SessionId : Ahead(loop, Lost, r) => Ahead(p, Lost, r)
  BY <1>1, FrontFacts, TaskNames
<1>5. loop' = Append(q, s)
  <2>1. /\ p \o <<>> = p /\ p \o <<Lost>> = Append(p, Lost)
        /\ p \o <<s>> = Append(p, s) /\ Append(p, Lost) \o <<s>> = Append(Append(p, Lost), s)
    BY <1>4, TaskNames
  <2>2. Scheduled(Lost) <=> In(loop, Lost)
    BY DEF Scheduled, In
  <2> QED
    BY <2>1, <2>2 DEF WritesInVain
<1> HIDE DEF p
<1>6. /\ q \in Seq(Tasks)
      /\ \A t : In(q, t) <=> (In(p, t) \/ (t = Lost /\ ~broken /\ ~In(loop, Lost)))
      /\ \A t \in SessionId \cup {Handler} : Once(q, t)
      /\ Count(q, Receive) = Len(sent)
      /\ \A r \in SessionId : Ahead(p, Lost, r) => Ahead(q, Lost, r)
  <2>1. /\ Append(p, Lost) \in Seq(Tasks)
        /\ \A t : In(Append(p, Lost), t) <=> (In(p, t) \/ t = Lost)
        /\ \A t : (Once(p, t) /\ (t # Lost \/ ~In(p, t))) => Once(Append(p, Lost), t)
        /\ \A t : Count(Append(p, Lost), t) = IF t = Lost THEN Count(p, t) + 1 ELSE Count(p, t)
        /\ \A a, b : Ahead(p, a, b) => Ahead(Append(p, Lost), a, b)
    BY <1>4, Appended, TaskNames
  <2> QED
    BY <1>4, <2>1, TaskNames
<1>7. broken \/ In(q, Lost)
  BY <1>3, <1>4, <1>6, TaskNames
<1> HIDE DEF q
<1>8. /\ \A t : In(loop', t) <=> (In(q, t) \/ t = s)
      /\ \A t : (Once(q, t) /\ (t # s \/ ~In(q, t))) => Once(loop', t)
      /\ \A t : Count(loop', t) = IF t = s THEN Count(q, t) + 1 ELSE Count(q, t)
      /\ \A a, b : Ahead(q, a, b) => Ahead(loop', a, b)
      /\ \A a : In(q, a) => Ahead(loop', a, s)
  BY <1>5, <1>6, Appended, TaskNames
<1>9. (Awaiting' <=> Awaiting) /\ handler # "running"
  BY <1>1, TaskNames DEF Awaiting, LoopInv
<1>10. SessionInv'
  BY <1>1, <1>2, <1>3, <1>9 DEF SessionInv, Alive
<1>11. LoopInv'
  BY <1>1, <1>2, <1>3, <1>4, <1>6, <1>7, <1>8, <1>9, TaskNames DEF LoopInv, Alive, Due
<1> QED
  BY <1>10, <1>11

\* The client sends something, or leaves: data_received is queued.
LEMMA SendsKeeps ==
  ASSUME IInv, NEW m, Sends(m), clientOpen' \in {clientOpen, FALSE},
         UNCHANGED <<handler, session, task, broken>>
  PROVE  LoopInv' /\ SessionInv'
<1>1. LoopInv /\ SessionInv /\ loop \in Seq(Tasks) /\ sent \in Seq(Message \cup {EndOfInput})
  BY DEF IInv, TypeOK, Tasks
<1>2. /\ \A t : In(loop', t) <=> (In(loop, t) \/ t = Receive)
      /\ \A t : (Once(loop, t) /\ (t # Receive \/ ~In(loop, t))) => Once(loop', t)
      /\ \A t : Count(loop', t) = IF t = Receive THEN Count(loop, t) + 1 ELSE Count(loop, t)
      /\ \A a, b : Ahead(loop, a, b) => Ahead(loop', a, b)
      /\ loop' # <<>> /\ (loop # <<>> => Head(loop') = Head(loop))
  BY <1>1, Appended, TaskNames DEF Sends
<1>3. Len(sent') = Len(sent) + 1
  BY <1>1 DEF Sends
<1>4. SessionInv'
  BY <1>1 DEF SessionInv, Alive, Awaiting
<1>5. LoopInv'
  BY <1>1, <1>2, <1>3, TaskNames DEF LoopInv, Alive, Due, Awaiting, Sends
<1> QED
  BY <1>4, <1>5

\* The loss of the connection is noticed: connection_lost is queued.
LEMMA SendingFailsKeeps ==
  ASSUME IInv, SendingFails
  PROVE  LoopInv' /\ SessionInv'
<1>1. /\ LoopInv /\ SessionInv /\ loop \in Seq(Tasks) /\ loop' = Append(loop, Lost) /\ ~clientOpen
      /\ UNCHANGED <<handler, session, task, sent, broken, clientOpen>>
  BY DEF IInv, TypeOK, Tasks, SendingFails, handlerVars, clientVars
<1>2. /\ \A t : In(loop', t) <=> (In(loop, t) \/ t = Lost)
      /\ \A t : (Once(loop, t) /\ (t # Lost \/ ~In(loop, t))) => Once(loop', t)
      /\ \A t : Count(loop', t) = IF t = Lost THEN Count(loop, t) + 1 ELSE Count(loop, t)
      /\ \A a, b : Ahead(loop, a, b) => Ahead(loop', a, b)
      /\ loop' # <<>> /\ (loop # <<>> => Head(loop') = Head(loop))
  BY <1>1, Appended, TaskNames
<1>4. SessionInv'
  BY <1>1 DEF SessionInv, Alive, Awaiting
<1>5. LoopInv'
  BY <1>1, <1>2, TaskNames DEF LoopInv, Alive, Due, Awaiting
<1> QED
  BY <1>4, <1>5

\* The queue behind data_received or connection_lost, with the handler woken.
LEMMA WokenQueue ==
  ASSUME IInv, loop # <<>>, Head(loop) \in {Receive, Lost}, NEW q, q = Tail(loop) \o HandlerWoken
  PROVE  /\ q \in Seq(Tasks)
         /\ \A t \in SessionId \cup {Handler} : Once(q, t)
         /\ \A s \in SessionId : In(q, s) <=> In(loop, s)
         /\ In(q, Handler) <=> (In(loop, Handler) \/ handler \in {"hello", "message"})
         /\ Head(loop) = Receive => Count(q, Receive) = Len(sent) - 1
         /\ Head(loop) = Lost => Count(q, Receive) = Len(sent)
         /\ In(q, Lost) => In(loop, Lost)
         /\ Head(loop) = Receive =>
              \A s \in SessionId : Ahead(loop, Lost, s) => Ahead(q, Lost, s)
<1> DEFINE p == Tail(loop)
<1>1. /\ p \in Seq(Tasks)
      /\ \A t \in SessionId \cup {Handler} : Once(p, t)
      /\ \A t : t # Head(loop) => (In(p, t) <=> In(loop, t))
      /\ \A t : In(p, t) => In(loop, t)
      /\ Head(loop) # Receive => Count(p, Receive) = Len(sent)
      /\ Head(loop) = Receive => Count(p, Receive) = Len(sent) - 1
      /\ Head(loop) # Lost => \A s \in SessionId : Ahead(loop, Lost, s) => Ahead(p, Lost, s)
  BY FrontFacts
<1>2. q = IF handler \in {"hello", "message"} /\ ~In(loop, Handler) THEN Append(p, Handler) ELSE p
  <2>1. p \o <<>> = p /\ p \o <<Handler>> = Append(p, Handler)
    BY <1>1, Extended, TaskNames
  <2>2. Scheduled(Handler) <=> In(loop, Handler)
    BY DEF Scheduled, In
  <2> QED
    BY <2>1, <2>2 DEF HandlerWoken
<1> HIDE DEF p
<1>3. /\ Append(p, Handler) \in Seq(Tasks)
      /\ \A t : In(Append(p, Handler), t) <=> (In(p, t) \/ t = Handler)
      /\ \A t : (Once(p, t) /\ (t # Handler \/ ~In(p, t))) => Once(Append(p, Handler), t)
      /\ \A t : Count(Append(p, Handler), t) = IF t = Handler THEN Count(p, t) + 1 ELSE Count(p, t)
      /\ \A a, b : Ahead(p, a, b) => Ahead(Append(p, Handler), a, b)
  BY <1>1, Appended, TaskNames
<1> QED
  BY <1>1, <1>2, <1>3, TaskNames

\* data_received.
LEMMA ReceivesDataKeeps ==
  ASSUME IInv, ReceivesData
  PROVE  LoopInv' /\ SessionInv'
<1>1. /\ LoopInv /\ SessionInv /\ loop # <<>> /\ Head(loop) = Receive
      /\ sent \in Seq(Message \cup {EndOfInput}) /\ sent' = Tail(sent)
      /\ loop' = Tail(loop) \o HandlerWoken
      /\ UNCHANGED <<handler, session, task, broken, clientOpen>>
  BY DEF IInv, TypeOK, ReceivesData, handlerVars
<1>2. /\ \A t \in SessionId \cup {Handler} : Once(loop', t)
      /\ \A s \in SessionId : In(loop', s) <=> In(loop, s)
      /\ In(loop', Handler) <=> (In(loop, Handler) \/ handler \in {"hello", "message"})
      /\ Count(loop', Receive) = Len(sent) - 1
      /\ In(loop', Lost) => In(loop, Lost)
      /\ \A s \in SessionId : Ahead(loop, Lost, s) => Ahead(loop', Lost, s)
  BY <1>1, WokenQueue
<1>3. Len(sent') = Len(sent) - 1
  BY <1>1, FrontFacts
<1>4. SessionInv'
  BY <1>1 DEF SessionInv, Alive, Awaiting
<1>5. handler # "running"
  BY <1>1, TaskNames DEF LoopInv
<1>6. LoopInv'
  BY <1>1, <1>2, <1>3, <1>5, TaskNames DEF LoopInv, Alive, Due, Awaiting
<1> QED
  BY <1>4, <1>6

\* connection_lost.
LEMMA LosesConnectionKeeps ==
  ASSUME IInv, LosesConnection
  PROVE  LoopInv' /\ SessionInv'
<1> DEFINE failed == {s \in SessionId : Waiting(s)}
           q == Tail(loop) \o HandlerWoken
<1>1. /\ LoopInv /\ SessionInv /\ loop # <<>> /\ Head(loop) = Lost /\ broken' = TRUE
      /\ task \in [SessionId -> TaskType]
      /\ task' = [s \in SessionId |-> IF s \in failed THEN [task[s] EXCEPT !.at = "lost"] ELSE task[s]]
      /\ loop' = q \o IF failed = {} THEN <<>> ELSE <<CHOOSE s \in failed : TRUE>>
      /\ UNCHANGED <<handler, session, sent, clientOpen>>
  BY DEF IInv, TypeOK, LosesConnection, handlerVars, clientVars
<1>2. /\ q \in Seq(Tasks)
      /\ \A t \in SessionId \cup {Handler} : Once(q, t)
      /\ \A s \in SessionId : In(q, s) <=> In(loop, s)
      /\ In(q, Handler) <=> (In(loop, Handler) \/ handler \in {"hello", "message"})
      /\ Count(q, Receive) = Len(sent)
      /\ In(q, Lost) => In(loop, Lost)
  BY <1>1, WokenQueue, TaskNames
<1>3. ~clientOpen /\ handler # "running"
  <2>1. In(loop, Lost)
    BY <1>1, FrontFacts
  <2> QED
    BY <1>1, <2>1, TaskNames DEF LoopInv
<1> HIDE DEF q
<1>4. CASE failed = {}
  <2>1. loop' = q
    BY <1>1, <1>2, <1>4, ConcatEmptySeq
  <2>2. \A s \in SessionId : task'[s] = task[s]
    BY <1>1, <1>4
  <2>3. SessionInv'
    BY <1>1, <2>2 DEF SessionInv, Alive, Awaiting
  <2>4. LoopInv'
    BY <1>1, <1>2, <1>3, <2>1, <2>2, TaskNames DEF LoopInv, Alive, Due, Awaiting
  <2> QED
    BY <2>3, <2>4
<1>5. CASE failed # {}
  <2>1. PICK s \in failed : s = CHOOSE r \in failed : TRUE
    BY <1>5
  <2>2. s \in SessionId /\ task[s].at = "draining" /\ ~task[s].cancelled /\ Alive(s)
    BY <2>1 DEF Waiting, Alive
  <2>3. \A r \in failed : r = s
    BY <1>1, <2>2 DEF SessionInv, Waiting, Alive
  <2>4. /\ task'[s].at = "lost" /\ task'[s].cancelled = task[s].cancelled
        /\ \A r \in SessionId : r # s => task'[r] = task[r]
    BY <1>1, <2>1, <2>2, <2>3 DEF TaskType
  <2>5. loop' = Append(q, s)
    BY <1>1, <1>2, <1>5, <2>1, <2>2, Extended, TaskNames
  <2>6. ~In(loop, s)
    BY <1>1, <2>2 DEF LoopInv, Due
  <2>7. /\ \A t : In(loop', t) <=> (In(q, t) \/ t = s)
        /\ \A t : (Once(q, t) /\ (t # s \/ ~In(q, t))) => Once(loop', t)
        /\ \A t : Count(loop', t) = IF t = s THEN Count(q, t) + 1 ELSE Count(q, t)
    BY <1>2, <2>2, <2>5, Appended, TaskNames
  <2>8. SessionInv'
    BY <1>1, <2>2, <2>4, TaskNames DEF SessionInv, Alive, Awaiting
  <2>9. LoopInv'
    BY <1>1, <1>2, <1>3, <2>2, <2>4, <2>6, <2>7, TaskNames DEF LoopInv, Alive, Due, Awaiting
  <2> QED
    BY <2>8, <2>9
<1> QED
  BY <1>4, <1>5

\* The turn of the handler: it is queued once, and so is gone from the rest.
LEMMA HandlerTurn ==
  ASSUME IInv, HandlerRuns
  PROVE  /\ loop # <<>> /\ Head(loop) = Handler /\ In(loop, Handler)
         /\ loop \in Seq(Tasks) /\ Tail(loop) \in Seq(Tasks)
         /\ \A t \in SessionId \cup {Handler} : Once(Tail(loop), t)
         /\ ~In(Tail(loop), Handler)
         /\ \A t : t # Handler => (In(Tail(loop), t) <=> In(loop, t))
         /\ Count(Tail(loop), Receive) = Len(sent)
         /\ \A s \in SessionId : Ahead(loop, Lost, s) => Ahead(Tail(loop), Lost, s)
         /\ handler \notin {"closing", "done"}
         /\ Awaiting => session = None /\ \A s \in SessionId : ~Alive(s)
         /\ session = None => \A s \in SessionId : ~Alive(s)
<1>1. loop # <<>> /\ Head(loop) = Handler /\ LoopInv /\ SessionInv
  BY DEF HandlerRuns, IInv
<1>2. In(loop, Handler)
  BY <1>1, FrontFacts
<1> QED
  BY <1>1, <1>2, FrontFacts, TaskNames DEF LoopInv, SessionInv

\* The handler goes on to its next message, a session that is over forgotten.
LEMMA ReadsOnKeeps ==
  ASSUME IInv, HandlerRuns, ReadsOn(<<>>), UNCHANGED <<task, sent, broken, clientOpen>>,
         \/ UNCHANGED session
         \/ session # None /\ session' = None /\ ~Alive(session)
  PROVE  LoopInv' /\ SessionInv'
<1>1. LoopInv /\ SessionInv
  BY DEF IInv
<1> DEFINE p == Tail(loop)
<1>2. /\ loop # <<>> /\ Head(loop) = Handler
      /\ loop \in Seq(Tasks) /\ p \in Seq(Tasks)
      /\ \A t \in SessionId \cup {Handler} : Once(p, t)
      /\ \A t : t # Handler => (In(p, t) <=> In(loop, t))
      /\ Count(p, Receive) = Len(sent)
      /\ \A s \in SessionId : Ahead(loop, Lost, s) => Ahead(p, Lost, s)
      /\ Awaiting => session = None /\ \A s \in SessionId : ~Alive(s)
      /\ session = None => \A s \in SessionId : ~Alive(s)
  BY HandlerTurn
<1>3. \/ handler' = "running" /\ loop' = loop
      \/ handler' = "message" /\ loop' = p
  BY <1>2, ConcatEmptySeq DEF ReadsOn
<1>4. ~Awaiting' /\ handler' \notin {"hello", "closing", "done"}
  BY <1>3 DEF Awaiting
<1> HIDE DEF p
<1>5. SessionInv'
  BY <1>1, <1>2, <1>4 DEF SessionInv, Alive
<1>6. LoopInv'
  BY <1>1, <1>2, <1>3, <1>4, TaskNames DEF LoopInv, Alive, Due
<1> QED
  BY <1>5, <1>6

\* The session is forgotten, and its task is cancelled and awaited.
LEMMA ClearsSessionKeeps ==
  ASSUME IInv, HandlerRuns, session # None, Alive(session),
         NEW afterwards \in {"interrupting", "leaving"}, ClearsSession(afterwards),
         UNCHANGED <<sent, broken, clientOpen>>
  PROVE  LoopInv' /\ SessionInv'
<1>1. LoopInv /\ SessionInv /\ task \in [SessionId -> TaskType] /\ session \in SessionId
  BY DEF IInv, TypeOK
<1> DEFINE p == Tail(loop)
<1>2. /\ p \in Seq(Tasks)
      /\ \A t \in SessionId \cup {Handler} : Once(p, t)
      /\ ~In(p, Handler)
      /\ \A t : t # Handler => (In(p, t) <=> In(loop, t))
      /\ Count(p, Receive) = Len(sent)
      /\ \A s \in SessionId : Ahead(loop, Lost, s) => Ahead(p, Lost, s)
  BY HandlerTurn
<1>3. PICK s : s = session
  OBVIOUS
<1>4. /\ session' = None /\ handler' = afterwards
      /\ task'[s].cancelled = TRUE /\ task'[s].at = task[s].at
      /\ \A r \in SessionId : r # s => task'[r] = task[r]
  BY <1>1, <1>3 DEF ClearsSession, TaskType
<1>5. loop' = IF In(loop, s) THEN p ELSE Append(p, s)
  <2>1. p \o <<>> = p /\ p \o <<s>> = Append(p, s)
    BY <1>1, <1>2, <1>3, Extended, TaskNames
  <2>2. Scheduled(s) <=> In(loop, s)
    BY DEF Scheduled, In
  <2> QED
    BY <1>3, <2>1, <2>2 DEF ClearsSession
<1> HIDE DEF p
<1>6. /\ \A t : In(loop', t) <=> (In(p, t) \/ t = s)
      /\ \A t \in SessionId \cup {Handler} : Once(loop', t)
      /\ Count(loop', Receive) = Len(sent)
      /\ \A r \in SessionId : Ahead(p, Lost, r) => Ahead(loop', Lost, r)
  <2>1. /\ \A t : In(Append(p, s), t) <=> (In(p, t) \/ t = s)
        /\ \A t : (Once(p, t) /\ (t # s \/ ~In(p, t))) => Once(Append(p, s), t)
        /\ \A t : Count(Append(p, s), t) = IF t = s THEN Count(p, t) + 1 ELSE Count(p, t)
        /\ \A a, b : Ahead(p, a, b) => Ahead(Append(p, s), a, b)
    BY <1>1, <1>2, <1>3, Appended, TaskNames
  <2> QED
    BY <1>1, <1>2, <1>3, <1>5, <2>1, TaskNames
<1>7. Awaiting' /\ handler' \notin {"hello", "running", "closing", "done"}
  BY <1>4 DEF Awaiting
<1>8. SessionInv'
  BY <1>1, <1>3, <1>4, <1>7 DEF SessionInv, Alive
<1>9. LoopInv'
  BY <1>1, <1>2, <1>3, <1>4, <1>6, <1>7, TaskNames DEF LoopInv, Alive, Due
<1> QED
  BY <1>8, <1>9

\* The handler gives the connection up.
LEMMA GivesUpKeeps ==
  ASSUME IInv, HandlerRuns, GivesUp, UNCHANGED <<sent, clientOpen>>,
         \/ UNCHANGED broken
         \/ handler = "hello" /\ ~broken /\ broken' = ~clientOpen
  PROVE  LoopInv' /\ SessionInv'
<1>1. LoopInv /\ SessionInv /\ {broken, clientOpen} \subseteq BOOLEAN
  BY DEF IInv, TypeOK
<1>2. CASE session # None /\ Alive(session)
  BY <1>1, <1>2, ClearsSessionKeeps DEF GivesUp, SessionInv
<1>3. CASE ~(session # None /\ Alive(session))
  <2> DEFINE p == Tail(loop)
  <2>1. /\ p \in Seq(Tasks)
        /\ \A t \in SessionId \cup {Handler} : Once(p, t)
        /\ ~In(p, Handler)
        /\ \A t : t # Handler => (In(p, t) <=> In(loop, t))
        /\ Count(p, Receive) = Len(sent)
        /\ \A s \in SessionId : Ahead(loop, Lost, s) => Ahead(p, Lost, s)
        /\ session = None => \A s \in SessionId : ~Alive(s)
    BY HandlerTurn
  <2>2. session' = None /\ handler' = "closing" /\ loop' = p /\ UNCHANGED task
    BY <1>3 DEF GivesUp
  <2> HIDE DEF p
  <2>3. \A s \in SessionId : ~Alive(s)
    BY <1>1, <1>3, <2>1 DEF SessionInv
  <2>4. ~Awaiting' /\ handler' \notin {"hello", "running"}
    BY <2>2 DEF Awaiting
  <2>5. SessionInv'
    BY <2>2, <2>3, <2>4 DEF SessionInv, Alive
  <2>6. (broken => broken') /\ (broken' => (broken \/ ~clientOpen))
    BY <1>1
  <2>7. LoopInv'
    BY <1>1, <2>1, <2>2, <2>3, <2>4, <2>6, TaskNames DEF LoopInv, Alive, Due
  <2> QED
    BY <2>5, <2>7
<1> QED
  BY <1>2, <1>3

\* The message the handler reads has been received.
LEMMA ReadFacts ==
  ASSUME IInv, NEW m, Reads(m)
  PROVE  /\ HandlerRuns /\ ~broken /\ inbox # <<>> /\ Head(inbox) = m /\ inbox' = Tail(inbox)
         /\ In(inbox, m) /\ m \in Message \cup {EndOfInput}
         /\ inbox' \in Seq(Message \cup {EndOfInput})
         /\ \A t : In(inbox', t) => In(inbox, t)
         /\ \A t : Once(inbox, t) => Once(inbox', t)
         /\ Once(inbox, m) => ~In(inbox', m)
<1>1. inbox \in Seq(Message \cup {EndOfInput})
  BY DEF IInv, TypeOK
<1> QED
  BY <1>1, Taken DEF Reads

\* A session starts: its task is queued behind the others.
LEMMA StartsSessionKeeps ==
  ASSUME IInv, NEW s \in SessionId, StartsSession(s)
  PROVE  LoopInv' /\ SessionInv'
<1>1. LoopInv /\ SessionInv /\ TaskInv /\ FreshInv /\ task \in [SessionId -> TaskType]
  BY DEF IInv, TypeOK
<1>2. /\ HandlerRuns /\ In(inbox, Start(s)) /\ session = None /\ session' = s
      /\ InSession /\ ReadsOn(<<s>>)
      /\ UNCHANGED <<sent, broken, clientOpen>>
  BY ReadFacts DEF StartsSession, clientVars
<1>3. task[s].at = "none" /\ ~task[s].cancelled
  BY <1>1, <1>2 DEF FreshInv, TaskInv
<1>4. /\ task'[s].at = "created" /\ task'[s].cancelled = task[s].cancelled
      /\ \A r \in SessionId : r # s => task'[r] = task[r]
  BY <1>1 DEF StartsSession, TaskType
<1> DEFINE p == Tail(loop)
<1>5. /\ loop # <<>> /\ Head(loop) = Handler
      /\ loop \in Seq(Tasks) /\ p \in Seq(Tasks)
      /\ \A t \in SessionId \cup {Handler} : Once(p, t)
      /\ \A t : t # Handler => (In(p, t) <=> In(loop, t))
      /\ Count(p, Receive) = Len(sent)
      /\ \A r \in SessionId : Ahead(loop, Lost, r) => Ahead(p, Lost, r)
      /\ \A r \in SessionId : ~Alive(r)
  BY <1>2, HandlerTurn
<1>6. PICK q \in {loop, p} :
        /\ loop' = Append(q, s)
        /\ handler' \in {"running", "message"}
        /\ handler' = "running" => q = loop
  BY <1>2, <1>5, Extended, TaskNames DEF ReadsOn
<1> HIDE DEF p
<1>7. /\ q \in Seq(Tasks)
      /\ \A t \in SessionId \cup {Handler} : Once(q, t)
      /\ \A t : t # Handler => (In(q, t) <=> In(loop, t))
      /\ Count(q, Receive) = Len(sent)
      /\ \A r \in SessionId : Ahead(loop, Lost, r) => Ahead(q, Lost, r)
  BY <1>1, <1>5 DEF LoopInv
<1>8. /\ loop' # <<>> /\ \A t : In(loop', t) <=> (In(q, t) \/ t = s)
      /\ \A t : (Once(q, t) /\ (t # s \/ ~In(q, t))) => Once(loop', t)
      /\ \A t : Count(loop', t) = IF t = s THEN Count(q, t) + 1 ELSE Count(q, t)
      /\ \A a, b : Ahead(q, a, b) => Ahead(loop', a, b)
      /\ q # <<>> => Head(loop') = Head(q)
  BY <1>6, <1>7, Appended, TaskNames
<1>9. ~Awaiting' /\ handler' \notin {"hello", "closing", "done"}
  BY <1>6 DEF Awaiting
<1>10. SessionInv'
  BY <1>1, <1>2, <1>3, <1>4, <1>5, <1>9, TaskNames DEF SessionInv, Alive
<1>11. ~In(loop, s)
  BY <1>1, <1>3 DEF LoopInv, Due, Alive
<1>12. LoopInv'
  BY <1>1, <1>2, <1>3, <1>4, <1>5, <1>6, <1>7, <1>8, <1>9, <1>11, TaskNames DEF LoopInv, Alive, Due
<1> QED
  BY <1>10, <1>12

\* The last step of the handler before the writer is closed, and the closing.
LEMMA LeavingKeeps ==
  ASSUME IInv, LeaveOver \/ Closes
  PROVE  LoopInv' /\ SessionInv'
<1>1. LoopInv /\ SessionInv /\ UNCHANGED <<session, task, sent, broken, clientOpen>>
  BY DEF IInv, LeaveOver, Closes, clientVars
<1>2. CASE LeaveOver
  <2> DEFINE p == Tail(loop)
  <2>1. /\ p \in Seq(Tasks)
        /\ \A t \in SessionId \cup {Handler} : Once(p, t)
        /\ ~In(p, Handler)
        /\ \A t : t # Handler => (In(p, t) <=> In(loop, t))
        /\ Count(p, Receive) = Len(sent)
        /\ \A s \in SessionId : Ahead(loop, Lost, s) => Ahead(p, Lost, s)
        /\ Awaiting => session = None /\ \A s \in SessionId : ~Alive(s)
    BY <1>2, HandlerTurn DEF LeaveOver
  <2>2. loop' = p /\ Awaiting /\ handler' = "closing" /\ ~Awaiting'
    BY <1>2 DEF LeaveOver, Awaiting
  <2> HIDE DEF p
  <2>3. SessionInv'
    BY <1>1, <2>1, <2>2 DEF SessionInv, Alive
  <2>4. LoopInv'
    BY <1>1, <2>1, <2>2, TaskNames DEF LoopInv, Alive, Due
  <2> QED
    BY <2>3, <2>4
<1>3. CASE Closes
  <2>1. UNCHANGED loop /\ handler = "closing" /\ handler' = "done" /\ ~Awaiting /\ ~Awaiting'
    BY <1>3 DEF Closes, Awaiting
  <2>2. SessionInv'
    BY <1>1, <2>1 DEF SessionInv, Alive
  <2>3. LoopInv'
    BY <1>1, <2>1 DEF LoopInv, Alive, Due
  <2> QED
    BY <2>2, <2>3
<1> QED
  BY <1>2, <1>3

\* The steps of the handler.
LEMMA HandlerStepKeeps ==
  ASSUME IInv, HandlerStep
  PROVE  LoopInv' /\ SessionInv'
<1>1. CASE ReadsHello
  <2>1. HandlerRuns /\ ~broken /\ handler = "hello" /\ UNCHANGED <<sent, clientOpen>>
    BY <1>1, ReadFacts DEF ReadsHello, clientVars
  <2>2. CASE clientOpen
    BY <1>1, <2>1, <2>2, ReadsOnKeeps DEF ReadsHello
  <2>3. CASE ~clientOpen
    BY <1>1, <2>1, <2>3, GivesUpKeeps DEF ReadsHello
  <2> QED
    BY <2>2, <2>3
<1>2. CASE RejectsHello
  <2>1. HandlerRuns /\ ~broken /\ UNCHANGED <<sent, clientOpen>>
    BY <1>2, ReadFacts DEF RejectsHello, clientVars
  <2> QED
    BY <1>2, <2>1, GivesUpKeeps DEF RejectsHello
<1>3. ASSUME NEW s \in SessionId, RefusesSession(s) PROVE LoopInv' /\ SessionInv'
  BY <1>3, ReadFacts, GivesUpKeeps DEF RefusesSession, clientVars
<1>4. ASSUME NEW s \in SessionId, IgnoresInterrupt(s) PROVE LoopInv' /\ SessionInv'
  BY <1>4, ReadFacts, ReadsOnKeeps DEF IgnoresInterrupt, clientVars
<1>5. ASSUME NEW s \in SessionId, InterruptsSession(s) PROVE LoopInv' /\ SessionInv'
  <2>1. HandlerRuns /\ session = s /\ session # None /\ UNCHANGED <<sent, broken, clientOpen>>
    BY <1>5, ReadFacts, TaskNames DEF InterruptsSession, clientVars
  <2>2. CASE Alive(s)
    BY <1>5, <2>1, <2>2, ClearsSessionKeeps DEF InterruptsSession
  <2>3. CASE ~Alive(s)
    BY <1>5, <2>1, <2>3, ReadsOnKeeps DEF InterruptsSession
  <2> QED
    BY <2>2, <2>3
<1>6. CASE InterruptOver
  BY <1>6, ReadsOnKeeps DEF InterruptOver, clientVars
<1>7. CASE ReadsUnexpected \/ ReadsEndOfInput \/ ReadsLost
  <2>1. HandlerRuns
    BY <1>7, ReadFacts DEF ReadsUnexpected, ReadsEndOfInput, ReadsLost
  <2>2. GivesUp /\ UNCHANGED <<sent, clientOpen, broken>>
    BY <1>7 DEF ReadsUnexpected, ReadsEndOfInput, ReadsLost, clientVars
  <2> QED
    BY <2>1, <2>2, GivesUpKeeps
<1> QED
  BY <1>1, <1>2, <1>3, <1>4, <1>5, <1>6, <1>7, StartsSessionKeeps, LeavingKeeps DEF HandlerStep

\* What a task in its turn does when its write is over.
LEMMA WrittenKeeps ==
  ASSUME IInv, NEW s \in SessionId, loop # <<>>, Head(loop) = s, ~task[s].cancelled, session = s,
         Written(s), UNCHANGED <<handler, sent, broken, clientOpen>>
  PROVE  LoopInv' /\ SessionInv'
<1>1. CASE mode = "result"
  <2>1. task \in [SessionId -> TaskType]
    BY DEF IInv, TypeOK
  <2>2. /\ task' = [task EXCEPT ![s].at = "sleeping", ![s].sequenceNo = @ + 1]
        /\ loop' = Tail(loop) /\ UNCHANGED session
    BY <1>1 DEF Written
  <2>3. task' \in [SessionId -> TaskType] /\ task'[s].at = "sleeping" /\ ~task'[s].cancelled
    BY <2>1, <2>2 DEF TaskType
  <2>4. \A r \in SessionId : r # s => task'[r] = task[r]
    BY <2>1, <2>2
  <2> QED
    BY <2>2, <2>3, <2>4, TaskRestsKeeps
<1>2. CASE mode # "result"
  BY <1>2, TaskDoneKeeps DEF Written
<1> QED
  BY <1>1, <1>2

\* The steps of a session's task.
LEMMA TaskStepKeeps ==
  ASSUME IInv, NEW s \in SessionId, TaskStep(s)
  PROVE  LoopInv' /\ SessionInv'
<1>1. /\ loop # <<>> /\ Head(loop) = s /\ UNCHANGED <<mode, handler, sent, broken, clientOpen>>
      /\ task \in [SessionId -> TaskType] /\ SessionInv
  BY DEF TaskStep, TaskCancelled, TaskBegins, TaskWakes, TaskDrained, TaskFails, Runs,
         handlerVars, clientVars, IInv, TypeOK
<1>2. Due(s) /\ (task[s].at = "lost" => broken) /\ s # None
  BY <1>1, FrontFacts, TaskNames
<1>3. IF task[s].cancelled THEN session = None ELSE session = s
  BY <1>1, <1>2 DEF SessionInv, Due
<1>4. CASE TaskCancelled(s)
  <2>1. TaskDone(s) /\ UNCHANGED session /\ session # s
    BY <1>2, <1>3, <1>4 DEF TaskCancelled, handlerVars
  <2> QED
    BY <1>1, <2>1, TaskDoneKeeps
<1>5. CASE TaskBegins(s)
  <2>1. /\ ~task[s].cancelled /\ loop' = Tail(loop) /\ UNCHANGED session
        /\ task' = [task EXCEPT ![s].at = "sleeping"]
    BY <1>5 DEF TaskBegins, Runs, handlerVars
  <2>2. /\ task' \in [SessionId -> TaskType] /\ task'[s].at = "sleeping" /\ ~task'[s].cancelled
        /\ \A r \in SessionId : r # s => task'[r] = task[r]
    BY <1>1, <2>1 DEF TaskType
  <2> QED
    BY <1>1, <2>1, <2>2, TaskRestsKeeps
<1>6. CASE TaskWakes(s)
  <2>1. Runs(s, "woken") /\ ~task[s].cancelled /\ session = s
    BY <1>3, <1>6 DEF TaskWakes, Runs
  <2>2. CASE clientOpen /\ Len(wire') <= HighWater
    BY <1>1, <1>6, <2>1, <2>2, WrittenKeeps DEF TaskWakes, Writes
  <2>3. CASE clientOpen /\ ~(Len(wire') <= HighWater)
    <3>1. /\ task' = [task EXCEPT ![s].at = "draining"]
          /\ loop' = Tail(loop) /\ UNCHANGED session
      BY <1>6, <2>1, <2>3 DEF TaskWakes, Writes
    <3>2. /\ task' \in [SessionId -> TaskType] /\ task'[s].at = "draining" /\ ~task'[s].cancelled
          /\ \A r \in SessionId : r # s => task'[r] = task[r]
      BY <1>1, <2>1, <3>1 DEF TaskType
    <3> QED
      BY <1>1, <2>1, <3>1, <3>2, TaskRestsKeeps
  <2>4. CASE ~clientOpen
    BY <1>1, <1>6, <2>1, <2>4, WritesInVainKeeps DEF TaskWakes
  <2> QED
    BY <2>2, <2>3, <2>4
<1>7. CASE TaskDrained(s)
  <2>1. ~task[s].cancelled /\ session = s /\ Written(s)
    BY <1>3, <1>7 DEF TaskDrained, Runs
  <2> QED
    BY <1>1, <2>1, WrittenKeeps
<1>8. CASE TaskFails(s)
  <2>1. TaskDone(s) /\ UNCHANGED session /\ broken
    BY <1>2, <1>8 DEF TaskFails, Runs, handlerVars
  <2> QED
    BY <1>1, <2>1, TaskDoneKeeps
<1> QED
  BY <1>4, <1>5, <1>6, <1>7, <1>8 DEF TaskStep

\* The client reads: the write that waits for that, if one does, goes on.
LEMMA ClientReadsKeeps ==
  ASSUME IInv, ClientReads
  PROVE  LoopInv' /\ SessionInv'
<1> DEFINE drained == {s \in SessionId : Waiting(s) /\ Len(wire') <= HighWater}
<1>1. /\ LoopInv /\ SessionInv /\ task \in [SessionId -> TaskType] /\ loop \in Seq(Tasks)
      /\ task' = [s \in SessionId |->
                    IF s \in drained THEN [task[s] EXCEPT !.at = "drained"] ELSE task[s]]
      /\ loop' = loop \o IF drained = {} THEN <<>> ELSE <<CHOOSE s \in drained : TRUE>>
      /\ UNCHANGED <<handler, session, sent, broken, clientOpen>>
  BY DEF IInv, TypeOK, ClientReads, handlerVars, Tasks
<1>2. CASE drained = {}
  <2>1. loop' = loop /\ task' = task
    BY <1>1, <1>2, ConcatEmptySeq
  <2>2. SessionInv'
    BY <1>1, <2>1 DEF SessionInv, Alive, Awaiting
  <2>3. /\ \A t : (In(loop, t))' <=> In(loop, t)
        /\ \A t : Once(loop, t) => (Once(loop, t))'
        /\ Count(loop, Receive)' = Count(loop, Receive)
        /\ \A s \in SessionId : Ahead(loop, Lost, s) => (Ahead(loop, Lost, s))'
    BY <2>1 DEF In, Once, Count, Ahead
  <2>4. LoopInv'
    BY <1>1, <2>1, <2>3 DEF LoopInv, Alive, Due, Awaiting
  <2> QED
    BY <2>2, <2>4
<1>3. CASE drained # {}
  <2>1. PICK s \in drained : s = CHOOSE r \in drained : TRUE
    BY <1>3
  <2>2. s \in SessionId /\ task[s].at = "draining" /\ ~task[s].cancelled /\ Alive(s)
    BY <2>1 DEF Waiting, Alive
  <2>3. \A r \in drained : r = s
    BY <1>1, <2>2 DEF SessionInv, Waiting, Alive
  <2>4. /\ task' \in [SessionId -> TaskType]
        /\ task'[s].at = "drained" /\ task'[s].cancelled = task[s].cancelled
        /\ \A r \in SessionId : r # s => task'[r] = task[r]
    BY <1>1, <2>1, <2>2, <2>3 DEF TaskType
  <2>5. loop' = Append(loop, s)
    BY <1>1, <1>3, <2>1, <2>2, Extended, TaskNames
  <2>6. ~In(loop, s)
    BY <1>1, <2>2 DEF LoopInv, Due
  <2> QED
    BY <1>1, <2>2, <2>4, <2>5, <2>6, TaskRisesKeeps
<1> QED
  BY <1>2, <1>3

\* Every step keeps the queue and the tasks in order.
LEMMA NextLoop ==
  ASSUME IInv, Next
  PROVE  LoopInv' /\ SessionInv'
<1>1. ASSUME NEW s \in SessionId, SleepEnds(s) PROVE LoopInv' /\ SessionInv'
  <2>1. /\ task[s].at = "sleeping" /\ ~In(loop, s) /\ loop' = Append(loop, s)
        /\ task' = [task EXCEPT ![s].at = "woken"] /\ task \in [SessionId -> TaskType]
        /\ UNCHANGED <<handler, session, sent, broken, clientOpen>>
    BY <1>1 DEF SleepEnds, Scheduled, In, handlerVars, clientVars, IInv, TypeOK
  <2>2. /\ task' \in [SessionId -> TaskType] /\ task'[s].at = "woken"
        /\ task'[s].cancelled = task[s].cancelled
        /\ \A r \in SessionId : r # s => task'[r] = task[r]
    BY <2>1 DEF TaskType
  <2> QED
    BY <2>1, <2>2, TaskRisesKeeps
<1>2. CASE (\E m \in Message : ClientSends(m)) \/ ClientLeaves
  BY <1>2, SendsKeeps DEF ClientSends, ClientLeaves, handlerVars
<1> QED
  BY <1>1, <1>2, HandlerStepKeeps, ReceivesDataKeeps, LosesConnectionKeeps, TaskStepKeeps,
     LeavingKeeps, ClientReadsKeeps, SendingFailsKeeps DEF Next, LoopStep, ClientStep

-----------------------------------------------------------------------------
(***************************************************************************)
(* Type correctness, variable by variable.                                 *)
(***************************************************************************)
\* The handler leaves its queue one of tasks, whichever way its turn ends.
LEMMA HandlerQueue ==
  ASSUME IInv, HandlerStep
  PROVE  /\ loop' \in Seq(Tasks) /\ inbox' \in Seq(Message \cup {EndOfInput})
         /\ UNCHANGED <<mode, clientVars>>
<1>1. /\ loop \in Seq(Tasks) /\ inbox \in Seq(Message \cup {EndOfInput})
      /\ session \in SessionId \cup {None}
      /\ \A s \in SessionId : s \in Tasks
  BY TaskNames DEF IInv, TypeOK, Tasks
<1>2. HandlerRuns
  BY ReadFacts DEF HandlerStep, ReadsHello, RejectsHello, StartsSession, RefusesSession,
     IgnoresInterrupt, InterruptsSession, InterruptOver, LeaveOver, ReadsUnexpected,
     ReadsEndOfInput, ReadsLost
<1>3. loop # <<>> /\ Tail(loop) \in Seq(Tasks)
  BY <1>2, HandlerTurn
<1>4. ASSUME NEW q \in {loop, Tail(loop)} PROVE q \o <<>> \in Seq(Tasks)
  <2>1. q \in Seq(Tasks)
    BY <1>1, <1>3, <1>4
  <2> QED
    BY <2>1
<1>5. ASSUME NEW q \in {loop, Tail(loop)}, NEW s \in SessionId PROVE q \o <<s>> \in Seq(Tasks)
  <2>1. q \in Seq(Tasks) /\ <<s>> \in Seq(Tasks)
    BY <1>1, <1>3, <1>5
  <2> QED
    BY <2>1
<1>6. ASSUME ReadsOn(<<>>) PROVE loop' \in Seq(Tasks)
  BY <1>4, <1>6 DEF ReadsOn
<1>7. ASSUME NEW s \in SessionId, ReadsOn(<<s>>) PROVE loop' \in Seq(Tasks)
  BY <1>5, <1>7 DEF ReadsOn
<1>8. ASSUME NEW where, ClearsSession(where), session # None PROVE loop' \in Seq(Tasks)
  BY <1>1, <1>4, <1>5, <1>8 DEF ClearsSession
<1>9. ASSUME GivesUp PROVE loop' \in Seq(Tasks)
  BY <1>3, <1>8, <1>9 DEF GivesUp
<1>10. ASSUME NEW m, Reads(m) PROVE inbox' \in Seq(Message \cup {EndOfInput})
  BY <1>10, ReadFacts
<1>11. CASE ReadsHello
  BY <1>6, <1>9, <1>10, <1>11 DEF ReadsHello
<1>12. CASE RejectsHello
  BY <1>9, <1>10, <1>12 DEF RejectsHello
<1>13. ASSUME NEW s \in SessionId, StartsSession(s)
       PROVE  loop' \in Seq(Tasks) /\ inbox' \in Seq(Message \cup {EndOfInput}) /\ UNCHANGED <<mode, clientVars>>
  BY <1>7, <1>10, <1>13 DEF StartsSession
<1>14. ASSUME NEW s \in SessionId, RefusesSession(s) \/ IgnoresInterrupt(s)
       PROVE  loop' \in Seq(Tasks) /\ inbox' \in Seq(Message \cup {EndOfInput}) /\ UNCHANGED <<mode, clientVars>>
  BY <1>6, <1>9, <1>10, <1>14 DEF RefusesSession, IgnoresInterrupt
<1>15. ASSUME NEW s \in SessionId, InterruptsSession(s)
       PROVE  loop' \in Seq(Tasks) /\ inbox' \in Seq(Message \cup {EndOfInput}) /\ UNCHANGED <<mode, clientVars>>
  BY <1>6, <1>8, <1>10, <1>15, TaskNames DEF InterruptsSession
<1>16. CASE InterruptOver \/ LeaveOver
  BY <1>1, <1>3, <1>6, <1>16 DEF InterruptOver, LeaveOver
<1>17. CASE ReadsUnexpected
  BY <1>9, <1>10, <1>17 DEF ReadsUnexpected
<1>18. CASE ReadsEndOfInput \/ ReadsLost
  BY <1>1, <1>9, <1>10, <1>18 DEF ReadsEndOfInput, ReadsLost
<1> QED
  BY <1>11, <1>12, <1>13, <1>14, <1>15, <1>16, <1>17, <1>18 DEF HandlerStep

\* The queues hold what they are meant to.
LEMMA NextQueues ==
  ASSUME IInv, Next
  PROVE  /\ loop' \in Seq(Tasks)
         /\ {sent', inbox'} \subseteq Seq(Message \cup {EndOfInput})
<1>1. /\ loop \in Seq(Tasks) /\ {sent, inbox} \subseteq Seq(Message \cup {EndOfInput})
      /\ \A s \in SessionId : s \in Tasks
      /\ Handler \in Tasks /\ Receive \in Tasks /\ Lost \in Tasks
      /\ SessionId \subseteq Tasks
  BY TaskNames DEF IInv, TypeOK, Tasks
<1>2. ASSUME loop # <<>> PROVE Tail(loop) \in Seq(Tasks)
  BY <1>2, FrontFacts
<1>3. HandlerWoken \in Seq(Tasks)
  BY <1>1 DEF HandlerWoken
<1>4. CASE HandlerStep
  BY <1>1, <1>4, HandlerQueue DEF clientVars
<1>5. CASE ReceivesData
  <2>1. loop # <<>> /\ Head(loop) = Receive
    BY <1>5 DEF ReceivesData
  <2>2. sent # <<>>
    BY <2>1, FrontFacts
  <2>3. Head(sent) \in Message \cup {EndOfInput} /\ Tail(sent) \in Seq(Message \cup {EndOfInput})
    BY <1>1, <2>2
  <2>4. Tail(loop) \o HandlerWoken \in Seq(Tasks)
    BY <1>2, <1>3, <2>1
  <2> QED
    BY <1>1, <1>5, <2>3, <2>4 DEF ReceivesData
<1>6. CASE LosesConnection
  <2> DEFINE failed == {s \in SessionId : Waiting(s)}
             behind == IF failed = {} THEN <<>> ELSE <<CHOOSE s \in failed : TRUE>>
  <2>1. behind \in Seq(Tasks)
    <3>1. failed # {} => (CHOOSE s \in failed : TRUE) \in Tasks
      BY <1>1
    <3> HIDE DEF failed
    <3> QED
      BY <3>1
  <2>2. loop # <<>> /\ loop' = Tail(loop) \o HandlerWoken \o behind /\ UNCHANGED <<sent, inbox>>
    BY <1>6 DEF LosesConnection, clientVars
  <2>3. Tail(loop) \o HandlerWoken \in Seq(Tasks)
    BY <1>2, <1>3, <2>2
  <2> HIDE DEF behind
  <2> QED
    BY <1>1, <2>1, <2>2, <2>3
<1>7. ASSUME NEW s \in SessionId, TaskStep(s)
      PROVE  loop' \in Seq(Tasks) /\ UNCHANGED <<sent, inbox>>
  <2>1. loop # <<>> /\ UNCHANGED <<sent, inbox>>
    BY <1>7 DEF TaskStep, TaskCancelled, TaskBegins, TaskWakes, TaskDrained, TaskFails, Runs,
       clientVars
  <2>2. Tail(loop) \in Seq(Tasks)
    BY <1>2, <2>1
  <2>3. ASSUME TaskDone(s) PROVE loop' \in Seq(Tasks)
    BY <1>1, <2>2, <2>3 DEF TaskDone
  <2>4. ASSUME Written(s) PROVE loop' \in Seq(Tasks)
    BY <2>2, <2>3, <2>4 DEF Written
  <2>5. ASSUME WritesInVain(s) PROVE loop' \in Seq(Tasks)
    BY <1>1, <2>2, <2>5 DEF WritesInVain
  <2>6. ASSUME Writes(s) PROVE loop' \in Seq(Tasks)
    BY <2>2, <2>4, <2>6 DEF Writes
  <2> QED
    BY <1>7, <2>1, <2>2, <2>3, <2>4, <2>5, <2>6
    DEF TaskStep, TaskCancelled, TaskBegins, TaskWakes, TaskDrained, TaskFails
<1>8. CASE Closes \/ SendingFails \/ \E s \in SessionId : SleepEnds(s)
  BY <1>1, <1>8 DEF Closes, SendingFails, SleepEnds, clientVars
<1>9. CASE (\E m \in Message : ClientSends(m)) \/ ClientLeaves
  <2>1. UNCHANGED inbox /\ \E m \in Message \cup {EndOfInput} : Sends(m)
    BY <1>9 DEF ClientSends, ClientLeaves
  <2> QED
    BY <1>1, <2>1 DEF Sends
<1>10. CASE ClientReads
  <2> DEFINE drained == {s \in SessionId : Waiting(s) /\ Len(wire') <= HighWater}
             behind == IF drained = {} THEN <<>> ELSE <<CHOOSE s \in drained : TRUE>>
  <2>1. behind \in Seq(Tasks)
    <3>1. drained # {} => (CHOOSE s \in drained : TRUE) \in Tasks
      BY <1>1
    <3> HIDE DEF drained
    <3> QED
      BY <3>1
  <2>2. loop' = loop \o behind /\ UNCHANGED <<sent, inbox>>
    BY <1>10 DEF ClientReads
  <2> HIDE DEF behind
  <2> QED
    BY <1>1, <2>1, <2>2
<1> QED
  BY <1>1, <1>4, <1>5, <1>6, <1>7, <1>8, <1>9, <1>10 DEF Next, LoopStep, ClientStep

\* What the tasks, the session and the counts are.
LEMMA NextTask ==
  ASSUME IInv, Next
  PROVE  task' \in [SessionId -> TaskType] /\ TaskInv'
<1>1. /\ task \in [SessionId -> TaskType] /\ TaskInv /\ SessionInv
      /\ session \in SessionId \cup {None}
  BY DEF IInv, TypeOK
<1>2. CASE UNCHANGED task
  BY <1>1, <1>2 DEF TaskInv
<1>3. ASSUME NEW s \in SessionId, task[s].at # "none", task' = [task EXCEPT ![s].cancelled = TRUE]
      PROVE  task' \in [SessionId -> TaskType] /\ TaskInv'
  <2>1. /\ task' \in [SessionId -> TaskType] /\ task'[s].at # "none"
        /\ task'[s].at = task[s].at /\ task'[s].sequenceNo = task[s].sequenceNo
        /\ \A r \in SessionId : r # s => task'[r] = task[r]
    BY <1>1, <1>3 DEF TaskType
  <2> QED
    BY <1>1, <2>1 DEF TaskInv
<1>4. ASSUME NEW s \in SessionId, task' \in [SessionId -> TaskType],
             task'[s].at \notin {"none", "woken"}, task'[s].sequenceNo # 0,
             \A r \in SessionId : r # s => task'[r] = task[r]
      PROVE  TaskInv'
  BY <1>1, <1>4 DEF TaskInv
<1>5. ASSUME NEW s \in SessionId,
             NEW at \in {"created", "sleeping", "draining", "drained", "lost", "done"},
             task' = [task EXCEPT ![s].at = at]
      PROVE  task' \in [SessionId -> TaskType] /\ TaskInv'
  <2>1. /\ task' \in [SessionId -> TaskType] /\ task'[s].at = at
        /\ task'[s].sequenceNo = task[s].sequenceNo
        /\ \A r \in SessionId : r # s => task'[r] = task[r]
    BY <1>1, <1>5 DEF TaskType
  <2> QED
    BY <1>1, <1>4, <2>1 DEF TaskInv
<1>6. CASE HandlerStep
  <2>1. ASSUME NEW where, session # None, ClearsSession(where)
        PROVE  task' \in [SessionId -> TaskType] /\ TaskInv'
    BY <1>1, <1>3, <2>1 DEF ClearsSession, SessionInv
  <2>2. ASSUME GivesUp PROVE task' \in [SessionId -> TaskType] /\ TaskInv'
    BY <1>2, <2>1, <2>2 DEF GivesUp
  <2> QED
    BY <1>2, <1>5, <1>6, <2>1, <2>2, TaskNames
    DEF HandlerStep, ReadsHello, RejectsHello, StartsSession, RefusesSession,
        IgnoresInterrupt, InterruptsSession, InterruptOver, LeaveOver, ReadsUnexpected,
        ReadsEndOfInput, ReadsLost
<1>7. ASSUME NEW s \in SessionId, TaskStep(s)
      PROVE  task' \in [SessionId -> TaskType] /\ TaskInv'
  <2>1. ASSUME task' = [task EXCEPT ![s].at = "sleeping", ![s].sequenceNo = @ + 1]
        PROVE  task' \in [SessionId -> TaskType] /\ TaskInv'
    <3>1. /\ task' \in [SessionId -> TaskType] /\ task'[s].at = "sleeping"
          /\ task'[s].sequenceNo # 0
      BY <1>1, <2>1 DEF TaskType
    <3>2. \A r \in SessionId : r # s => task'[r] = task[r]
      BY <1>1, <2>1
    <3> QED
      BY <1>4, <3>1, <3>2
  <2> QED
    BY <1>2, <1>5, <1>7, <2>1
    DEF TaskStep, TaskCancelled, TaskBegins, TaskWakes, TaskDrained, TaskFails, TaskDone,
        Writes, Written, WritesInVain
<1>8. ASSUME NEW failed \in SUBSET SessionId, NEW at \in {"drained", "lost"},
             task' = [s \in SessionId |->
                        IF s \in failed THEN [task[s] EXCEPT !.at = at] ELSE task[s]]
      PROVE  task' \in [SessionId -> TaskType] /\ TaskInv'
  <2>1. /\ task' \in [SessionId -> TaskType]
        /\ \A s \in SessionId : /\ task'[s].sequenceNo = task[s].sequenceNo
                                /\ task'[s] = task[s] \/ task'[s].at = at
    BY <1>1, <1>8 DEF TaskType
  <2> QED
    BY <1>1, <2>1 DEF TaskInv
<1>9. CASE LosesConnection
  BY <1>8, <1>9 DEF LosesConnection
<1>10. CASE ClientReads
  BY <1>8, <1>10 DEF ClientReads
<1>11. ASSUME NEW s \in SessionId, SleepEnds(s)
       PROVE  task' \in [SessionId -> TaskType] /\ TaskInv'
  <2>1. /\ task' \in [SessionId -> TaskType] /\ task'[s].at = "woken"
        /\ task'[s].sequenceNo = task[s].sequenceNo /\ task[s].sequenceNo <= MaxSequence
        /\ \A r \in SessionId : r # s => task'[r] = task[r]
    BY <1>1, <1>11 DEF TaskType, SleepEnds
  <2> QED
    BY <1>1, <2>1 DEF TaskInv
<1> QED
  BY <1>2, <1>6, <1>7, <1>9, <1>10, <1>11
  DEF Next, LoopStep, ClientStep, ReceivesData, Closes, SendingFails, ClientSends, ClientLeaves

\* What the variables of one value are.
LEMMA NextNames ==
  ASSUME IInv, Next
  PROVE  /\ mode' \in Modes
         /\ handler' \in {"hello", "message", "running", "interrupting", "leaving", "closing", "done"}
         /\ {session', believed'} \subseteq SessionId \cup {None}
         /\ {broken', clientOpen', polite', refused'} \subseteq BOOLEAN
<1>1. /\ mode \in Modes
      /\ handler \in {"hello", "message", "running", "interrupting", "leaving", "closing", "done"}
      /\ {session, believed} \subseteq SessionId \cup {None}
      /\ {broken, clientOpen, polite, refused} \subseteq BOOLEAN
  BY DEF IInv, TypeOK
<1>2. CASE HandlerStep
  <2>1. UNCHANGED <<mode, clientVars>>
    BY <1>2, HandlerQueue
  <2>2. ASSUME NEW where \in {"interrupting", "leaving"}, ClearsSession(where)
        PROVE  handler' = where /\ session' = None
    BY <2>2 DEF ClearsSession
  <2>3. ASSUME GivesUp PROVE handler' \in {"leaving", "closing"} /\ session' = None
    BY <2>2, <2>3 DEF GivesUp
  <2>4. ASSUME NEW woken, ReadsOn(woken) PROVE handler' \in {"running", "message"}
    BY <2>4 DEF ReadsOn
  <2>5. /\ handler' \in {"running", "message", "interrupting", "leaving", "closing"}
        /\ session' \in SessionId \cup {None}
    BY <1>1, <1>2, <2>2, <2>3, <2>4
    DEF HandlerStep, ReadsHello, RejectsHello, StartsSession, RefusesSession,
        IgnoresInterrupt, InterruptsSession, InterruptOver, LeaveOver, ReadsUnexpected,
        ReadsEndOfInput, ReadsLost
  <2>6. /\ broken' \in {broken, TRUE, ~clientOpen}
        /\ refused' \in {refused, TRUE}
    BY <1>2
    DEF HandlerStep, ReadsHello, RejectsHello, StartsSession, RefusesSession,
        IgnoresInterrupt, InterruptsSession, InterruptOver, LeaveOver, ReadsUnexpected,
        ReadsEndOfInput, ReadsLost
  <2> QED
    BY <1>1, <2>1, <2>5, <2>6 DEF clientVars
<1>3. ASSUME NEW s \in SessionId, TaskStep(s)
      PROVE  /\ session' \in {session, None}
             /\ UNCHANGED <<mode, handler, broken, clientVars, refused>>
  BY <1>3 DEF TaskStep, TaskCancelled, TaskBegins, TaskWakes, TaskDrained, TaskFails,
     Writes, Written, WritesInVain, handlerVars
<1>4. CASE ReceivesData \/ LosesConnection \/ Closes \/ SendingFails \/ \E s \in SessionId : SleepEnds(s)
  BY <1>1, <1>4 DEF ReceivesData, LosesConnection, Closes, SendingFails, SleepEnds, handlerVars, clientVars
<1>5. ASSUME NEW m \in Message, ClientSends(m)
      PROVE  /\ believed' \in SessionId \cup {None} /\ polite' \in BOOLEAN
             /\ UNCHANGED <<handlerVars, broken, clientOpen, refused>>
  <2>1. m.type = "StartSession" => m.session \in SessionId
    BY DEF Message, Hello, Start, Interrupt, Unexpected
  <2> QED
    BY <1>1, <1>5, <2>1 DEF ClientSends
<1>6. CASE ClientReads \/ ClientLeaves
  BY <1>1, <1>6 DEF ClientReads, ClientLeaves, handlerVars
<1> QED
  BY <1>1, <1>2, <1>3, <1>4, <1>5, <1>6 DEF Next, LoopStep, ClientStep, handlerVars, clientVars

\* The handshake is written first, and then what the sessions' tasks say.
LEMMA NextWire ==
  ASSUME IInv, Next
  PROVE  /\ wire' \in Seq({ServerHello(accepted) : accepted \in BOOLEAN}
                            \cup {Ended(s) : s \in SessionId}
                            \cup {Fragment(s, n) : s \in SessionId, n \in 1..MaxSequence})
         /\ WireInv'
<1> DEFINE Hellos == {ServerHello(accepted) : accepted \in BOOLEAN}
           Says == {Ended(s) : s \in SessionId}
                     \cup {Fragment(s, n) : s \in SessionId, n \in 1..MaxSequence}
           W == Hellos \cup Says
<1>1. wire \in Seq(W) /\ WireInv
  BY DEF IInv, TypeOK
<1>2. \A m \in Says : m.type # "ServerHello"
  BY DEF Ended, Fragment
<1>3. W = Hellos \cup {Ended(s) : s \in SessionId}
                  \cup {Fragment(s, n) : s \in SessionId, n \in 1..MaxSequence}
  OBVIOUS
<1>4. ASSUME NEW m \in Says, wire' = Append(wire, m), handler # "hello", UNCHANGED handler
      PROVE  wire' \in Seq(W) /\ WireInv'
  <2>1. /\ wire' \in Seq(W) /\ DOMAIN wire' = DOMAIN wire \cup {Len(wire) + 1}
        /\ \A i \in DOMAIN wire : wire'[i] = wire[i]
        /\ wire'[Len(wire) + 1] = m /\ Len(wire) + 1 \notin DOMAIN wire
    BY <1>1, <1>4
  <2> QED
    BY <1>1, <1>2, <1>4, <2>1 DEF WireInv
<1>5. CASE ReadsHello \/ RejectsHello
  <2>1. handler = "hello" /\ handler' # "hello"
    BY <1>5 DEF ReadsHello, RejectsHello, ReadsOn, GivesUp, ClearsSession
  <2>2. PICK m \in Hellos : wire' \in {wire, Append(wire, m)}
    BY <1>5 DEF ReadsHello, RejectsHello
  <2>3. wire = <<>>
    BY <1>1, <2>1 DEF WireInv
  <2>4. m \in W /\ (wire' = <<>> \/ wire' = <<m>>)
    BY <2>2, <2>3
  <2> HIDE DEF W, Hellos
  <2>5. wire' \in Seq(W) /\ \A i \in DOMAIN wire' : i = 1
    <3>1. <<>> \in Seq(W) /\ DOMAIN <<>> = {}
      OBVIOUS
    <3>2. <<m>> \in Seq(W) /\ DOMAIN <<m>> = {1}
      BY <2>4
    <3> QED
      BY <2>4, <3>1, <3>2
  <2>6. wire' \in Seq(W)
    BY <2>5
  <2>7. WireInv'
    BY <2>1, <2>5 DEF WireInv
  <2> QED
    BY <2>6, <2>7 DEF W, Hellos
<1>6. CASE ClientReads
  <2>1. wire # <<>> /\ wire' = Tail(wire) /\ UNCHANGED handler
    BY <1>6 DEF ClientReads, handlerVars
  <2>2. handler # "hello" /\ \A i \in 2..Len(wire) : wire[i].type # "ServerHello"
    BY <1>1, <2>1 DEF WireInv
  <2>3. /\ wire' \in Seq(W) /\ DOMAIN wire' = 1..(Len(wire) - 1) /\ Len(wire) \in Nat
        /\ \A i \in DOMAIN wire' : wire'[i] = wire[i + 1]
    BY <1>1, <2>1
  <2> QED
    BY <2>1, <2>2, <2>3 DEF WireInv
<1>7. ASSUME UNCHANGED wire, handler' = "hello" => handler = "hello"
      PROVE  wire' \in Seq(W) /\ WireInv'
  BY <1>1, <1>7 DEF WireInv
<1>8. CASE HandlerStep
  <2>1. ASSUME ~(ReadsHello \/ RejectsHello)
        PROVE  UNCHANGED wire /\ handler' # "hello"
    BY <1>8, <2>1
    DEF HandlerStep, StartsSession, RefusesSession, IgnoresInterrupt, InterruptsSession,
        InterruptOver, LeaveOver, ReadsUnexpected, ReadsEndOfInput, ReadsLost,
        ReadsOn, GivesUp, ClearsSession
  <2> QED
    BY <1>5, <1>7, <2>1
<1>9. ASSUME NEW s \in SessionId, TaskStep(s) PROVE wire' \in Seq(W) /\ WireInv'
  <2>1. UNCHANGED handler
    BY <1>9 DEF TaskStep, TaskCancelled, TaskBegins, TaskWakes, TaskDrained, TaskFails, handlerVars
  <2>2. ASSUME TaskWakes(s), session = s, clientOpen PROVE wire' \in Seq(W) /\ WireInv'
    <3>1. /\ wire' = Append(wire, Words(s)) /\ task[s].at = "woken" /\ s # None
      BY <2>2, TaskNames DEF TaskWakes, Writes, Runs
    <3>2. task[s].sequenceNo \in 1..MaxSequence
      BY <3>1, TranscriberBoundsAssumption DEF IInv, TypeOK, TaskType, TaskInv
    <3>3. Words(s) \in Says
      BY <3>2 DEF Words
    <3>4. handler # "hello"
      BY <2>2, <3>1 DEF IInv, SessionInv
    <3> HIDE DEF Says, W
    <3> QED
      BY <1>4, <2>1, <3>1, <3>3, <3>4
  <2>3. ASSUME ~(TaskWakes(s) /\ session = s /\ clientOpen) PROVE UNCHANGED wire
    BY <1>9, <2>3 DEF TaskStep, TaskCancelled, TaskBegins, TaskWakes, TaskDrained, TaskFails,
       WritesInVain
  <2> QED
    BY <1>7, <2>1, <2>2, <2>3
<1>10. ASSUME ReceivesData \/ LosesConnection \/ Closes \/ SendingFails
              \/ (\E s \in SessionId : SleepEnds(s))
              \/ (\E m \in Message : ClientSends(m)) \/ ClientLeaves
       PROVE  UNCHANGED wire /\ (handler' = "hello" => handler = "hello")
  BY <1>10 DEF ReceivesData, LosesConnection, Closes, SendingFails, SleepEnds, ClientSends,
     ClientLeaves, handlerVars
<1> HIDE DEF W
<1> QED
  BY <1>3, <1>6, <1>7, <1>8, <1>9, <1>10 DEF Next, LoopStep, ClientStep

\* A session is started by one message, and before it has a task.
LEMMA NextFresh ==
  ASSUME IInv, Next
  PROVE  FreshInv'
<1> DEFINE M == Message \cup {EndOfInput}
<1>1. /\ FreshInv /\ sent \in Seq(M) /\ inbox \in Seq(M)
      /\ task \in [SessionId -> TaskType] /\ session \in SessionId \cup {None}
  BY DEF IInv, TypeOK
<1>2. /\ \A s, r \in SessionId : Start(s) = Start(r) => s = r
      /\ \A s \in SessionId : Start(s) # EndOfInput
  BY DEF Start, EndOfInput
<1>3. ASSUME \A s \in SessionId : /\ In(sent', Start(s)) => In(sent, Start(s))
                                  /\ In(inbox', Start(s)) => In(inbox, Start(s))
                                  /\ Once(sent, Start(s)) => Once(sent', Start(s))
                                  /\ Once(inbox, Start(s)) => Once(inbox', Start(s))
                                  /\ \/ task[s].at = "none" => task'[s].at = "none"
                                     \/ ~In(sent', Start(s)) /\ ~In(inbox', Start(s))
      PROVE  FreshInv'
  BY <1>1, <1>3 DEF FreshInv
<1>4. ASSUME UNCHANGED <<sent, inbox>>,
             \A s \in SessionId : task[s].at = "none" => task'[s].at = "none"
      PROVE  FreshInv'
  BY <1>3, <1>4
<1>5. CASE HandlerStep
  <2>1. UNCHANGED sent
    BY <1>5, HandlerQueue DEF clientVars
  <2>2. /\ \A t : In(inbox', t) => In(inbox, t)
        /\ \A t : Once(inbox, t) => Once(inbox', t)
    <3>1. (\E m : Reads(m)) \/ UNCHANGED inbox
      BY <1>5
      DEF HandlerStep, ReadsHello, RejectsHello, StartsSession, RefusesSession,
          IgnoresInterrupt, InterruptsSession, InterruptOver, LeaveOver, ReadsUnexpected,
          ReadsEndOfInput, ReadsLost
    <3> QED
      BY <3>1, ReadFacts
  <2>3. ASSUME NEW s \in SessionId, StartsSession(s) PROVE FreshInv'
    <3>1. In(inbox, Start(s)) /\ ~In(inbox', Start(s))
      BY <1>1, <2>3, ReadFacts DEF StartsSession, FreshInv
    <3>2. ~In(sent', Start(s))
      BY <1>1, <2>1, <3>1 DEF FreshInv
    <3>3. \A r \in SessionId : r # s => task'[r] = task[r]
      BY <1>1, <2>3 DEF StartsSession
    <3> QED
      BY <1>3, <2>1, <2>2, <3>1, <3>2, <3>3
  <2>4. ASSUME \A s \in SessionId : ~StartsSession(s)
        PROVE  \A s \in SessionId : task[s].at = "none" => task'[s].at = "none"
    <3>1. UNCHANGED task \/ \E where : session # None /\ ClearsSession(where)
      BY <1>5, <2>4, TaskNames
      DEF HandlerStep, ReadsHello, RejectsHello, RefusesSession, IgnoresInterrupt,
          InterruptsSession, InterruptOver, LeaveOver, ReadsUnexpected, ReadsEndOfInput,
          ReadsLost, GivesUp
    <3>2. ASSUME NEW where, session # None, ClearsSession(where), NEW s \in SessionId
          PROVE  task'[s].at = task[s].at
      <4>1. /\ task[s] \in TaskType
            /\ task'[s] = IF s = session THEN [task[s] EXCEPT !.cancelled = TRUE] ELSE task[s]
        BY <1>1, <3>2 DEF ClearsSession
      <4> QED
        BY <4>1 DEF TaskType
    <3> QED
      BY <3>1, <3>2
  <2> QED
    BY <1>3, <2>1, <2>2, <2>3, <2>4
<1>6. CASE ReceivesData
  <2>1. sent # <<>>
    BY <1>6, FrontFacts DEF ReceivesData
  <2>2. /\ sent' = Tail(sent) /\ inbox' = Append(inbox, Head(sent)) /\ UNCHANGED task
        /\ Head(sent) \in M
    BY <1>1, <1>6, <2>1 DEF ReceivesData
  <2>3. /\ In(sent, Head(sent))
        /\ \A t : In(sent', t) => In(sent, t)
        /\ \A t : Once(sent, t) => Once(sent', t)
        /\ \A t : t = Head(sent) /\ Once(sent, t) => ~In(sent', t)
    BY <1>1, <2>1, <2>2, Taken
  <2>4. /\ \A t : In(inbox', t) <=> (In(inbox, t) \/ t = Head(sent))
        /\ \A t : (Once(inbox, t) /\ (t # Head(sent) \/ ~In(inbox, t))) => Once(inbox', t)
    BY <1>1, <2>2, Appended
  <2> QED
    BY <1>1, <2>2, <2>3, <2>4 DEF FreshInv
<1>7. ASSUME NEW m \in M, Sends(m), UNCHANGED <<inbox, task>>,
             \A s \in SessionId : m = Start(s) =>
               task[s].at = "none" /\ ~In(sent, m) /\ ~In(inbox, m)
      PROVE  FreshInv'
  <2>1. /\ \A t : In(sent', t) <=> (In(sent, t) \/ t = m)
        /\ \A t : (Once(sent, t) /\ (t # m \/ ~In(sent, t))) => Once(sent', t)
    BY <1>1, <1>7, Appended DEF Sends
  <2> QED
    BY <1>1, <1>7, <2>1 DEF FreshInv
<1>8. ASSUME NEW m \in Message, ClientSends(m) PROVE FreshInv'
  <2>1. ASSUME NEW s \in SessionId, m = Start(s)
        PROVE  task[s].at = "none" /\ ~In(sent, m) /\ ~In(inbox, m)
    <3>1. m.type = "StartSession" /\ m.session = s
      BY <2>1 DEF Start
    <3>2. DOMAIN sent = 1..Len(sent) /\ DOMAIN inbox = 1..Len(inbox)
      BY <1>1
    <3> QED
      BY <1>8, <3>1, <3>2 DEF ClientSends, In
  <2>2. Sends(m) /\ UNCHANGED <<inbox, task>>
    BY <1>8 DEF ClientSends
  <2> QED
    BY <1>7, <2>1, <2>2
<1>9. CASE ClientLeaves
  BY <1>2, <1>7, <1>9 DEF ClientLeaves
<1>10. ASSUME NEW s \in SessionId, TaskStep(s) PROVE FreshInv'
  <2>1. loop # <<>> /\ Head(loop) = s /\ UNCHANGED <<sent, inbox>>
    BY <1>10 DEF TaskStep, TaskCancelled, TaskBegins, TaskWakes, TaskDrained, TaskFails, Runs, clientVars
  <2>2. task[s].at # "none"
    BY <2>1, FrontFacts DEF Due, Alive
  <2>3. \A r \in SessionId : r # s => task'[r] = task[r]
    BY <1>1, <1>10 DEF TaskStep, TaskCancelled, TaskBegins, TaskWakes, TaskDrained, TaskFails,
       TaskDone, Writes, Written, WritesInVain
  <2> QED
    BY <1>4, <2>1, <2>2, <2>3
<1>11. ASSUME NEW s \in SessionId, SleepEnds(s) PROVE FreshInv'
  <2>1. \A r \in SessionId : r # s => task'[r] = task[r]
    BY <1>1, <1>11 DEF SleepEnds
  <2> QED
    BY <1>4, <1>11, <2>1 DEF SleepEnds, clientVars
<1>12. CASE LosesConnection
  BY <1>1, <1>4, <1>12 DEF LosesConnection, Waiting, clientVars
<1>13. CASE ClientReads
  BY <1>1, <1>4, <1>13 DEF ClientReads, Waiting
<1>14. CASE Closes \/ SendingFails
  BY <1>4, <1>14 DEF Closes, SendingFails, clientVars
<1> QED
  BY <1>5, <1>6, <1>8, <1>9, <1>10, <1>11, <1>12, <1>13, <1>14 DEF Next, LoopStep, ClientStep

-----------------------------------------------------------------------------
(***************************************************************************)
(* The theorems.                                                           *)
(***************************************************************************)
LEMMA InitHolds ==
  ASSUME Init
  PROVE  IInv
<1>1. None \notin SessionId /\ \A s \in SessionId : ~Alive(s)
  BY ModesAssumption DEF Init, Alive
<1>2. TypeOK
  <2>1. task \in [SessionId -> TaskType]
    BY DEF Init, TaskType
  <2>2. loop \in Seq(SessionId \cup {Handler, Receive, Lost})
    BY DEF Init
  <2>3. {sent, inbox} \subseteq Seq(Message \cup {EndOfInput})
    BY DEF Init
  <2>4. wire \in Seq({ServerHello(accepted) : accepted \in BOOLEAN} \cup {Ended(s) : s \in SessionId}
                       \cup {Fragment(s, n) : s \in SessionId, n \in 1..MaxSequence})
    BY DEF Init
  <2>5. {broken, clientOpen, polite, refused} \subseteq BOOLEAN /\ mode \in Modes
    BY DEF Init
  <2>6. /\ {session, believed} \subseteq SessionId \cup {None}
        /\ handler \in {"hello", "message", "running", "interrupting", "leaving", "closing", "done"}
    BY DEF Init
  <2> QED
    BY <2>1, <2>2, <2>3, <2>4, <2>5, <2>6 DEF TypeOK
<1>3. \A t : ~In(<<>>, t) /\ Once(<<>>, t) /\ Count(<<>>, t) = 0
  <2>1. DOMAIN <<>> = {}
    OBVIOUS
  <2>2. ASSUME NEW t PROVE {i \in DOMAIN <<>> : <<>>[i] = t} = {}
    BY <2>1
  <2>3. ASSUME NEW t PROVE Count(<<>>, t) = 0
    BY <2>2, FS_EmptySet DEF Count
  <2> QED
    BY <2>1, <2>3 DEF In, Once
<1>4. LoopInv
  BY <1>1, <1>3 DEF Init, LoopInv, Due, Alive, Awaiting
<1>5. SessionInv /\ TaskInv /\ FreshInv /\ WireInv
  BY <1>1, <1>3 DEF Init, SessionInv, TaskInv, FreshInv, WireInv
<1> QED
  BY <1>2, <1>4, <1>5 DEF IInv

\* Every step keeps the inductive invariant.
LEMMA NextKeeps ==
  ASSUME IInv, [Next]_vars
  PROVE  IInv'
<1>1. CASE Next
  <2>1. TypeOK'
    BY <1>1, NextQueues, NextTask, NextNames, NextWire DEF TypeOK, Tasks
  <2> QED
    BY <1>1, <2>1, NextLoop, NextTask, NextFresh, NextWire DEF IInv
<1>2. CASE UNCHANGED vars
  BY <1>2 DEF vars, handlerVars, clientVars, IInv, TypeOK, LoopInv, SessionInv, TaskInv, FreshInv,
     WireInv, Alive, Due, Awaiting
<1> QED
  BY <1>1, <1>2

\* What asyncio will run, the tasks that may be alive and what is on its way between
\* client and server fit together in every state.
THEOREM TranscriberInvariant == Spec => []IInv
<1>1. Init => IInv
  BY InitHolds
<1>2. IInv /\ [Next]_vars => IInv'
  BY NextKeeps
<1> QED
  BY <1>1, <1>2, PTL DEF Spec

\* Every variable has its type: handle() is where its waits can be, and what is
\* queued, read or written is one of the messages.
THEOREM TypeCorrect == Spec => []TypeOK
<1>1. IInv => TypeOK
  BY DEF IInv
<1> QED
  BY <1>1, TranscriberInvariant, PTL

\* At most one session task lives at a time, that of the session or the one the
\* handler awaits; and a session has a live task to end it, unless the client is gone
\* (_handle_start, _clear_session).
THEOREM OneTaskLives == Spec => []OneTask
<1>1. ASSUME IInv PROVE OneTask
  <2> DEFINE live == {s \in SessionId : Alive(s)}
  <2>1. Cardinality(live) <= 1
    <3>1. CASE live = {}
      BY <3>1, FS_EmptySet
    <3>2. CASE live # {}
      <4>1. PICK s \in live : TRUE
        BY <3>2
      <4>2. live = {s}
        BY <1>1, <4>1 DEF IInv, SessionInv
      <4> QED
        BY <4>2, FS_Singleton
    <3> QED
      BY <3>1, <3>2
  <2>2. session = None => \A s \in live : Awaiting /\ task[s].cancelled
    BY <1>1 DEF IInv, SessionInv
  <2>3. session # None => live \subseteq {session} /\ (live = {} => broken)
    BY <1>1 DEF IInv, TypeOK, SessionInv
  <2> QED
    BY <2>1, <2>2, <2>3 DEF OneTask
<1> QED
  BY <1>1, TranscriberInvariant, PTL

-----------------------------------------------------------------------------
(***************************************************************************)
(* The refinement.  A session is served until the task's last word, until  *)
(* the handler forgets it or until the server notices that the client is   *)
(* gone; a word is said when it is written, which is before the write that *)
(* waits is over.                                                          *)
(***************************************************************************)
\* A step that changes nothing of what is promised.
LEMMA SaysNothing ==
  ASSUME IInv, UNCHANGED <<mode, session, broken, wire>>,
         session # None /\ ~broken =>
           /\ task'[session].at \in {"draining", "drained"} <=> task[session].at \in {"draining", "drained"}
           /\ task'[session].sequenceNo = task[session].sequenceNo
  PROVE  UNCHANGED Abstract!vars
  BY DEF Abstract!vars, Said

\* A step after which no session is served.
LEMMA ServesNone ==
  ASSUME UNCHANGED wire, session' = None \/ broken'
  PROVE  Abstract!Next
<1>1. Abstract!Forgets
  BY DEF Abstract!Forgets
<1>2. (IF wire # <<>> /\ Head(wire).type = "ServerHello" THEN Tail(wire) ELSE wire)'
        = IF wire # <<>> /\ Head(wire).type = "ServerHello" THEN Tail(wire) ELSE wire
  OBVIOUS
<1> QED
  BY <1>1, <1>2 DEF Abstract!Next

\* The session that is served, the number its next fragment has and what the client has
\* not read of what the sessions said.
Served == IF session = None \/ broken \/ (mode = "ended" /\ Said(session)) THEN None ELSE session
Number == IF session = None \/ broken \/ mode = "ended" THEN 1
          ELSE task[session].sequenceNo + IF Said(session) THEN 1 ELSE 0
Unread == IF wire # <<>> /\ Head(wire).type = "ServerHello" THEN Tail(wire) ELSE wire

\* What a step of the abstract specification is, in these names.
LEMMA AbstractSteps ==
  /\ \A s \in SessionId :
       Served = None /\ Served' = s /\ UNCHANGED <<Number, Unread>> => Abstract!Next
  /\ /\ Served # None /\ Served' = Served /\ Number' = Number + 1
     /\ Unread' = Append(Unread, Fragment(Served, Number))
     => Abstract!Next
  /\ /\ Served # None /\ Served' = None /\ Number' = 1
     /\ Unread' = Append(Unread, Ended(Served))
     => Abstract!Next
  /\ Unread # <<>> /\ Unread' = Tail(Unread) /\ UNCHANGED <<Served, Number>> => Abstract!Next
  BY DEF Served, Number, Unread, Fragment, Ended, Abstract!Next, Abstract!Starts, Abstract!Says,
     Abstract!Forgets, Abstract!Fragment, Abstract!Ended

\* A session is started only when none is served, and counts from 1.
LEMMA StartsRefines ==
  ASSUME IInv, NEW s \in SessionId, StartsSession(s)
  PROVE  Abstract!Next
<1>1. /\ session = None /\ session' = s /\ s # None /\ ~broken
      /\ task' = [task EXCEPT ![s].at = "created"] /\ UNCHANGED <<mode, broken, wire>>
  BY ReadFacts, TaskNames DEF StartsSession
<1>2. task \in [SessionId -> TaskType] /\ task[s].sequenceNo = 1
  <2>1. In(inbox, Start(s))
    BY ReadFacts DEF StartsSession
  <2> QED
    BY <2>1 DEF IInv, TypeOK, FreshInv, TaskInv
<1>3. task'[s].at = "created" /\ task'[s].sequenceNo = 1
  BY <1>1, <1>2 DEF TaskType
<1>4. Served = None /\ Served' = s /\ UNCHANGED <<Number, Unread>>
  BY <1>1, <1>3 DEF Served, Number, Unread, Said
<1> QED
  BY <1>4, AbstractSteps

\* A task's write says the next fragment, or the end, of the session that is served.
LEMMA WritesRefines ==
  ASSUME IInv, NEW s \in SessionId, TaskWakes(s), session = s, clientOpen
  PROVE  Abstract!Next
<1>1. /\ task[s].at = "woken" /\ s # None /\ Writes(s) /\ UNCHANGED <<mode, broken>>
      /\ mode \in Modes
  BY TaskNames DEF TaskWakes, Runs, IInv, TypeOK
<1>2. ~broken /\ task \in [SessionId -> TaskType] /\ task[s].sequenceNo \in Nat
  BY DEF IInv, LoopInv, TypeOK, TaskType
<1> DEFINE W == {ServerHello(accepted) : accepted \in BOOLEAN} \cup {Ended(r) : r \in SessionId}
                  \cup {Fragment(r, n) : r \in SessionId, n \in 1..MaxSequence}
<1>3. wire \in Seq(W) /\ wire' = Append(wire, Words(s)) /\ Words(s).type # "ServerHello"
  BY <1>1 DEF IInv, TypeOK, Writes, Words, Fragment, Ended
<1> HIDE DEF W
<1>4. Unread' = Append(Unread, Words(s))
  <2>1. CASE wire = <<>>
    <3>1. wire' # <<>> /\ Head(wire') = Words(s) /\ wire' = <<Words(s)>>
      BY <1>3, <2>1
    <3> QED
      BY <1>3, <2>1, <3>1 DEF Unread
  <2>2. CASE wire # <<>>
    <3>1. /\ wire' # <<>> /\ Head(wire') = Head(wire)
          /\ Tail(wire') = Append(Tail(wire), Words(s))
      BY <1>3, <2>2
    <3> QED
      BY <1>3, <2>2, <3>1 DEF Unread
  <2> QED
    BY <2>1, <2>2
<1>5. CASE mode = "result"
  <2>1. Served = s /\ Number = task[s].sequenceNo /\ Words(s) = Fragment(Served, Number)
    BY <1>1, <1>2, <1>5 DEF Served, Number, Said, Words
  <2>2. \/ task' = [task EXCEPT ![s].at = "sleeping", ![s].sequenceNo = @ + 1]
        \/ task' = [task EXCEPT ![s].at = "draining"]
    BY <1>1, <1>5 DEF Writes, Written
  <2>3. session' = s
    BY <1>1, <1>5 DEF Writes, Written
  <2>4. \/ task'[s].at = "sleeping" /\ task'[s].sequenceNo = task[s].sequenceNo + 1
        \/ task'[s].at = "draining" /\ task'[s].sequenceNo = task[s].sequenceNo
    BY <1>2, <2>2 DEF TaskType
  <2>5. Served' = s /\ Number' = Number + 1
    BY <1>1, <1>2, <1>5, <2>1, <2>3, <2>4 DEF Served, Number, Said
  <2> QED
    BY <1>1, <1>4, <2>1, <2>5, AbstractSteps
<1>6. CASE mode # "result"
  <2>1. mode = "ended"
    BY <1>1, <1>6, ModesAssumption
  <2>2. Served = s /\ Words(s) = Ended(Served)
    BY <1>1, <1>2, <2>1 DEF Served, Said, Words
  <2>3. session' = None \/ (session' = s /\ task' = [task EXCEPT ![s].at = "draining"])
    BY <1>1, <2>1 DEF Writes, Written
  <2>4. session' = None \/ (session' = s /\ task'[s].at = "draining")
    BY <1>2, <2>3 DEF TaskType
  <2>5. Served' = None /\ Number' = 1
    BY <1>1, <2>1, <2>4 DEF Served, Number, Said
  <2> QED
    BY <1>1, <1>4, <2>2, <2>5, AbstractSteps
<1> QED
  BY <1>5, <1>6

\* The client reads the handshake, of which the abstract server knows nothing, or the
\* first of what the sessions said.
LEMMA ReadsRefines ==
  ASSUME IInv, ClientReads
  PROVE  Abstract!Next \/ UNCHANGED Abstract!vars
<1> DEFINE W == {ServerHello(accepted) : accepted \in BOOLEAN} \cup {Ended(r) : r \in SessionId}
                  \cup {Fragment(r, n) : r \in SessionId, n \in 1..MaxSequence}
           drained == {s \in SessionId : Waiting(s) /\ Len(wire') <= HighWater}
<1>1. /\ wire \in Seq(W) /\ wire # <<>> /\ wire' = Tail(wire) /\ WireInv
      /\ UNCHANGED <<mode, session, broken>> /\ task \in [SessionId -> TaskType]
      /\ task' = [s \in SessionId |->
                    IF s \in drained THEN [task[s] EXCEPT !.at = "drained"] ELSE task[s]]
      /\ session \in SessionId \cup {None}
  BY DEF IInv, TypeOK, ClientReads, handlerVars
<1> HIDE DEF W
<1>2. \A s \in SessionId : /\ (Said(s))' <=> Said(s)
                           /\ task'[s].sequenceNo = task[s].sequenceNo
  BY <1>1 DEF Said, Waiting, TaskType
<1>3. UNCHANGED <<Served, Number>>
  BY <1>1, <1>2 DEF Served, Number
<1>4. wire' # <<>> => Head(wire').type # "ServerHello"
  <2>1. wire' # <<>> => 2 \in DOMAIN wire /\ Head(wire') = wire[2]
    BY <1>1
  <2> QED
    BY <1>1, <2>1 DEF WireInv
<1>5. Unread' = Tail(wire)
  BY <1>1, <1>4 DEF Unread
<1>6. CASE Head(wire).type = "ServerHello"
  <2>1. UNCHANGED Unread
    BY <1>1, <1>5, <1>6 DEF Unread
  <2> QED
    BY <1>3, <2>1 DEF Abstract!vars, Served, Number, Unread
<1>7. CASE Head(wire).type # "ServerHello"
  <2>1. Unread # <<>> /\ Unread' = Tail(Unread)
    BY <1>1, <1>5, <1>7 DEF Unread
  <2> QED
    BY <1>3, <2>1, AbstractSteps
<1> QED
  BY <1>6, <1>7

\* The handler forgets the session, or leaves it as it is.
LEMMA HandlerRefines ==
  ASSUME IInv, HandlerStep
  PROVE  Abstract!Next \/ UNCHANGED Abstract!vars
<1>1. ASSUME NEW where, ClearsSession(where) PROVE session' = None
  BY <1>1 DEF ClearsSession
<1>2. ASSUME GivesUp PROVE session' = None
  BY <1>1, <1>2 DEF GivesUp
<1>3. CASE ReadsHello \/ RejectsHello
  <2>1. handler = "hello" /\ UNCHANGED mode
    BY <1>3 DEF ReadsHello, RejectsHello
  <2>2. session = None /\ wire = <<>>
    BY <2>1 DEF IInv, SessionInv, WireInv
  <2>3. session' = None
    BY <1>2, <1>3, <2>2 DEF ReadsHello, RejectsHello
  <2>4. PICK accepted \in BOOLEAN : wire' \in {wire, Append(wire, ServerHello(accepted))}
    BY <1>3 DEF ReadsHello, RejectsHello
  <2>5. wire' = <<>> \/ wire' = <<ServerHello(accepted)>>
    BY <2>2, <2>4
  <2>6. /\ <<ServerHello(accepted)>> # <<>>
        /\ Head(<<ServerHello(accepted)>>).type = "ServerHello"
        /\ Tail(<<ServerHello(accepted)>>) = <<>>
    BY DEF ServerHello
  <2>7. Unread = <<>> /\ Unread' = <<>>
    BY <2>2, <2>5, <2>6 DEF Unread
  <2>8. UNCHANGED <<Served, Number>>
    BY <2>2, <2>3 DEF Served, Number
  <2> QED
    BY <2>7, <2>8 DEF Abstract!vars, Served, Number, Unread
<1>4. CASE \E s \in SessionId : StartsSession(s)
  BY <1>4, StartsRefines
<1>5. CASE InterruptOver \/ LeaveOver
  BY <1>5, SaysNothing DEF InterruptOver, LeaveOver
<1>6. CASE ReadsUnexpected \/ ReadsEndOfInput \/ ReadsLost
  BY <1>2, <1>6, ServesNone DEF ReadsUnexpected, ReadsEndOfInput, ReadsLost
<1>7. ASSUME NEW s \in SessionId, RefusesSession(s) \/ IgnoresInterrupt(s)
      PROVE  Abstract!Next \/ UNCHANGED Abstract!vars
  BY <1>2, <1>7, ServesNone, SaysNothing DEF RefusesSession, IgnoresInterrupt
<1>8. ASSUME NEW s \in SessionId, InterruptsSession(s) PROVE Abstract!Next
  BY <1>1, <1>8, ServesNone DEF InterruptsSession
<1> QED
  BY <1>3, <1>4, <1>5, <1>6, <1>7, <1>8 DEF HandlerStep

\* A task's other turns: nothing is said, and it was the last word at most that ended
\* the session.
LEMMA TaskRefines ==
  ASSUME IInv, NEW s \in SessionId, TaskStep(s)
  PROVE  Abstract!Next \/ UNCHANGED Abstract!vars
<1>1. /\ task \in [SessionId -> TaskType] /\ mode \in Modes /\ session \in SessionId \cup {None}
      /\ s # None /\ loop # <<>> /\ Head(loop) = s /\ UNCHANGED <<mode, broken>>
  BY TaskNames
  DEF IInv, TypeOK, TaskStep, TaskCancelled, TaskBegins, TaskWakes, TaskDrained, TaskFails, Runs,
      handlerVars
<1>2. /\ task[s].cancelled => session # s
      /\ task[s].at = "lost" => broken
      /\ ~task[s].cancelled => session = s
  <2>1. Due(s) /\ (task[s].at = "lost" => broken)
    BY <1>1, FrontFacts
  <2> QED
    BY <1>1, <2>1 DEF IInv, SessionInv, Due
<1>3. ASSUME NEW at, task' = [task EXCEPT ![s].at = at]
      PROVE  /\ \A r \in SessionId : r # s => task'[r] = task[r]
             /\ task'[s].at = at /\ task'[s].sequenceNo = task[s].sequenceNo
  BY <1>1, <1>3 DEF TaskType
<1>4. CASE TaskCancelled(s)
  <2>1. session # s /\ UNCHANGED <<session, wire>>
    BY <1>2, <1>4 DEF TaskCancelled, handlerVars
  <2>2. \A r \in SessionId : r # s => task'[r] = task[r]
    BY <1>3, <1>4 DEF TaskCancelled, TaskDone
  <2> QED
    BY <1>1, <2>1, <2>2, SaysNothing
<1>5. CASE TaskBegins(s)
  BY <1>1, <1>2, <1>3, <1>5, SaysNothing DEF TaskBegins, Runs, handlerVars
<1>6. CASE TaskWakes(s)
  <2>1. session = s /\ task[s].at = "woken"
    BY <1>2, <1>6 DEF TaskWakes, Runs
  <2>2. CASE clientOpen
    BY <1>6, <2>1, <2>2, WritesRefines
  <2>3. CASE ~clientOpen
    <3>1. task' = [task EXCEPT ![s].at = "lost"] /\ UNCHANGED <<wire, session>>
      BY <1>6, <2>1, <2>3 DEF TaskWakes, WritesInVain
    <3>2. task'[s].at = "lost" /\ task'[s].sequenceNo = task[s].sequenceNo
      BY <1>3, <3>1
    <3> QED
      BY <1>1, <2>1, <3>1, <3>2, SaysNothing
  <2> QED
    BY <2>2, <2>3
<1>7. CASE TaskDrained(s)
  <2>1. /\ session = s /\ task[s].at = "drained" /\ Written(s) /\ UNCHANGED wire
        /\ task[s].sequenceNo \in Nat
    BY <1>1, <1>2, <1>7 DEF TaskDrained, Runs, TaskType
  <2>2. CASE mode = "result"
    <3>1. /\ task' = [task EXCEPT ![s].at = "sleeping", ![s].sequenceNo = @ + 1]
          /\ UNCHANGED session
      BY <2>1, <2>2 DEF Written
    <3>2. task'[s].at = "sleeping" /\ task'[s].sequenceNo = task[s].sequenceNo + 1
      BY <1>1, <3>1 DEF TaskType
    <3>3. UNCHANGED <<Served, Number, Unread>>
      BY <1>1, <2>1, <2>2, <3>1, <3>2 DEF Served, Number, Unread, Said
    <3> QED
      BY <3>3 DEF Abstract!vars, Served, Number, Unread
  <2>3. CASE mode # "result"
    <3>1. session' = None
      BY <2>1, <2>3 DEF Written
    <3> QED
      BY <2>1, <3>1, ServesNone
  <2> QED
    BY <2>2, <2>3
<1>8. CASE TaskFails(s)
  <2>1. broken' /\ UNCHANGED wire
    BY <1>1, <1>2, <1>8 DEF TaskFails, Runs
  <2> QED
    BY <2>1, ServesNone
<1> QED
  BY <1>4, <1>5, <1>6, <1>7, <1>8 DEF TaskStep

\* Every step of the connection is one that a Server may take, or none.
LEMMA NextRefines ==
  ASSUME IInv, [Next]_vars
  PROVE  [Abstract!Next]_Abstract!vars
<1>1. CASE UNCHANGED vars
  BY <1>1, SaysNothing DEF vars, handlerVars
<1>2. CASE HandlerStep
  BY <1>2, HandlerRefines
<1>3. ASSUME NEW s \in SessionId, TaskStep(s) PROVE [Abstract!Next]_Abstract!vars
  BY <1>3, TaskRefines
<1>4. CASE LosesConnection
  BY <1>4, ServesNone DEF LosesConnection
<1>5. ASSUME NEW s \in SessionId, SleepEnds(s) PROVE UNCHANGED Abstract!vars
  <2>1. /\ task \in [SessionId -> TaskType] /\ session \in SessionId \cup {None}
        /\ UNCHANGED <<mode, session, broken, wire>>
    BY <1>5 DEF IInv, TypeOK, SleepEnds, handlerVars
  <2>2. /\ task[s].at = "sleeping"
        /\ task'[s].at = "woken" /\ task'[s].sequenceNo = task[s].sequenceNo
        /\ \A r \in SessionId : r # s => task'[r] = task[r]
    BY <1>5, <2>1 DEF SleepEnds, TaskType
  <2> QED
    BY <2>1, <2>2, SaysNothing
<1>6. CASE ReceivesData \/ Closes \/ SendingFails \/ (\E m \in Message : ClientSends(m)) \/ ClientLeaves
  BY <1>6, SaysNothing DEF ReceivesData, Closes, SendingFails, ClientSends, ClientLeaves, handlerVars
<1>7. CASE ClientReads
  BY <1>7, ReadsRefines
<1> QED
  BY <1>1, <1>2, <1>3, <1>4, <1>5, <1>6, <1>7 DEF Next, LoopStep, ClientStep

\* The connection is a Server: the fragments of the session that runs, from 1 on and
\* without a gap, then perhaps its end, and nothing of a session after its end or its
\* interruption, however the handler, the tasks and the client take turns
\* (handle, _run_session, docs/protocol.md).
THEOREM ConnectionIsServer == Spec => ImplementsServer
<1>1. Init => Abstract!Init
  BY DEF Init, Abstract!Init
<1>2. IInv /\ [Next]_vars => [Abstract!Next]_Abstract!vars
  BY NextRefines
<1> QED
  BY <1>1, <1>2, TranscriberInvariant, PTL DEF Spec, ImplementsServer, Abstract!Spec
=============================================================================
