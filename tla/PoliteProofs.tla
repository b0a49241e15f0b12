---------------------------- MODULE PoliteProofs ----------------------------
(***************************************************************************)
(* PoliteIsServed of module Transcriber, for any sessions and any bounds.  *)
(*                                                                         *)
(* That the handler has no session when a StartSession is read is decided  *)
(* long before: by what stands between the messages on their way (Line),   *)
(* and by when the task of a session that has said its end will clear it,  *)
(* measured in messages the handler can have read by then (Forgotten).     *)
(***************************************************************************)
EXTENDS TranscriberProofs

Messages == Message \cup {EndOfInput}

-----------------------------------------------------------------------------
(***************************************************************************)
(* A line of messages that a handler without a session, or with one it     *)
(* forgets before it reads past message b, can follow: no session starts   *)
(* before the one ahead of it is over.  bel is the session the client runs. *)
(***************************************************************************)
Between(q, s, i, k) == \E j \in DOMAIN q : i < j /\ j < k /\ q[j] = Interrupt(s)

Spaced(q) ==
  \A s, r \in SessionId : \A i, k \in DOMAIN q :
    i < k /\ q[i] = Start(s) /\ q[k] = Start(r) => Between(q, s, i, k)

ClearAhead(q, s, b) ==
  s # None => \A r \in SessionId : \A k \in DOMAIN q :
                q[k] = Start(r) => Between(q, s, 0, k) \/ b < k

StartsEnd(q, bel) ==
  \A s \in SessionId : \A i \in DOMAIN q :
    q[i] = Start(s) => Between(q, s, i, Len(q) + 1) \/ bel = s

ClearBehind(q, s, b, bel) ==
  s # None => Between(q, s, 0, Len(q) + 1) \/ b < Len(q) + 1 \/ bel = s

Orderly(q, s, b, bel) ==
  Spaced(q) /\ ClearAhead(q, s, b) /\ StartsEnd(q, bel) /\ ClearBehind(q, s, b, bel)

\* Messages of different sessions, and of different types, differ.
LEMMA DifferentMessages ==
  /\ \A s, r \in SessionId : Start(s) = Start(r) => s = r
  /\ \A s, r : Start(s) # Interrupt(r)
  /\ \A s, r : Interrupt(s) = Interrupt(r) => s = r
  /\ \A s : Start(s) # EndOfInput /\ Start(s) # Unexpected
  /\ \A s, valid : Start(s) # Hello(valid) /\ Interrupt(s) # Hello(valid)
  /\ \A s : Start(s).type = "StartSession" /\ Start(s).session = s
  /\ \A m \in Messages : m.type = "StartSession" => \E s \in SessionId : m = Start(s)
  /\ \A s \in SessionId : Start(s) \in Messages /\ Interrupt(s) \in Messages
<1>1. \A m \in Messages : m.type = "StartSession" => \E s \in SessionId : m = Start(s)
  BY DEF Start, Interrupt, EndOfInput, Unexpected, Hello, Messages, Message
<1>2. \A s \in SessionId : Start(s) \in Messages /\ Interrupt(s) \in Messages
  BY DEF Messages, Message
<1>3. /\ \A s, r \in SessionId : Start(s) = Start(r) => s = r
      /\ \A s : Start(s).type = "StartSession" /\ Start(s).session = s
  BY DEF Start
<1>4. \A s, r : Interrupt(s) = Interrupt(r) => s = r
  <2> SUFFICES ASSUME NEW s, NEW r, Interrupt(s) = Interrupt(r) PROVE s = r
    OBVIOUS
  <2>1. Interrupt(s).session = s /\ Interrupt(r).session = r
    BY DEF Interrupt
  <2> QED
    BY <2>1
<1>5. /\ \A s : Start(s) # EndOfInput /\ Start(s) # Unexpected
      /\ \A s, valid : Start(s) # Hello(valid) /\ Interrupt(s) # Hello(valid)
      /\ \A s, r : Start(s) # Interrupt(r)
  <2>1. \A s, valid : Start(s).type = "StartSession" /\ Interrupt(s).type = "InterruptSession"
                      /\ Hello(valid).type = "ClientHello"
    BY DEF Start, Interrupt, Hello
  <2>2. EndOfInput.type = "EndOfInput" /\ Unexpected.type = "Unexpected"
    BY DEF EndOfInput, Unexpected
  <2> QED
    BY <2>1, <2>2
<1> QED
  BY <1>1, <1>2, <1>3, <1>4, <1>5

\* What is behind the first message of a line comes one place earlier in the rest.
LEMMA BetweenInTail ==
  ASSUME NEW q \in Seq(Messages), q # <<>>
  PROVE  /\ Len(q) \in Nat \ {0} /\ DOMAIN q = 1..Len(q)
         /\ Len(Tail(q)) = Len(q) - 1 /\ DOMAIN Tail(q) = 1..(Len(q) - 1)
         /\ \A i \in DOMAIN Tail(q) : i + 1 \in DOMAIN q /\ Tail(q)[i] = q[i + 1]
         /\ q[1] = Head(q)
         /\ \A s : \A i, k \in Nat :
              Between(q, s, i, k + 1) /\ (i # 0 \/ Head(q) # Interrupt(s))
                => Between(Tail(q), s, IF i = 0 THEN 0 ELSE i - 1, k)
<1> DEFINE n == Len(q)
           p == Tail(q)
<1>1. /\ n \in Nat \ {0} /\ DOMAIN q = 1..n /\ q[1] = Head(q)
      /\ Len(p) = n - 1 /\ DOMAIN p = 1..(n - 1) /\ \A i \in 1..(n - 1) : p[i] = q[i + 1]
  OBVIOUS
<1> HIDE DEF n, p
<1>2. ASSUME NEW s, NEW i \in Nat, NEW k \in Nat, Between(q, s, i, k + 1),
             i # 0 \/ Head(q) # Interrupt(s)
      PROVE  Between(p, s, IF i = 0 THEN 0 ELSE i - 1, k)
  <2>1. PICK j \in 1..n : i < j /\ j < k + 1 /\ q[j] = Interrupt(s)
    BY <1>1, <1>2 DEF Between
  <2>2. j # 1
    BY <1>1, <1>2, <2>1
  <2>3. j - 1 \in 1..(n - 1) /\ (j - 1) + 1 = j
    BY <1>1, <2>1, <2>2
  <2>4. p[j - 1] = Interrupt(s)
    BY <1>1, <2>1, <2>3
  <2>5. (IF i = 0 THEN 0 ELSE i - 1) < j - 1 /\ j - 1 < k
    BY <1>1, <2>1, <2>2
  <2> QED
    BY <1>1, <2>3, <2>4, <2>5 DEF Between
<1> QED
  BY <1>1, <1>2 DEF n, p

\* The line when the client has sent one more.
LEMMA OrderlyAppended ==
  ASSUME NEW q \in Seq(Messages), NEW m \in Messages, NEW s \in SessionId \cup {None},
         NEW b \in Nat, NEW c \in Nat, c <= b \/ b >= Len(q) + 1,
         NEW bel \in SessionId \cup {None}, NEW new \in SessionId \cup {None},
         Orderly(q, s, b, bel),
         \/ /\ \A r \in SessionId : m # Start(r)
            /\ new = bel \/ (m = Interrupt(bel) /\ new = None)
         \/ bel = None /\ \E r \in SessionId : m = Start(r) /\ new = r
  PROVE  Orderly(Append(q, m), s, c, new)
<1> DEFINE p == Append(q, m)
           n == Len(q)
<1>1. /\ n \in Nat /\ DOMAIN q = 1..n /\ DOMAIN p = 1..(n + 1) /\ Len(p) = n + 1
      /\ \A i \in 1..n : p[i] = q[i]
      /\ p[n + 1] = m
  OBVIOUS
<1>2. None \notin SessionId
  BY ModesAssumption
<1> HIDE DEF p, n
<1>3. \A r : \A i, k \in Nat : Between(q, r, i, k) => Between(p, r, i, k) /\ Between(p, r, i, n + 2)
  BY <1>1 DEF Between
<1>8. \A k \in 1..(n + 1) : k \in 1..n \/ k = n + 1
  BY <1>1
<1>4. Spaced(p)
  <2> SUFFICES ASSUME NEW r \in SessionId, NEW t \in SessionId, NEW i \in 1..(n + 1), NEW k \in 1..(n + 1),
                      i < k, p[i] = Start(r), p[k] = Start(t)
               PROVE  Between(p, r, i, k)
    BY <1>1 DEF Spaced
  <2>1. i \in 1..n /\ q[i] = Start(r) /\ i \in Nat /\ k \in Nat
    BY <1>1
  <2>2. CASE k \in 1..n
    BY <1>1, <1>3, <2>1, <2>2 DEF Orderly, Spaced
  <2>3. CASE k = n + 1
    <3>1. m = Start(t)
      BY <1>1, <2>3
    <3>2. bel = None
      BY <3>1
    <3>3. Between(q, r, i, n + 1)
      BY <1>1, <1>2, <2>1, <3>2 DEF Orderly, StartsEnd, n
    <3>4. n + 1 \in Nat
      BY <1>1
    <3>5. Between(p, r, i, n + 1)
      BY <1>3, <2>1, <3>3, <3>4
    <3> QED
      BY <2>3, <3>5
  <2> QED
    BY <1>8, <2>2, <2>3
<1>5. ClearAhead(p, s, c)
  <2> SUFFICES ASSUME s # None, NEW r \in SessionId, NEW k \in 1..(n + 1), p[k] = Start(r)
               PROVE  Between(p, s, 0, k) \/ c < k
    BY <1>1 DEF ClearAhead
  <2>1. CASE k \in 1..n
    <3>1. Between(q, s, 0, k) \/ b < k
      BY <1>1, <2>1 DEF Orderly, ClearAhead
    <3>2. b < k => c < k
      BY <1>1, <2>1 DEF n
    <3> QED
      BY <1>3, <2>1, <3>1, <3>2
  <2>2. CASE k = n + 1
    <3>1. bel = None
      <4>1. m = Start(r)
        BY <1>1, <2>2
      <4> QED
        BY <4>1
    <3>2. Between(q, s, 0, n + 1) \/ b < n + 1
      BY <3>1 DEF Orderly, ClearBehind, n
    <3>3. b < n + 1 => c < n + 1
      BY <1>1 DEF n
    <3>4. 0 \in Nat /\ n + 1 \in Nat
      BY <1>1
    <3>5. Between(p, s, 0, n + 1) \/ c < n + 1
      BY <1>3, <3>2, <3>3, <3>4
    <3> QED
      BY <2>2, <3>5
  <2> QED
    BY <1>8, <2>1, <2>2
<1>6. StartsEnd(p, new)
  <2> SUFFICES ASSUME NEW r \in SessionId, NEW i \in 1..(n + 1), p[i] = Start(r), new # r
               PROVE  Between(p, r, i, n + 2)
    BY <1>1 DEF StartsEnd
  <2>1. i \in 1..n /\ q[i] = Start(r)
    <3>1. i # n + 1
      BY <1>1, DifferentMessages
    <3> QED
      BY <1>1, <3>1
  <2>2. CASE Between(q, r, i, n + 1)
    BY <1>1, <1>3, <2>1, <2>2
  <2>3. CASE ~Between(q, r, i, n + 1)
    <3>1. bel = r
      BY <1>1, <2>1, <2>3 DEF Orderly, StartsEnd, n
    <3>2. m = Interrupt(r)
      BY <1>2, <3>1
    <3> QED
      BY <1>1, <2>1, <3>2 DEF Between
  <2> QED
    BY <2>2, <2>3
<1>7. ClearBehind(p, s, c, new)
  <2> SUFFICES ASSUME s # None, new # s
               PROVE  Between(p, s, 0, n + 2) \/ c < n + 2
    BY <1>1 DEF ClearBehind
  <2>1. Between(q, s, 0, n + 1) \/ b < n + 1 \/ bel = s
    BY DEF Orderly, ClearBehind, n
  <2>2. b < n + 1 => c < n + 2
    BY <1>1 DEF n
  <2>3. CASE bel = s
    <3>1. m = Interrupt(s)
      BY <1>2, <2>3
    <3> QED
      BY <1>1, <3>1 DEF Between
  <2> QED
    BY <1>1, <1>3, <2>1, <2>2, <2>3
<1> QED
  BY <1>4, <1>5, <1>6, <1>7 DEF Orderly, p

\* The line when the handler has read its first, which has not been its session's
\* InterruptSession.
LEMMA OrderlyTaken ==
  ASSUME NEW q \in Seq(Messages), q # <<>>, NEW s \in SessionId \cup {None},
         NEW b \in Nat, NEW c \in Nat, c + 1 <= b \/ s = None,
         NEW bel \in SessionId \cup {None},
         Orderly(q, s, b, bel), s # None => Head(q) # Interrupt(s)
  PROVE  Orderly(Tail(q), s, c, bel)
<1> DEFINE p == Tail(q)
           n == Len(q)
<1>1. /\ n \in Nat \ {0} /\ DOMAIN q = 1..n
      /\ Len(p) = n - 1 /\ DOMAIN p = 1..(n - 1)
      /\ \A i \in 1..(n - 1) : i + 1 \in 1..n /\ p[i] = q[i + 1]
      /\ \A r : \A i, k \in Nat :
           Between(q, r, i, k + 1) /\ (i # 0 \/ Head(q) # Interrupt(r))
             => Between(p, r, IF i = 0 THEN 0 ELSE i - 1, k)
  BY BetweenInTail
<1> HIDE DEF p
<1>2. ASSUME NEW r, NEW i \in Nat, NEW k \in Nat, Between(q, r, i + 1, k + 1)
      PROVE  Between(p, r, i, k)
  <2>1. i + 1 \in Nat /\ i + 1 # 0 /\ (i + 1) - 1 = i
    OBVIOUS
  <2> QED
    BY <1>1, <1>2, <2>1
<1>3. Spaced(p)
  <2> SUFFICES ASSUME NEW r \in SessionId, NEW t \in SessionId, NEW i \in 1..(n - 1), NEW k \in 1..(n - 1),
                      i < k, p[i] = Start(r), p[k] = Start(t)
               PROVE  Between(p, r, i, k)
    BY <1>1 DEF Spaced
  <2>1. i + 1 < k + 1 /\ i \in Nat /\ k \in Nat
    OBVIOUS
  <2>2. Between(q, r, i + 1, k + 1)
    BY <1>1, <2>1 DEF Orderly, Spaced
  <2> QED
    BY <1>2, <2>1, <2>2
<1>4. ClearAhead(p, s, c)
  <2> SUFFICES ASSUME s # None, NEW r \in SessionId, NEW k \in 1..(n - 1), p[k] = Start(r)
               PROVE  Between(p, s, 0, k) \/ c < k
    BY <1>1 DEF ClearAhead
  <2>1. Between(q, s, 0, k + 1) \/ b < k + 1
    BY <1>1 DEF Orderly, ClearAhead
  <2>2. b < k + 1 => c < k
    OBVIOUS
  <2> QED
    BY <1>1, <2>1, <2>2
<1>5. StartsEnd(p, bel)
  <2> SUFFICES ASSUME NEW r \in SessionId, NEW i \in 1..(n - 1), p[i] = Start(r), bel # r
               PROVE  Between(p, r, i, n)
    BY <1>1 DEF StartsEnd
  <2>1. Between(q, r, i + 1, n + 1)
    BY <1>1 DEF Orderly, StartsEnd
  <2> QED
    BY <1>1, <1>2, <2>1
<1>6. ClearBehind(p, s, c, bel)
  <2> SUFFICES ASSUME s # None, bel # s
               PROVE  Between(p, s, 0, n) \/ c < n
    BY <1>1 DEF ClearBehind
  <2>1. Between(q, s, 0, n + 1) \/ b < n + 1
    BY DEF Orderly, ClearBehind
  <2>2. b < n + 1 => c < n
    BY <1>1
  <2> QED
    BY <1>1, <2>1, <2>2
<1> QED
  BY <1>3, <1>4, <1>5, <1>6 DEF Orderly, p

\* The line when the handler has read its first and started that session.
LEMMA OrderlyStarted ==
  ASSUME NEW q \in Seq(Messages), q # <<>>, NEW s \in SessionId, Head(q) = Start(s),
         NEW b \in Nat, NEW c \in Nat, NEW bel \in SessionId \cup {None},
         Orderly(q, None, b, bel)
  PROVE  Orderly(Tail(q), s, c, bel)
<1> DEFINE p == Tail(q)
           n == Len(q)
<1>1. /\ n \in Nat \ {0} /\ DOMAIN q = 1..n /\ q[1] = Start(s)
      /\ Len(p) = n - 1 /\ DOMAIN p = 1..(n - 1)
      /\ \A i \in 1..(n - 1) : i + 1 \in 1..n /\ p[i] = q[i + 1]
      /\ \A r : \A k \in Nat : Between(q, r, 1, k + 1) => Between(p, r, 0, k)
  <2>1. 1 - 1 = 0 /\ 1 \in Nat /\ 1 # 0
    OBVIOUS
  <2> QED
    BY <2>1, BetweenInTail
<1>2. Orderly(p, None, c, bel)
  BY OrderlyTaken
<1> HIDE DEF p
<1>3. ClearAhead(p, s, c)
  <2> SUFFICES ASSUME NEW r \in SessionId, NEW k \in 1..(n - 1), p[k] = Start(r)
               PROVE  Between(p, s, 0, k)
    BY <1>1 DEF ClearAhead
  <2>1. 1 \in 1..n /\ 1 < k + 1 /\ k \in Nat /\ k + 1 \in 1..n /\ q[k + 1] = Start(r)
    BY <1>1
  <2>2. Between(q, s, 1, k + 1)
    BY <1>1, <2>1 DEF Orderly, Spaced
  <2> QED
    BY <1>1, <2>1, <2>2
<1>4. ClearBehind(p, s, c, bel)
  <2>1. Between(q, s, 1, n + 1) \/ bel = s
    BY <1>1 DEF Orderly, StartsEnd
  <2>2. Between(q, s, 1, n + 1) => Between(p, s, 0, n)
    BY <1>1
  <2>3. Len(p) + 1 = n
    BY <1>1
  <2> QED
    BY <2>1, <2>2, <2>3 DEF ClearBehind
<1> QED
  BY <1>2, <1>3, <1>4 DEF Orderly, p

\* The line when the session is forgotten, or will be no later than it was to be.
LEMMA OrderlyForgotten ==
  ASSUME NEW q, NEW s, NEW b \in Nat, NEW c \in Nat, NEW bel, Orderly(q, s, b, bel),
         DOMAIN q \subseteq Nat, Len(q) \in Nat
  PROVE  Orderly(q, None, c, bel) /\ (c <= b => Orderly(q, s, c, bel))
<1>1. \A k \in Nat : c <= b /\ b < k => c < k
  OBVIOUS
<1> QED
  BY <1>1 DEF Orderly, ClearAhead, ClearBehind

\* The line when the client has read that its session is over, and the handler will
\* have forgotten it before it has read the line.
LEMMA OrderlyEnded ==
  ASSUME NEW q, NEW s, NEW b, NEW bel, Orderly(q, s, b, bel),
         ~In(q, Start(bel)), s = bel => b < Len(q) + 1
  PROVE  Orderly(q, s, b, None)
  BY DEF Orderly, StartsEnd, ClearBehind, In

-----------------------------------------------------------------------------
(***************************************************************************)
(* How many of a queue's t have an x behind them: messages that will have  *)
(* been received when x runs.                                              *)
(***************************************************************************)
EarlierPlaces(q, t, x) == {i \in DOMAIN q : q[i] = t /\ \E j \in DOMAIN q : i < j /\ q[j] = x}
Earlier(q, t, x) == Cardinality(EarlierPlaces(q, t, x))

\* At most all of them.
LEMMA EarlierBound ==
  ASSUME NEW S, NEW q \in Seq(S), NEW t, NEW x
  PROVE  /\ IsFiniteSet(EarlierPlaces(q, t, x))
         /\ Earlier(q, t, x) \in Nat /\ Earlier(q, t, x) <= Count(q, t)
<1> DEFINE A == EarlierPlaces(q, t, x)
           B == {i \in DOMAIN q : q[i] = t}
<1>1. IsFiniteSet(B) /\ Count(q, t) = Cardinality(B)
  BY FinitePlaces DEF Count
<1>2. A \subseteq B
  BY DEF EarlierPlaces
<1> HIDE DEF A, B
<1>3. IsFiniteSet(A) /\ Cardinality(A) <= Cardinality(B)
  BY <1>1, <1>2, FS_Subset
<1>4. Cardinality(A) \in Nat
  BY <1>3, FS_CardinalityType
<1> QED
  BY <1>1, <1>3, <1>4 DEF Earlier, A

\* What joins a queue at its end has none behind it.
LEMMA EarlierAppended ==
  ASSUME NEW S, NEW q \in Seq(S), NEW y \in S, NEW t, NEW x, x # y
  PROVE  Earlier(Append(q, y), t, x) = Earlier(q, t, x)
<1> DEFINE p == Append(q, y)
           n == Len(q)
<1>1. /\ n \in Nat /\ DOMAIN q = 1..n /\ DOMAIN p = 1..(n + 1)
      /\ \A i \in 1..n : p[i] = q[i]
      /\ p[n + 1] = y
  OBVIOUS
<1> HIDE DEF p, n
<1>2. \A j \in DOMAIN p : p[j] = x => j \in DOMAIN q
  BY <1>1
<1>3. \A i \in DOMAIN p : (\E j \in DOMAIN q : i < j) => i \in DOMAIN q
  BY <1>1
<1>4. EarlierPlaces(p, t, x) = EarlierPlaces(q, t, x)
  BY <1>1, <1>2, <1>3 DEF EarlierPlaces
<1> QED
  BY <1>4 DEF Earlier, p

\* When the first has left.
LEMMA EarlierTaken ==
  ASSUME NEW S, NEW q \in Seq(S), q # <<>>, NEW t, NEW x
  PROVE  /\ t # Head(q) => Earlier(q, t, x) = Earlier(Tail(q), t, x)
         /\ t = Head(q) /\ In(Tail(q), x) => Earlier(q, t, x) = Earlier(Tail(q), t, x) + 1
<1> DEFINE p == Tail(q)
           n == Len(q)
           A == EarlierPlaces(p, t, x)
           B == EarlierPlaces(q, t, x) \ {1}
           f == [i \in A |-> i + 1]
<1>1. /\ n \in Nat \ {0} /\ DOMAIN p = 1..(n - 1) /\ p \in Seq(S)
      /\ DOMAIN q = 1..n /\ Head(q) = q[1]
      /\ \A i \in 1..(n - 1) : p[i] = q[i + 1]
  OBVIOUS
<1> HIDE DEF p, n
<1>2. \A i \in 2..n : i - 1 \in 1..(n - 1) /\ p[i - 1] = q[i]
  BY <1>1
<1>3. ASSUME NEW i \in A PROVE i + 1 \in B
  <2>1. i \in 1..(n - 1) /\ p[i] = t
    BY <1>1, <1>3 DEF EarlierPlaces
  <2>2. PICK j \in 1..(n - 1) : i < j /\ p[j] = x
    BY <1>1, <1>3 DEF EarlierPlaces
  <2>3. i + 1 \in 1..n /\ j + 1 \in 1..n /\ i + 1 < j + 1 /\ i + 1 # 1
    BY <1>1, <2>1, <2>2
  <2>4. q[i + 1] = t /\ q[j + 1] = x
    BY <1>1, <2>1, <2>2
  <2> QED
    BY <1>1, <2>3, <2>4 DEF EarlierPlaces
<1>4. ASSUME NEW k \in B PROVE k - 1 \in A /\ (k - 1) + 1 = k
  <2>1. k \in 2..n /\ q[k] = t
    BY <1>1, <1>4 DEF EarlierPlaces
  <2>2. PICK j \in 1..n : k < j /\ q[j] = x
    BY <1>1, <1>4 DEF EarlierPlaces
  <2>3. j \in 2..n
    BY <1>1, <2>1, <2>2
  <2>4. k - 1 \in 1..(n - 1) /\ j - 1 \in 1..(n - 1) /\ k - 1 < j - 1
    BY <1>1, <2>1, <2>2, <2>3
  <2>5. p[k - 1] = t /\ p[j - 1] = x
    BY <1>2, <2>1, <2>2, <2>3
  <2>6. k - 1 \in A
    BY <1>1, <2>4, <2>5 DEF EarlierPlaces
  <2>7. (k - 1) + 1 = k
    BY <1>1, <2>1
  <2> QED
    BY <2>6, <2>7
<1>5. A \subseteq Nat
  BY <1>1 DEF EarlierPlaces
<1>6. IsFiniteSet(A) /\ Cardinality(A) = Earlier(p, t, x) /\ Earlier(p, t, x) \in Nat
  BY <1>1, EarlierBound DEF Earlier
<1> HIDE DEF A, B
<1>7. f \in Bijection(A, B)
  <2>1. f \in [A -> B]
    BY <1>3
  <2>2. \A i, j \in A : f[i] = f[j] => i = j
    BY <1>5
  <2>3. \A k \in B : \E i \in A : f[i] = k
    BY <1>4
  <2> QED
    BY <2>1, <2>2, <2>3 DEF Bijection, Injection, Surjection, IsInjective
<1>8. IsFiniteSet(B) /\ Cardinality(B) = Earlier(p, t, x)
  BY <1>6, <1>7, FS_Bijection DEF ExistsBijection
<1>9. ASSUME t # Head(q) PROVE Earlier(q, t, x) = Earlier(p, t, x)
  <2>1. EarlierPlaces(q, t, x) = B
    BY <1>1, <1>9 DEF EarlierPlaces, B
  <2> QED
    BY <1>8, <2>1 DEF Earlier
<1>10. ASSUME t = Head(q), In(p, x) PROVE Earlier(q, t, x) = Earlier(p, t, x) + 1
  <2>1. PICK j \in 1..(n - 1) : p[j] = x
    BY <1>1, <1>10 DEF In
  <2>2. j + 1 \in 1..n /\ 1 \in 1..n /\ 1 < j + 1
    BY <1>1
  <2>3. q[j + 1] = x
    BY <1>1, <2>1
  <2>4. 1 \in EarlierPlaces(q, t, x)
    BY <1>1, <1>10, <2>2, <2>3 DEF EarlierPlaces
  <2>5. EarlierPlaces(q, t, x) = B \cup {1} /\ 1 \notin B
    BY <2>4 DEF B
  <2> QED
    BY <1>8, <2>5, FS_AddElement DEF Earlier
<1> QED
  BY <1>9, <1>10 DEF p

-----------------------------------------------------------------------------
(***************************************************************************)
(* An end that the client has not read yet has been written by a task that *)
(* has nothing more to say, and nothing has been written after it while    *)
(* the session is not forgotten.                                           *)
(***************************************************************************)
Spent == {"draining", "drained", "lost", "done"}

EndInv ==
  \A s \in SessionId : In(wire, Ended(s)) =>
    /\ mode = "ended" /\ task[s].at \in Spent
    /\ task[s].at = "lost" => broken
    /\ session = s => \A i \in DOMAIN wire : wire[i] = Ended(s) => i = Len(wire)

\* What is written differs with its type and its session.
LEMMA DifferentWords ==
  /\ \A s, r : Ended(s) = Ended(r) => s = r
  /\ \A s, r, n : Ended(s) # Fragment(r, n)
  /\ \A s, accepted : Ended(s) # ServerHello(accepted)
<1>1. \A s : Ended(s).type = "Ended" /\ Ended(s).session = s
  BY DEF Ended
<1>2. \A s, n : Fragment(s, n).type = "CommitText"
  BY DEF Fragment
<1>3. \A accepted : ServerHello(accepted).type = "ServerHello"
  BY DEF ServerHello
<1>4. ASSUME NEW s, NEW r, Ended(s) = Ended(r) PROVE s = r
  <2>1. Ended(s).session = Ended(r).session
    BY <1>4
  <2> QED
    BY <1>1, <2>1
<1> QED
  BY <1>1, <1>2, <1>3, <1>4

\* A step that writes and reads nothing.
LEMMA EndsStay ==
  ASSUME EndInv, UNCHANGED <<wire, mode>>, broken => broken',
         \A s \in SessionId : task[s].at \in Spent =>
           task'[s].at \in Spent /\ (task'[s].at = "lost" => task[s].at = "lost" \/ broken'),
         \/ session' \in {session, None}
         \/ session' \in SessionId /\ task[session'].at \notin Spent
  PROVE  EndInv'
<1> SUFFICES ASSUME NEW s \in SessionId, In(wire, Ended(s))
             PROVE  /\ mode = "ended" /\ task'[s].at \in Spent
                    /\ task'[s].at = "lost" => broken'
                    /\ session' = s => \A i \in DOMAIN wire : wire[i] = Ended(s) => i = Len(wire)
  BY DEF EndInv
<1>1. /\ mode = "ended" /\ task[s].at \in Spent
      /\ task[s].at = "lost" => broken
      /\ session = s => \A i \in DOMAIN wire : wire[i] = Ended(s) => i = Len(wire)
  BY DEF EndInv
<1>2. session' = s => session = s
  BY <1>1, ModesAssumption
<1> QED
  BY <1>1, <1>2

\* The handler's steps.
LEMMA HandlerEnds ==
  ASSUME IInv, EndInv, HandlerStep
  PROVE  EndInv'
<1>1. /\ task \in [SessionId -> TaskType] /\ session \in SessionId \cup {None}
      /\ WireInv /\ FreshInv /\ SessionInv /\ UNCHANGED mode
  BY HandlerQueue DEF IInv, TypeOK
<1>2. ASSUME NEW where, session # None, ClearsSession(where)
      PROVE  session' = None /\ \A s \in SessionId : task'[s].at = task[s].at
  BY <1>1, <1>2 DEF ClearsSession, TaskType
<1>3. ASSUME GivesUp
      PROVE  session' = None /\ \A s \in SessionId : task'[s].at = task[s].at
  BY <1>2, <1>3 DEF GivesUp
<1>4. ASSUME ReadsHello \/ RejectsHello PROVE EndInv'
  <2>1. handler = "hello"
    BY <1>4 DEF ReadsHello, RejectsHello
  <2>2. wire = <<>>
    BY <1>1, <2>1 DEF WireInv
  <2>3. PICK accepted \in BOOLEAN : wire' \in {wire, Append(wire, ServerHello(accepted))}
    BY <1>4 DEF ReadsHello, RejectsHello
  <2>4. ASSUME NEW s, In(wire', Ended(s)) PROVE FALSE
    <3>1. wire' = <<>> \/ wire' = <<ServerHello(accepted)>>
      BY <2>2, <2>3
    <3>2. DOMAIN <<>> = {} /\ DOMAIN <<ServerHello(accepted)>> = {1}
      OBVIOUS
    <3> QED
      BY <2>4, <3>1, <3>2, DifferentWords DEF In
  <2> QED
    BY <2>4 DEF EndInv
<1>5. ASSUME NEW s \in SessionId, StartsSession(s) PROVE EndInv'
  <2>1. task[s].at = "none" /\ session' = s /\ UNCHANGED <<wire, broken>>
    BY <1>1, <1>5, ReadFacts DEF StartsSession, FreshInv
  <2>2. \A r \in SessionId : r # s => task'[r] = task[r]
    BY <1>1, <1>5 DEF StartsSession
  <2> QED
    BY <1>1, <2>1, <2>2, EndsStay DEF Spent
<1>6. ASSUME ~(ReadsHello \/ RejectsHello), \A s \in SessionId : ~StartsSession(s)
      PROVE  EndInv'
  <2>1. /\ UNCHANGED <<wire, broken>>
        /\ session' \in {session, None} /\ \A s \in SessionId : task'[s].at = task[s].at
    BY <1>2, <1>3, <1>6, TaskNames
    DEF HandlerStep, RefusesSession, IgnoresInterrupt,
        InterruptsSession, InterruptOver, LeaveOver, ReadsUnexpected, ReadsEndOfInput, ReadsLost
  <2> QED
    BY <1>1, <2>1, EndsStay
<1> QED
  BY <1>4, <1>5, <1>6

\* The steps of a session's task.
LEMMA TaskEnds ==
  ASSUME IInv, EndInv, NEW s \in SessionId, TaskStep(s)
  PROVE  EndInv'
<1>1. /\ task \in [SessionId -> TaskType] /\ session \in SessionId \cup {None}
      /\ SessionInv /\ s # None
      /\ wire \in Seq({ServerHello(accepted) : accepted \in BOOLEAN} \cup {Ended(r) : r \in SessionId}
                         \cup {Fragment(r, n) : r \in SessionId, n \in 1..MaxSequence})
  BY TaskNames DEF IInv, TypeOK
<1>2. /\ loop # <<>> /\ Head(loop) = s /\ session' \in {session, None}
      /\ UNCHANGED <<mode, broken>>
  BY <1>1, TaskNames DEF TaskStep, TaskCancelled, TaskBegins, TaskWakes, TaskDrained, TaskFails, Runs,
     Written, Writes, WritesInVain, handlerVars
<1>3. \A r \in SessionId : r # s => task'[r] = task[r]
  <2>1. task \in [SessionId -> TaskType]
    BY <1>1
  <2> QED
    BY <2>1 DEF TaskStep, TaskCancelled, TaskBegins, TaskWakes, TaskDrained, TaskFails,
       TaskDone, Writes, Written, WritesInVain
<1>4. ASSUME task[s].at \in Spent => task'[s].at = "done" \/ mode # "ended", UNCHANGED wire
      PROVE  EndInv'
  <2>1. ASSUME mode # "ended" PROVE EndInv'
    BY <1>2, <1>4, <2>1 DEF EndInv
  <2>2. ASSUME mode = "ended" PROVE EndInv'
    BY <1>2, <1>3, <1>4, <2>2, EndsStay DEF Spent
  <2> QED
    BY <2>1, <2>2
<1>5. ASSUME TaskDone(s) PROVE task'[s].at = "done"
  BY <1>1, <1>5 DEF TaskDone, TaskType
<1>6. CASE TaskCancelled(s) \/ TaskFails(s)
  BY <1>4, <1>5, <1>6 DEF TaskCancelled, TaskFails
<1>7. CASE TaskBegins(s)
  BY <1>4, <1>7 DEF TaskBegins, Runs, Spent
<1>8. CASE TaskDrained(s)
  BY <1>4, <1>5, <1>8 DEF TaskDrained, Written
<1>9. CASE TaskWakes(s)
  <2>1. task[s].at = "woken"
    BY <1>9 DEF TaskWakes, Runs
  <2>2. task[s].at \notin Spent
    BY <2>1 DEF Spent
  <2>3. CASE UNCHANGED wire
    BY <1>4, <2>2, <2>3
  <2>4. CASE session = s /\ Writes(s)
    <3>1. wire' = Append(wire, Words(s)) /\ (mode # "ended" => \A r : Words(s) # Ended(r))
      BY <2>4, DifferentWords, ModesAssumption DEF Writes, Words, IInv, TypeOK
    <3>2. mode = "ended" => Words(s) = Ended(s) /\ task'[s].at \in {"draining", "done"}
      BY <1>1, <1>5, <2>4 DEF Words, Writes, Written, TaskType
    <3> DEFINE n == Len(wire)
    <3>3. /\ n \in Nat /\ DOMAIN wire = 1..n /\ DOMAIN wire' = 1..(n + 1) /\ Len(wire') = n + 1
          /\ \A i \in 1..n : wire'[i] = wire[i]
          /\ wire'[n + 1] = Words(s)
      BY <1>1, <3>1
    <3> HIDE DEF n
    <3>4. ~In(wire, Ended(s))
      BY <2>2 DEF EndInv
    <3> SUFFICES ASSUME NEW r \in SessionId, In(wire', Ended(r))
                 PROVE  /\ mode = "ended" /\ task'[r].at \in Spent
                        /\ task'[r].at = "lost" => broken
                        /\ session' = r => \A i \in DOMAIN wire' : wire'[i] = Ended(r) => i = Len(wire')
      BY <1>2 DEF EndInv
    <3>5. In(wire, Ended(r)) \/ Words(s) = Ended(r)
      BY <3>3 DEF In
    <3>6. CASE r # s
      <4>1. In(wire, Ended(r)) /\ session' # r
        BY <1>1, <1>2, <2>4, <3>1, <3>2, <3>5, <3>6, DifferentWords, TaskNames
      <4> QED
        BY <1>3, <3>6, <4>1 DEF EndInv
    <3>7. CASE r = s
      <4>1. mode = "ended" /\ task'[s].at \in {"draining", "done"}
        BY <3>1, <3>2, <3>4, <3>5, <3>7
      <4>2. \A i \in 1..(n + 1) : i \in 1..n \/ i = n + 1
        BY <3>3
      <4>3. \A i \in DOMAIN wire' : wire'[i] = Ended(s) => i = n + 1
        BY <3>3, <3>4, <4>2 DEF In
      <4> QED
        BY <3>3, <3>7, <4>1, <4>3 DEF Spent
    <3> QED
      BY <3>6, <3>7
  <2> QED
    BY <1>9, <2>3, <2>4 DEF TaskWakes, WritesInVain
<1> QED
  BY <1>6, <1>7, <1>8, <1>9 DEF TaskStep

\* The client reads what was written first, and a write that waits goes on.
LEMMA ClientReadsEnds ==
  ASSUME IInv, EndInv, ClientReads
  PROVE  EndInv'
<1> DEFINE n == Len(wire)
<1>1. wire \in Seq({ServerHello(accepted) : accepted \in BOOLEAN} \cup {Ended(r) : r \in SessionId}
                      \cup {Fragment(r, k) : r \in SessionId, k \in 1..MaxSequence})
  BY DEF IInv, TypeOK
<1>2. wire # <<>> /\ wire' = Tail(wire) /\ UNCHANGED <<mode, session, broken>>
  BY DEF ClientReads, handlerVars
<1>3. /\ n \in Nat \ {0} /\ DOMAIN wire = 1..n /\ DOMAIN wire' = 1..(n - 1) /\ Len(wire') = n - 1
      /\ \A i \in 1..(n - 1) : i + 1 \in 1..n /\ wire'[i] = wire[i + 1]
  BY <1>1, <1>2
<1>4. \A s \in SessionId : task[s].at \in Spent =>
        task'[s].at \in Spent /\ (task'[s].at = "lost" => task[s].at = "lost")
  <2>1. task \in [SessionId -> TaskType]
    BY DEF IInv, TypeOK
  <2> QED
    BY <2>1 DEF ClientReads, TaskType, Spent
<1> HIDE DEF n
<1> SUFFICES ASSUME NEW s \in SessionId, In(wire', Ended(s))
             PROVE  /\ mode = "ended" /\ task'[s].at \in Spent
                    /\ task'[s].at = "lost" => broken
                    /\ session = s => \A i \in DOMAIN wire' : wire'[i] = Ended(s) => i = Len(wire')
  BY <1>2 DEF EndInv
<1>5. In(wire, Ended(s))
  BY <1>3 DEF In
<1>6. /\ mode = "ended" /\ task[s].at \in Spent /\ (task[s].at = "lost" => broken)
      /\ session = s => \A i \in DOMAIN wire : wire[i] = Ended(s) => i = n
  BY <1>5 DEF EndInv, n
<1>7. ASSUME session = s, NEW i \in DOMAIN wire', wire'[i] = Ended(s) PROVE i = Len(wire')
  <2>1. i \in 1..(n - 1) /\ i + 1 \in 1..n /\ wire[i + 1] = Ended(s)
    BY <1>3, <1>7
  <2>2. i + 1 = n
    BY <1>3, <1>6, <1>7, <2>1
  <2> QED
    BY <1>3, <2>1, <2>2
<1> QED
  BY <1>4, <1>6, <1>7

\* Every step.
LEMMA NextEnds ==
  ASSUME IInv, EndInv, [Next]_vars
  PROVE  EndInv'
<1>1. task \in [SessionId -> TaskType]
  BY DEF IInv, TypeOK
<1>2. CASE LosesConnection
  <2>1. \A s \in SessionId : task[s].at \in Spent => task'[s].at \in Spent
    BY <1>1, <1>2 DEF LosesConnection, TaskType, Spent
  <2>2. broken' /\ UNCHANGED <<wire, mode, session>>
    BY <1>2 DEF LosesConnection, handlerVars
  <2> QED
    BY <2>1, <2>2, EndsStay
<1>3. ASSUME NEW s \in SessionId, SleepEnds(s) PROVE EndInv'
  <2>1. task[s].at \notin Spent /\ \A r \in SessionId : r # s => task'[r] = task[r]
    BY <1>1, <1>3 DEF SleepEnds, Spent
  <2>2. UNCHANGED <<wire, mode, session, broken>>
    BY <1>3 DEF SleepEnds, handlerVars
  <2> QED
    BY <2>1, <2>2, EndsStay
<1>4. ASSUME UNCHANGED <<wire, mode, session, broken, task>> PROVE EndInv'
  BY <1>4, EndsStay
<1>5. CASE ReceivesData \/ Closes \/ SendingFails \/ (\E m \in Message : ClientSends(m)) \/ ClientLeaves
  BY <1>4, <1>5 DEF ReceivesData, Closes, SendingFails, ClientSends, ClientLeaves, handlerVars
<1>6. CASE UNCHANGED vars
  BY <1>4, <1>6 DEF vars, handlerVars
<1> QED
  BY <1>2, <1>3, <1>5, <1>6, HandlerEnds, TaskEnds, ClientReadsEnds DEF Next, LoopStep, ClientStep

-----------------------------------------------------------------------------
(***************************************************************************)
(* The inductive invariant.  As long as the connection lives and no end is *)
(* in sight, what a polite client has sent is in order.                    *)
(***************************************************************************)
Line == inbox \o sent

\* The task has said the end of session s, and clears it when it next runs.
Gone(s) == mode = "ended" /\ task[s].at = "drained"

\* The handler has not read past this message of Line when the session is forgotten.
Forgotten ==
  IF session # None /\ Gone(session)
  THEN Len(inbox) + Earlier(loop, Receive, session)
  ELSE Len(Line) + 1

Serving == handler \in {"hello", "message", "running", "interrupting"}

PoliteInv ==
  polite => ~refused /\ (~broken /\ Serving => Orderly(Line, session, Forgotten, believed))

LineBounds ==
  /\ inbox \in Seq(Messages) /\ sent \in Seq(Messages) /\ Line \in Seq(Messages)
  /\ Len(inbox) \in Nat /\ Len(Line) \in Nat /\ Len(Line) = Len(inbox) + Len(sent)
  /\ \A x : Earlier(loop, Receive, x) \in Nat /\ Earlier(loop, Receive, x) <= Len(sent)
  /\ Forgotten \in Nat /\ Forgotten <= Len(Line) + 1

\* What the terms of the invariant are.
LEMMA LineFacts ==
  ASSUME IInv
  PROVE  /\ inbox \in Seq(Messages) /\ sent \in Seq(Messages) /\ Line \in Seq(Messages)
         /\ Len(inbox) \in Nat /\ Len(sent) \in Nat /\ Len(Line) \in Nat
         /\ Len(Line) = Len(inbox) + Len(sent) /\ DOMAIN Line \subseteq Nat
         /\ \A x : Earlier(loop, Receive, x) \in Nat /\ Earlier(loop, Receive, x) <= Len(sent)
         /\ Forgotten \in Nat /\ Forgotten <= Len(Line) + 1
         /\ \A m : In(Line, m) => In(inbox, m) \/ In(sent, m)
         /\ session \in SessionId \cup {None} /\ believed \in SessionId \cup {None}
<1>1. /\ inbox \in Seq(Messages) /\ sent \in Seq(Messages) /\ loop \in Seq(Tasks)
      /\ session \in SessionId \cup {None} /\ believed \in SessionId \cup {None}
      /\ Count(loop, Receive) = Len(sent)
  BY DEF IInv, TypeOK, LoopInv, Messages, Tasks
<1>2. /\ Line \in Seq(Messages) /\ Len(Line) = Len(inbox) + Len(sent)
      /\ Len(inbox) \in Nat /\ Len(sent) \in Nat /\ DOMAIN Line \subseteq Nat
  BY <1>1 DEF Line
<1>3. \A x : Earlier(loop, Receive, x) \in Nat /\ Earlier(loop, Receive, x) <= Len(sent)
  BY <1>1, EarlierBound
<1>4. Forgotten \in Nat /\ Forgotten <= Len(Line) + 1
  <2>1. CASE session # None /\ Gone(session)
    <3>1. PICK e \in Nat : e = Earlier(loop, Receive, session) /\ e <= Len(sent)
      BY <1>3
    <3>2. Forgotten = Len(inbox) + e
      BY <2>1, <3>1 DEF Forgotten
    <3> QED
      BY <1>2, <3>1, <3>2
  <2>2. CASE ~(session # None /\ Gone(session))
    BY <1>2, <2>2 DEF Forgotten
  <2> QED
    BY <2>1, <2>2
<1>5. ASSUME NEW m, In(Line, m) PROVE In(inbox, m) \/ In(sent, m)
  <2>1. PICK i \in DOMAIN Line : Line[i] = m
    BY <1>5 DEF In
  <2>2. \/ i \in DOMAIN inbox /\ inbox[i] = m
        \/ i - Len(inbox) \in DOMAIN sent /\ sent[i - Len(inbox)] = m
    BY <1>1, <2>1 DEF Line
  <2> QED
    BY <2>2 DEF In
<1> QED
  BY <1>1, <1>2, <1>3, <1>4, <1>5

\* In short.
LEMMA LineIsBounded == IInv => LineBounds
  BY LineFacts DEF LineBounds

\* The same of the next state.
LEMMA NextLineIsBounded == IInv' => LineBounds'
  BY LineIsBounded, PTL

-----------------------------------------------------------------------------
(***************************************************************************)
(* The invariant under what the steps do to the line and to the session.   *)
(***************************************************************************)
\* The line stays, and the session does or is forgotten.
LEMMA PoliteRests ==
  ASSUME IInv, IInv', PoliteInv, UNCHANGED <<inbox, sent, believed, polite, refused>>,
         Serving' /\ ~broken' => Serving /\ ~broken,
         session' \in {session, None},
         session' # None /\ Gone(session) => Forgotten' <= Forgotten
  PROVE  PoliteInv'
<1>1. /\ Line \in Seq(Messages) /\ Len(Line) \in Nat /\ DOMAIN Line \subseteq Nat
      /\ Forgotten \in Nat /\ UNCHANGED Line
  BY LineFacts DEF Line
<1>2. Forgotten' \in Nat /\ Forgotten' <= Len(Line) + 1
  BY <1>1, NextLineIsBounded DEF LineBounds
<1>3. session' # None => Forgotten' <= Forgotten
  <2>1. session' # None /\ ~Gone(session) => Forgotten = Len(Line) + 1
    BY DEF Forgotten
  <2> QED
    BY <1>2, <2>1
<1>4. ASSUME polite, ~broken, Serving PROVE Orderly(Line, session', Forgotten', believed)
  <2>1. PICK c \in Nat : c = Forgotten'
    BY <1>2
  <2>2. Orderly(Line, session, Forgotten, believed)
    BY <1>4 DEF PoliteInv
  <2>3. Orderly(Line, None, c, believed) /\ (c <= Forgotten => Orderly(Line, session, c, believed))
    BY <1>1, <2>2, OrderlyForgotten
  <2> QED
    BY <1>3, <2>1, <2>3
<1> QED
  BY <1>1, <1>4 DEF PoliteInv

\* What the handler reads is the first in the line.
LEMMA LineRead ==
  ASSUME IInv, NEW m, Reads(m), UNCHANGED sent
  PROVE  Line # <<>> /\ Head(Line) = m /\ Line' = Tail(Line) /\ Len(inbox') = Len(inbox) - 1
<1>1. inbox \in Seq(Messages) /\ sent \in Seq(Messages)
  BY LineFacts
<1>2. inbox # <<>> /\ Head(inbox) = m /\ inbox' = Tail(inbox)
  BY DEF Reads
<1>3. /\ inbox \o sent # <<>> /\ Head(inbox \o sent) = Head(inbox)
      /\ Tail(inbox \o sent) = Tail(inbox) \o sent /\ Len(Tail(inbox)) = Len(inbox) - 1
  BY <1>1, <1>2
<1> QED
  BY <1>2, <1>3 DEF Line

\* A message is read that starts nothing and ends, if anything, the session.
LEMMA PoliteReads ==
  ASSUME IInv, IInv', PoliteInv, NEW m, Reads(m), Serving,
         UNCHANGED <<sent, believed, polite, refused>>,
         session' \in {session, None},
         session' # None => m # Interrupt(session) /\ Forgotten' + 1 <= Forgotten
  PROVE  PoliteInv'
<1>1. /\ Line \in Seq(Messages) /\ Len(Line) \in Nat /\ DOMAIN Line \subseteq Nat
      /\ Forgotten \in Nat
      /\ session \in SessionId \cup {None} /\ believed \in SessionId \cup {None}
  BY LineFacts
<1>2. Line # <<>> /\ Head(Line) = m /\ Line' = Tail(Line)
  BY LineRead
<1>3. PICK c \in Nat : c = Forgotten'
  BY NextLineIsBounded DEF LineBounds
<1>4. ASSUME polite PROVE ~refused /\ Orderly(Tail(Line), session', c, believed)
  <2>1. ~refused /\ Orderly(Line, session, Forgotten, believed)
    BY <1>4 DEF PoliteInv, Reads
  <2>2. CASE session' # None
    <3>1. session' = session /\ c + 1 <= Forgotten /\ Head(Line) # Interrupt(session)
      BY <1>2, <1>3, <2>2
    <3> QED
      BY <1>1, <1>2, <2>1, <3>1, OrderlyTaken
  <2>3. CASE session' = None
    <3>1. Orderly(Line, None, c, believed)
      BY <1>1, <2>1, OrderlyForgotten
    <3>2. Orderly(Tail(Line), None, c, believed)
      BY <1>1, <1>2, <3>1, OrderlyTaken
    <3> QED
      BY <2>1, <2>3, <3>2
  <2> QED
    BY <2>2, <2>3
<1> QED
  BY <1>2, <1>3, <1>4 DEF PoliteInv

\* A StartSession is read, with no session on.
LEMMA PoliteStarts ==
  ASSUME IInv, IInv', PoliteInv, NEW s \in SessionId, StartsSession(s)
  PROVE  PoliteInv'
<1>1. /\ Line \in Seq(Messages) /\ Forgotten \in Nat /\ believed \in SessionId \cup {None}
  BY LineFacts
<1>2. /\ Line # <<>> /\ Head(Line) = Start(s) /\ Line' = Tail(Line)
      /\ session = None /\ session' = s /\ UNCHANGED <<believed, polite, refused>>
      /\ Serving /\ ~broken
  BY LineRead DEF StartsSession, clientVars, InSession, Serving, Reads
<1>3. PICK c \in Nat : c = Forgotten'
  BY NextLineIsBounded DEF LineBounds
<1>4. ASSUME polite PROVE ~refused /\ Orderly(Tail(Line), s, c, believed)
  <2>1. ~refused /\ Orderly(Line, None, Forgotten, believed)
    BY <1>2, <1>4 DEF PoliteInv
  <2> QED
    BY <1>1, <1>2, <2>1, OrderlyStarted
<1> QED
  BY <1>2, <1>3, <1>4 DEF PoliteInv

\* No StartSession of a polite client is read during a session: the one that is on
\* would have to be interrupted, or forgotten, before the first message in the line.
LEMMA PoliteIsNotRefused ==
  ASSUME IInv, PoliteInv, NEW s \in SessionId, RefusesSession(s)
  PROVE  ~polite
<1>1. /\ Line \in Seq(Messages) /\ Len(inbox) \in Nat /\ Len(Line) \in Nat
      /\ \A x : Earlier(loop, Receive, x) \in Nat
  BY LineFacts
<1>2. /\ Line # <<>> /\ Head(Line) = Start(s) /\ session # None /\ Serving /\ ~broken
      /\ inbox # <<>> /\ inbox \in Seq(Messages)
  BY LineRead, LineFacts DEF RefusesSession, clientVars, InSession, Serving, Reads
<1>3. 1 \in DOMAIN Line /\ Line[1] = Start(s)
  BY <1>1, <1>2
<1>4. ~Between(Line, session, 0, 1)
  <2>1. \A j \in DOMAIN Line : ~(0 < j /\ j < 1)
    BY <1>1
  <2> QED
    BY <2>1 DEF Between
<1>5. ~(Forgotten < 1)
  <2>1. CASE Gone(session)
    <3>1. PICK e \in Nat : e = Earlier(loop, Receive, session)
      BY <1>1
    <3>2. Forgotten = Len(inbox) + e /\ Len(inbox) # 0
      BY <1>2, <2>1, <3>1 DEF Forgotten
    <3> QED
      BY <1>1, <3>2
  <2>2. CASE ~Gone(session)
    BY <1>1, <2>2 DEF Forgotten
  <2> QED
    BY <2>1, <2>2
<1> QED
  BY <1>2, <1>3, <1>4, <1>5 DEF PoliteInv, Orderly, ClearAhead

\* The handler's steps.
LEMMA HandlerPolite ==
  ASSUME IInv, IInv', PoliteInv, HandlerStep
  PROVE  PoliteInv'
<1>1. /\ SessionInv /\ session \in SessionId \cup {None} /\ None \notin SessionId
      /\ UNCHANGED <<mode, sent, believed, polite>>
  BY HandlerQueue, ModesAssumption DEF IInv, TypeOK, clientVars
<1>2. ASSUME ~Serving', UNCHANGED refused PROVE PoliteInv'
  BY <1>1, <1>2 DEF PoliteInv
<1>3. ASSUME GivesUp PROVE ~Serving'
  BY <1>3 DEF GivesUp, ClearsSession, Serving
<1>4. ASSUME ReadsHello PROVE PoliteInv'
  <2>1. CASE clientOpen
    <3>1. Reads(Hello(TRUE)) /\ Serving /\ session = None /\ session' = None /\ UNCHANGED refused
      BY <1>1, <1>4, <2>1 DEF ReadsHello, SessionInv, Serving
    <3> QED
      BY <1>1, <3>1, PoliteReads
  <2>2. CASE ~clientOpen
    BY <1>2, <1>3, <1>4, <2>2 DEF ReadsHello
  <2> QED
    BY <2>1, <2>2
<1>5. ASSUME RejectsHello \/ ReadsUnexpected \/ ReadsEndOfInput \/ ReadsLost \/ LeaveOver PROVE PoliteInv'
  <2>1. ASSUME LeaveOver PROVE ~Serving' /\ UNCHANGED refused
    BY <2>1 DEF LeaveOver, Serving
  <2>2. ~Serving' /\ UNCHANGED refused
    BY <1>3, <1>5, <2>1 DEF RejectsHello, ReadsUnexpected, ReadsEndOfInput, ReadsLost
  <2> QED
    BY <1>2, <2>2
<1>6. ASSUME NEW s \in SessionId, RefusesSession(s) PROVE PoliteInv'
  BY <1>1, <1>6, PoliteIsNotRefused DEF PoliteInv
<1>7. ASSUME NEW s \in SessionId, IgnoresInterrupt(s) PROVE PoliteInv'
  <2>1. /\ Reads(Interrupt(s)) /\ session # s /\ InSession /\ ReadsOn(<<>>)
        /\ UNCHANGED <<session, task, refused>>
    BY <1>7 DEF IgnoresInterrupt
  <2>2. Serving /\ Interrupt(s) # Interrupt(session)
    BY <2>1, DifferentMessages DEF Serving, InSession
  <2>3. /\ loop # <<>> /\ Head(loop) = Handler /\ loop \in Seq(Tasks) /\ Tail(loop) \in Seq(Tasks)
        /\ HandlerRuns
    BY <2>1, ReadFacts, HandlerTurn
  <2>4. loop' = loop \/ loop' = Tail(loop)
    BY <2>1, <2>3, ConcatEmptySeq DEF ReadsOn
  <2>9. \A x : Earlier(loop, Receive, x) = Earlier(Tail(loop), Receive, x)
    BY <2>3, EarlierTaken, TaskNames
  <2>5. \A x : Earlier(loop', Receive, x) = Earlier(loop, Receive, x)
    BY <2>4, <2>9
  <2>6. Len(inbox') = Len(inbox) - 1 /\ Line' = Tail(Line) /\ Line # <<>>
    BY <1>1, <2>1, LineRead
  <2>7. Len(Line') = Len(Line) - 1
    BY <2>6, LineFacts
  <2>8. Forgotten' + 1 <= Forgotten
    <3>1. Gone(session)' <=> Gone(session)
      BY <1>1, <2>1 DEF Gone
    <3>2. CASE session # None /\ Gone(session)
      <4>1. PICK e \in Nat : e = Earlier(loop, Receive, session)
        BY LineFacts
      <4>2. Forgotten = Len(inbox) + e /\ Forgotten' = Len(inbox') + e
        BY <2>1, <2>5, <3>1, <3>2, <4>1 DEF Forgotten
      <4> QED
        BY <2>6, <4>2, LineFacts
    <3>3. CASE ~(session # None /\ Gone(session))
      <4>1. Forgotten = Len(Line) + 1 /\ Forgotten' = Len(Line') + 1
        BY <2>1, <3>1, <3>3 DEF Forgotten
      <4> QED
        BY <2>7, <4>1, LineFacts
    <3> QED
      BY <3>2, <3>3
  <2> QED
    BY <1>1, <2>1, <2>2, <2>8, PoliteReads
<1>8. ASSUME NEW s \in SessionId, InterruptsSession(s) PROVE PoliteInv'
  <2>1. Reads(Interrupt(s)) /\ Serving /\ session' = None /\ UNCHANGED refused
    BY <1>8 DEF InterruptsSession, ClearsSession, InSession, Serving
  <2> QED
    BY <1>1, <2>1, PoliteReads
<1>9. ASSUME InterruptOver PROVE PoliteInv'
  <2>1. /\ HandlerRuns /\ Awaiting /\ Serving /\ UNCHANGED <<inbox, session, broken, refused>>
    BY <1>9 DEF InterruptOver, Serving, Awaiting
  <2>2. session = None
    BY <2>1, HandlerTurn
  <2> QED
    BY <1>1, <2>1, <2>2, PoliteRests
<1> QED
  BY <1>4, <1>5, <1>6, <1>7, <1>8, <1>9, PoliteStarts DEF HandlerStep

\* What the server receives stays in its place in the line, and so does the end of the
\* session.
LEMMA ReceivesPolite ==
  ASSUME IInv, IInv', PoliteInv, ReceivesData
  PROVE  PoliteInv'
<1>1. /\ loop # <<>> /\ Head(loop) = Receive
      /\ UNCHANGED <<mode, handler, session, task, broken, believed, polite, refused>>
  BY DEF ReceivesData, handlerVars
<1>2. /\ sent # <<>> /\ sent \in Seq(Messages) /\ inbox \in Seq(Messages)
      /\ session \in SessionId \cup {None} /\ believed \in SessionId \cup {None}
  BY <1>1, FrontFacts, LineFacts
<1>3. Line' = Line /\ Len(inbox') = Len(inbox) + 1
  <2>1. Append(inbox, Head(sent)) \o Tail(sent) = inbox \o sent
    BY <1>2
  <2>2. inbox' = Append(inbox, Head(sent)) /\ sent' = Tail(sent)
    BY DEF ReceivesData
  <2> QED
    BY <1>2, <2>1, <2>2 DEF Line
<1>4. Forgotten' = Forgotten
  <2>1. Gone(session)' <=> Gone(session)
    BY <1>1 DEF Gone
  <2>2. CASE session # None /\ Gone(session)
    <3> DEFINE q == Tail(loop)
    <3>1. loop \in Seq(Tasks) /\ q \in Seq(Tasks) /\ session \in SessionId
      BY <1>1, <1>2, <2>2, FrontFacts
    <3>2. In(q, session)
      <4>1. In(loop, session)
        BY <2>2, <3>1 DEF IInv, LoopInv, Due, Alive, Gone
      <4> QED
        BY <1>1, <3>1, <4>1, FrontFacts, TaskNames
    <3>3. Earlier(loop, Receive, session) = Earlier(q, Receive, session) + 1
      BY <1>1, <3>1, <3>2, EarlierTaken
    <3>4. loop' = q \/ loop' = Append(q, Handler)
      <4>1. q \o <<>> = q /\ q \o <<Handler>> = Append(q, Handler)
        BY <3>1, Extended, TaskNames
      <4> QED
        BY <4>1 DEF ReceivesData, HandlerWoken
    <3>8. Earlier(Append(q, Handler), Receive, session) = Earlier(q, Receive, session)
      <4>1. session # Handler /\ Handler \in Tasks
        BY <3>1, TaskNames
      <4> HIDE DEF q
      <4> QED
        BY <3>1, <4>1, EarlierAppended
    <3>5. Earlier(loop', Receive, session) = Earlier(q, Receive, session)
      BY <3>4, <3>8
    <3>6. PICK e \in Nat : e = Earlier(q, Receive, session)
      BY <3>1, EarlierBound
    <3>7. Forgotten = Len(inbox) + (e + 1) /\ Forgotten' = Len(inbox') + e
      BY <1>1, <2>1, <2>2, <3>3, <3>5, <3>6 DEF Forgotten
    <3> QED
      BY <1>2, <1>3, <3>7
  <2>3. CASE ~(session # None /\ Gone(session))
    BY <1>1, <1>3, <2>1, <2>3 DEF Forgotten
  <2> QED
    BY <2>2, <2>3
<1>5. Serving' <=> Serving
  BY <1>1 DEF Serving
<1> QED
  BY <1>1, <1>3, <1>4, <1>5 DEF PoliteInv

\* A task's turn: with the end said, it forgets the session.
LEMMA TaskPolite ==
  ASSUME IInv, IInv', PoliteInv, NEW s \in SessionId, TaskStep(s)
  PROVE  PoliteInv'
<1>1. /\ loop # <<>> /\ Head(loop) = s /\ session' \in {session, None}
      /\ UNCHANGED <<handler, broken, inbox, clientVars, refused>>
  BY TaskNames DEF TaskStep, TaskCancelled, TaskBegins, TaskWakes, TaskDrained, TaskFails, Runs,
     Written, Writes, WritesInVain, handlerVars
<1>2. SessionInv /\ Alive(s)
  BY <1>1, FrontFacts DEF Due, IInv
<1>3. ASSUME session' # None PROVE ~Gone(session)
  <2>1. session' = session /\ session = s /\ ~task[s].cancelled
    BY <1>1, <1>2, <1>3 DEF SessionInv
  <2>2. ASSUME Gone(s) PROVE FALSE
    <3>1. TaskDrained(s) /\ mode = "ended"
      BY <2>1, <2>2 DEF TaskStep, TaskCancelled, TaskBegins, TaskWakes, TaskFails, Runs, Gone
    <3>2. session' = None
      BY <2>1, <3>1 DEF TaskDrained, Written
    <3> QED
      BY <1>3, <3>2
  <2> QED
    BY <2>1, <2>2
<1>4. Serving' <=> Serving
  BY <1>1 DEF Serving
<1> QED
  BY <1>1, <1>3, <1>4, PoliteRests DEF clientVars

\* One more message joins the line: a StartSession only if the client runs nothing.
LEMMA SendsPolite ==
  ASSUME IInv, IInv', PoliteInv, NEW m \in Messages, Sends(m),
         UNCHANGED <<mode, handler, session, task, inbox, broken, refused>>,
         polite' => polite,
         polite' =>
           \/ /\ \A r \in SessionId : m # Start(r)
              /\ believed' = believed \/ (m = Interrupt(believed) /\ believed' = None)
           \/ believed = None /\ \E r \in SessionId : m = Start(r) /\ believed' = r
  PROVE  PoliteInv'
<1>1. /\ inbox \in Seq(Messages) /\ sent \in Seq(Messages) /\ Line \in Seq(Messages)
      /\ Len(Line) \in Nat /\ Forgotten \in Nat
      /\ session \in SessionId \cup {None} /\ believed \in SessionId \cup {None}
  BY LineFacts
<1>2. Line' = Append(Line, m)
  <2>1. inbox \o Append(sent, m) = Append(inbox \o sent, m)
    BY <1>1
  <2> QED
    BY <2>1 DEF Line, Sends
<1>3. Forgotten' = Forgotten \/ Forgotten >= Len(Line) + 1
  <2>1. Gone(session)' <=> Gone(session)
    BY DEF Gone
  <2>2. CASE session # None /\ Gone(session)
    <3>1. session # Receive /\ Receive \in Tasks /\ loop \in Seq(Tasks)
      BY <1>1, <2>2, TaskNames DEF IInv, TypeOK, Tasks
    <3>2. Earlier(Append(loop, Receive), Receive, session) = Earlier(loop, Receive, session)
      BY <3>1, EarlierAppended
    <3> QED
      BY <2>1, <2>2, <3>2 DEF Forgotten, Sends
  <2>3. CASE ~(session # None /\ Gone(session))
    BY <1>1, <2>3 DEF Forgotten
  <2> QED
    BY <2>2, <2>3
<1>4. PICK c \in Nat : c = Forgotten'
  BY NextLineIsBounded DEF LineBounds
<1>5. believed' \in SessionId \cup {None}
  BY DEF IInv, TypeOK
<1>6. Serving' <=> Serving
  BY DEF Serving
<1>7. ASSUME polite', ~broken, Serving PROVE Orderly(Append(Line, m), session, c, believed')
  <2>1. PICK new \in SessionId \cup {None} : new = believed'
    BY <1>5
  <2>2. Orderly(Line, session, Forgotten, believed)
    BY <1>7 DEF PoliteInv
  <2>3. c <= Forgotten \/ Forgotten >= Len(Line) + 1
    BY <1>1, <1>3, <1>4
  <2>4. \/ /\ \A r \in SessionId : m # Start(r)
           /\ new = believed \/ (m = Interrupt(believed) /\ new = None)
        \/ believed = None /\ \E r \in SessionId : m = Start(r) /\ new = r
    BY <1>7, <2>1
  <2>5. Orderly(Append(Line, m), session, c, new)
    BY <1>1, <2>2, <2>3, <2>4, OrderlyAppended
  <2> QED
    BY <2>1, <2>5
<1> QED
  BY <1>2, <1>4, <1>6, <1>7 DEF PoliteInv

\* The client sends, as its manners are, or leaves.
LEMMA ClientPolite ==
  ASSUME IInv, IInv', PoliteInv, (\E m \in Message : ClientSends(m)) \/ ClientLeaves
  PROVE  PoliteInv'
<1>1. polite \in BOOLEAN
  BY DEF IInv, TypeOK
<1>2. ASSUME NEW m \in Message, ClientSends(m) PROVE PoliteInv'
  <2>1. m \in Messages /\ Sends(m)
    BY <1>2 DEF ClientSends, Messages
  <2>2. UNCHANGED <<mode, handler, session, task, inbox, broken, refused>>
    BY <1>2 DEF ClientSends, handlerVars
  <2>3. polite' => polite /\ (m.type = "StartSession" => believed = None)
    BY <1>2 DEF ClientSends
  <2>4. CASE m.type = "StartSession"
    <3>1. PICK r \in SessionId : m = Start(r)
      BY <2>1, <2>4, DifferentMessages
    <3>2. believed' = m.session /\ m.session = r
      BY <1>2, <2>4, <3>1, DifferentMessages DEF ClientSends
    <3> QED
      BY <2>1, <2>2, <2>3, <2>4, <3>1, <3>2, SendsPolite
  <2>5. CASE m.type # "StartSession"
    <3>1. \A r \in SessionId : m # Start(r)
      BY <2>5, DifferentMessages
    <3>2. believed' = believed \/ (m = Interrupt(believed) /\ believed' = None)
      BY <1>2, <2>5 DEF ClientSends
    <3> QED
      BY <2>1, <2>2, <2>3, <3>1, <3>2, SendsPolite
  <2> QED
    BY <2>4, <2>5
<1>3. ASSUME ClientLeaves PROVE PoliteInv'
  <2>1. EndOfInput \in Messages /\ \A r \in SessionId : EndOfInput # Start(r)
    BY DifferentMessages DEF Messages
  <2>2. /\ Sends(EndOfInput)
        /\ UNCHANGED <<mode, handler, session, task, inbox, broken, believed, polite, refused>>
    BY <1>3 DEF ClientLeaves, handlerVars
  <2> QED
    BY <2>1, <2>2, SendsPolite
<1> QED
  BY <1>2, <1>3

\* The client reads.  When it has read that its session is over, nothing it has sent
\* starts that session, and if the server has not forgotten it, its task is about to.
LEMMA ClientReadsPolite ==
  ASSUME IInv, IInv', EndInv, PoliteInv, ClientReads
  PROVE  PoliteInv'
<1> DEFINE drained == {s \in SessionId : Waiting(s) /\ Len(wire') <= HighWater}
<1>1. /\ task' = [s \in SessionId |->
                    IF s \in drained THEN [task[s] EXCEPT !.at = "drained"] ELSE task[s]]
      /\ loop' = loop \o IF drained = {} THEN <<>> ELSE <<CHOOSE s \in drained : TRUE>>
      /\ wire # <<>> /\ wire' = Tail(wire)
      /\ believed' = IF Head(wire) = Ended(believed) THEN None ELSE believed
      /\ UNCHANGED <<mode, handler, session, sent, inbox, broken, polite, refused>>
  BY DEF ClientReads, handlerVars
<1>2. /\ Line \in Seq(Messages) /\ Len(Line) \in Nat /\ DOMAIN Line \subseteq Nat
      /\ Forgotten \in Nat /\ Line' = Line
      /\ session \in SessionId \cup {None} /\ believed \in SessionId \cup {None}
  BY <1>1, LineFacts DEF Line
<1>3. PICK c \in Nat : c = Forgotten' /\ c <= Len(Line) + 1
  BY <1>2, NextLineIsBounded DEF LineBounds
<1>4. task \in [SessionId -> TaskType] /\ SessionInv /\ LoopInv /\ loop \in Seq(Tasks)
  BY DEF IInv, TypeOK, Tasks
<1>5. c <= Forgotten
  <2>1. CASE session # None /\ Gone(session)
    <3>1. session \in SessionId /\ session \notin drained
      BY <1>2, <2>1 DEF Gone, Waiting
    <3>2. task'[session] = task[session]
      BY <1>1, <3>1
    <3>3. Earlier(loop', Receive, session) = Earlier(loop, Receive, session)
      <4>1. CASE drained = {}
        BY <1>1, <1>4, <4>1, ConcatEmptySeq
      <4>2. CASE drained # {}
        <5>1. PICK r \in drained : r = CHOOSE s \in drained : TRUE
          BY <4>2
        <5>2. r \in Tasks /\ r # session
          BY <3>1, <5>1, TaskNames
        <5>3. loop' = Append(loop, r)
          BY <1>1, <1>4, <4>2, <5>1, <5>2, Extended
        <5> HIDE DEF drained
        <5>4. Earlier(Append(loop, r), Receive, session) = Earlier(loop, Receive, session)
          BY <1>4, <5>2, EarlierAppended
        <5> QED
          BY <5>3, <5>4
      <4> QED
        BY <4>1, <4>2
    <3>4. Forgotten' = Forgotten
      BY <1>1, <2>1, <3>2, <3>3 DEF Forgotten, Gone
    <3> QED
      BY <1>2, <1>3, <3>4
  <2>2. CASE ~(session # None /\ Gone(session))
    BY <1>3, <2>2 DEF Forgotten
  <2> QED
    BY <2>1, <2>2
<1>6. ASSUME Head(wire) = Ended(believed), believed # None, ~broken
      PROVE  /\ ~In(Line, Start(believed))
             /\ session = believed => c < Len(Line) + 1
  <2>1. /\ believed \in SessionId /\ In(wire, Ended(believed)) /\ 1 \in DOMAIN wire
        /\ wire[1] = Ended(believed)
    <3>1. 1 \in DOMAIN wire /\ wire[1] = Head(wire)
      BY <1>1 DEF IInv, TypeOK
    <3> QED
      BY <1>2, <1>6, <3>1 DEF In
  <2>2. /\ mode = "ended" /\ task[believed].at \in Spent /\ task[believed].at # "lost"
        /\ session = believed => Len(wire) = 1
    BY <1>6, <2>1 DEF EndInv
  <2>3. task[believed].at # "none"
    BY <2>2 DEF Spent
  <2>4. ~In(Line, Start(believed))
    BY <2>1, <2>3, LineFacts DEF IInv, FreshInv
  <2>5. ASSUME session = believed PROVE c < Len(Line) + 1
    <3>1. /\ Alive(session) /\ ~task[session].cancelled /\ session # None
      BY <1>4, <1>6, <2>5 DEF SessionInv
    <3>2. task[session].at \in {"draining", "drained"}
      BY <2>2, <2>5, <3>1 DEF Spent, Alive
    <3>3. Len(wire') = 0
      <4>1. wire \in Seq({ServerHello(accepted) : accepted \in BOOLEAN} \cup {Ended(r) : r \in SessionId}
                            \cup {Fragment(r, k) : r \in SessionId, k \in 1..MaxSequence})
        BY DEF IInv, TypeOK
      <4> QED
        BY <1>1, <2>2, <2>5, <4>1
    <3>4. 0 <= HighWater
      BY HighWaterAssumption
    <3>5. task'[session].at = "drained"
      <4>1. CASE task[session].at = "draining"
        <5>1. session \in drained
          BY <2>1, <2>5, <3>1, <3>3, <3>4, <4>1 DEF Waiting
        <5> QED
          BY <1>1, <1>4, <2>1, <2>5, <5>1 DEF TaskType
      <4>2. CASE task[session].at = "drained"
        <5>1. session \notin drained
          BY <4>2 DEF Waiting
        <5> QED
          BY <1>1, <2>1, <2>5, <4>2, <5>1
      <4> QED
        BY <3>2, <4>1, <4>2
    <3>6. c = Len(inbox) + Earlier(loop', Receive, session)
      BY <1>1, <1>3, <2>2, <3>1, <3>5 DEF Forgotten, Gone
    <3>7. PICK e \in Nat : e = Earlier(loop', Receive, session) /\ e <= Len(sent)
      BY <1>1, NextLineIsBounded DEF LineBounds
    <3>8. Len(Line) = Len(inbox) + Len(sent) /\ Len(inbox) \in Nat /\ Len(sent) \in Nat
      BY LineFacts
    <3> QED
      BY <3>6, <3>7, <3>8
  <2> QED
    BY <2>4, <2>5
<1>7. ASSUME polite, ~broken, Serving PROVE Orderly(Line, session, c, believed')
  <2>1. Orderly(Line, session, Forgotten, believed)
    BY <1>7 DEF PoliteInv
  <2>2. Orderly(Line, session, c, believed)
    BY <1>2, <1>5, <2>1, OrderlyForgotten
  <2>3. CASE Head(wire) = Ended(believed) /\ believed # None
    <3>1. Orderly(Line, session, c, None)
      BY <1>6, <1>7, <2>2, <2>3, OrderlyEnded
    <3> QED
      BY <1>1, <2>3, <3>1
  <2>4. CASE ~(Head(wire) = Ended(believed) /\ believed # None)
    BY <1>1, <2>2, <2>4
  <2> QED
    BY <2>3, <2>4
<1>8. Serving' <=> Serving
  BY <1>1 DEF Serving
<1> HIDE DEF drained
<1> QED
  BY <1>1, <1>2, <1>3, <1>7, <1>8 DEF PoliteInv

-----------------------------------------------------------------------------
(***************************************************************************)
(* The theorems.                                                           *)
(***************************************************************************)
\* Every step.
LEMMA NextPolite ==
  ASSUME IInv, IInv', EndInv, PoliteInv, [Next]_vars
  PROVE  PoliteInv'
<1>1. SessionInv
  BY DEF IInv
<1>2. CASE LosesConnection
  <2>1. broken' /\ UNCHANGED <<polite, refused>>
    BY <1>2 DEF LosesConnection, clientVars
  <2> QED
    BY <2>1 DEF PoliteInv
<1>3. CASE Closes
  <2>1. ~Serving' /\ UNCHANGED <<polite, refused>>
    BY <1>3 DEF Closes, clientVars, Serving
  <2> QED
    BY <2>1 DEF PoliteInv
<1>4. ASSUME NEW s \in SessionId, task[s].at \in {"sleeping", "draining"},
             UNCHANGED <<inbox, sent, believed, polite, refused, handler, broken, session>>
      PROVE  PoliteInv'
  <2>1. Alive(s) /\ (session # None => session = s)
    BY <1>1, <1>4 DEF Alive, SessionInv
  <2>2. ~(session # None /\ Gone(session))
    BY <1>4, <2>1 DEF Gone
  <2>3. Serving' <=> Serving
    BY <1>4 DEF Serving
  <2> QED
    BY <1>4, <2>2, <2>3, PoliteRests
<1>5. CASE SendingFails \/ \E s \in SessionId : SleepEnds(s)
  BY <1>4, <1>5 DEF SendingFails, SleepEnds, Waiting, handlerVars, clientVars
<1>6. CASE UNCHANGED vars
  BY <1>6 DEF vars, handlerVars, clientVars, PoliteInv, Serving, Line, Forgotten, Gone
<1> QED
  BY <1>2, <1>3, <1>5, <1>6, HandlerPolite, ReceivesPolite, TaskPolite, ClientPolite,
     ClientReadsPolite DEF Next, LoopStep, ClientStep

\* In every state an end that is still to be read is the last word of a session that
\* its task is about to clear, and what a polite client has sent starts no session
\* that the server could read too early.
THEOREM PoliteInvariant == Spec => [](EndInv /\ PoliteInv)
<1>1. Init => EndInv /\ PoliteInv
  <2> SUFFICES ASSUME Init PROVE EndInv /\ PoliteInv
    OBVIOUS
  <2>1. DOMAIN <<>> = {} /\ Line = <<>> /\ wire = <<>> /\ session = None /\ ~refused
    BY DEF Init, Line
  <2>2. EndInv
    BY <2>1 DEF EndInv, In
  <2>3. \A b, bel : Orderly(<<>>, None, b, bel)
    BY <2>1 DEF Orderly, Spaced, ClearAhead, StartsEnd, ClearBehind
  <2> QED
    BY <2>1, <2>2, <2>3 DEF PoliteInv
<1>2. IInv /\ IInv' /\ (EndInv /\ PoliteInv) /\ [Next]_vars => (EndInv /\ PoliteInv)'
  BY NextEnds, NextPolite
<1> QED
  BY <1>1, <1>2, TranscriberInvariant, PTL DEF Spec

\* A client that starts a session only when it has interrupted the one before, or has
\* read that it ended, is never refused: _handle_start never finds a session then.
THEOREM PoliteClientIsServed == Spec => []PoliteIsServed
<1>1. PoliteInv => PoliteIsServed
  BY DEF PoliteInv, PoliteIsServed
<1> QED
  BY <1>1, PoliteInvariant, PTL
=============================================================================
