------------------------------ MODULE IoSteps ------------------------------
(***************************************************************************)
(* The steps of module Io as the two ends of the connection see them: what *)
(* each does to the frames on their way to the peer and to the envelopes   *)
(* on their way to the fcitx thread, to their order, and to what the fcitx *)
(* thread is told of the connection.                                       *)
(***************************************************************************)
EXTENDS IoProofs

-----------------------------------------------------------------------------
\* x is nowhere in s twice.
Once(s, x) == \A i, j \in DOMAIN s : s[i] = x /\ s[j] = x => i = j

\* s became t and lost nothing but Nones: the rest is there, as often and in its order.
Kept(s, t) ==
  /\ \A x : x # None => (x \in Range(s) <=> x \in Range(t)) /\ (Once(s, x) => Once(t, x))
  /\ \A x, y : x # None /\ y # None /\ Before(s, x, y) => Before(t, x, y)

\* s lost its first element, m.
Sheds(s, t, m) ==
  /\ \A x : x \in Range(s) <=> x = m \/ x \in Range(t)
  /\ \A x : Once(s, x) => Once(t, x) /\ (x = m => x \notin Range(t))
  /\ \A x, y : Before(s, x, y) => Before(t, x, y)
  /\ \A x : Before(s, x, m) => x \notin Range(s)

\* s got one more element, m, at its end.
Gains(s, t, m) ==
  /\ \A x : x \in Range(t) <=> x = m \/ x \in Range(s)
  /\ \A x : Once(s, x) /\ (x = m => m \notin Range(s)) => Once(t, x)
  /\ \A x, y : Before(s, x, y) /\ x # m => Before(t, x, y)

\* The first element goes.
LEMMA TailSheds ==
  ASSUME NEW S, NEW s \in Seq(S), s # <<>>
  PROVE  Sheds(s, Tail(s), Head(s))
<1> DEFINE t == Tail(s)  n == Len(s)
<1>1. /\ n \in Nat \ {0} /\ DOMAIN s = 1..n /\ DOMAIN t = 1..n-1 /\ Head(s) = s[1]
      /\ \A i \in 1..n-1 : t[i] = s[i + 1]
  OBVIOUS
<1> HIDE DEF t, n
<1>2. \A i \in 1..n : i = 1 \/ (i - 1 \in 1..n-1 /\ s[i] = t[i - 1])
  <2> SUFFICES ASSUME NEW i \in 1..n, i # 1 PROVE i - 1 \in 1..n-1 /\ s[i] = t[i - 1]
    OBVIOUS
  <2>1. i - 1 \in 1..n-1 /\ (i - 1) + 1 = i
    BY <1>1
  <2> QED
    BY <1>1, <2>1
<1>3. \A i \in 1..n-1 : i + 1 \in 1..n
  BY <1>1
<1>4. ASSUME NEW x PROVE x \in Range(s) <=> x = Head(s) \/ x \in Range(t)
  <2>1. x \in Range(s) => x = Head(s) \/ x \in Range(t)
    BY <1>1, <1>2 DEF Range
  <2>2. x = Head(s) => x \in Range(s)
    BY <1>1 DEF Range
  <2>3. x \in Range(t) => x \in Range(s)
    BY <1>1, <1>3 DEF Range
  <2> QED
    BY <2>1, <2>2, <2>3
<1>5. ASSUME NEW x, Once(s, x) PROVE Once(t, x) /\ (x = Head(s) => x \notin Range(t))
  <2>1. Once(t, x)
    <3> SUFFICES ASSUME NEW i \in 1..n-1, NEW j \in 1..n-1, t[i] = x, t[j] = x PROVE i = j
      BY <1>1 DEF Once
    <3>1. /\ i + 1 \in 1..n /\ j + 1 \in 1..n
          /\ s[i + 1] = x /\ s[j + 1] = x
      BY <1>1, <1>3
    <3>2. i + 1 = j + 1
      BY <1>1, <1>5, <3>1 DEF Once
    <3> QED
      BY <1>1, <3>2
  <2>2. ASSUME x = s[1], NEW i \in 1..n-1, t[i] = x PROVE FALSE
    <3>1. i + 1 = 1
      BY <1>1, <1>3, <1>5, <2>2 DEF Once
    <3> QED
      BY <3>1, <2>2
  <2> QED
    BY <1>1, <2>1, <2>2 DEF Range
<1>6. ASSUME NEW x, NEW y, Before(s, x, y) PROVE Before(t, x, y)
  <2> SUFFICES ASSUME NEW i \in 1..n-1, NEW j \in 1..n-1, t[i] = x, t[j] = y PROVE i < j
    BY <1>1 DEF Before
  <2>1. i + 1 < j + 1
    BY <1>1, <1>3, <1>6 DEF Before
  <2> QED
    BY <2>1
<1>7. ASSUME NEW x, Before(s, x, s[1]) PROVE x \notin Range(s)
  <2> SUFFICES ASSUME NEW i \in 1..n, s[i] = x PROVE FALSE
    BY <1>1 DEF Range
  <2>1. i < 1
    BY <1>1, <1>7 DEF Before
  <2> QED
    BY <1>1, <2>1
<1> QED
  BY <1>1, <1>4, <1>5, <1>6, <1>7 DEF t, Sheds

\* One more element comes.
LEMMA AppendGains ==
  ASSUME NEW S, NEW s \in Seq(S), NEW x \in S
  PROVE  Gains(s, Append(s, x), x)
<1> DEFINE q == Append(s, x)
<1>1. /\ DOMAIN q = 1..Len(s) + 1 /\ DOMAIN s = 1..Len(s) /\ Len(s) \in Nat
      /\ \A i \in 1..Len(s) : q[i] = s[i]
      /\ q[Len(s) + 1] = x
  OBVIOUS
<1>2. Range(q) = Range(s) \cup {x} /\ \A a, b : Before(s, a, b) /\ a # x => Before(q, a, b)
  BY AppendedQueue
<1> HIDE DEF q
<1>3. ASSUME NEW y, Once(s, y), y # x PROVE Once(q, y)
  BY <1>1, <1>3 DEF Once
<1>4. ASSUME x \notin Range(s) PROVE Once(q, x)
  BY <1>1, <1>4 DEF Once, Range
<1>5. Gains(s, q, x)
  BY <1>2, <1>3, <1>4 DEF Gains
<1> QED
  BY <1>5 DEF q

\* A longer queue of the same, with Nones behind it.
LEMMA NonesBehind ==
  ASSUME NEW n \in Nat, NEW m \in Nat, NEW s, NEW t, DOMAIN s = 1..n, DOMAIN t = 1..m, n <= m,
         \A i \in 1..n : t[i] = s[i], \A i \in 1..m : i > n => t[i] = None
  PROVE  Kept(s, t)
<1>1. \A x : x # None => (x \in Range(s) <=> x \in Range(t))
  BY DEF Range
<1>2. \A x : x # None => (Once(s, x) => Once(t, x))
  BY DEF Once
<1>3. \A x, y : x # None /\ y # None /\ Before(s, x, y) => Before(t, x, y)
  BY DEF Before
<1> QED
  BY <1>1, <1>2, <1>3 DEF Kept

\* s, of n elements, became t, of m, when the None at k left it.
Skips(s, n, t, m, k) ==
  /\ n \in Nat \ {0} /\ m \in Nat /\ DOMAIN s = 1..n /\ DOMAIN t = 1..m /\ n <= m + 1
  /\ k \in 1..n /\ s[k] = None
  /\ \A i \in 1..n : i < k => t[i] = s[i]
  /\ \A i \in 1..n-1 : k <= i => t[i] = s[i + 1]
  /\ \A i \in 1..m : i >= n => t[i] = None

\* The same when a None has left it.
LEMMA NoneLeaves ==
  ASSUME NEW s, NEW n, NEW t, NEW m, NEW k, Skips(s, n, t, m, k)
  PROVE  Kept(s, t)
<1>0. /\ n \in Nat \ {0} /\ m \in Nat /\ DOMAIN s = 1..n /\ DOMAIN t = 1..m /\ n <= m + 1
      /\ k \in 1..n /\ s[k] = None
      /\ \A i \in 1..n : i < k => t[i] = s[i]
      /\ \A i \in 1..n-1 : k <= i => t[i] = s[i + 1]
      /\ \A i \in 1..m : i >= n => t[i] = None
  BY DEF Skips
<1> USE <1>0
<1> DEFINE To(i) == IF i < k THEN i ELSE i + 1
<1>1. \A i \in 1..m : t[i] # None => To(i) \in 1..n /\ t[i] = s[To(i)]
  OBVIOUS
<1>2. \A i, j \in 1..m : (To(i) = To(j) => i = j) /\ (To(i) < To(j) => i < j)
  OBVIOUS
<1>3. \A i \in 1..n : s[i] # None => \E j \in 1..m : s[i] = t[j]
  <2> SUFFICES ASSUME NEW i \in 1..n, s[i] # None PROVE \E j \in 1..m : s[i] = t[j]
    OBVIOUS
  <2>1. CASE i < k
    BY <2>1
  <2>2. CASE i > k
    <3>1. i - 1 \in 1..n-1 /\ k <= i - 1 /\ i - 1 \in 1..m /\ (i - 1) + 1 = i
      BY <2>2
    <3>2. t[i - 1] = s[(i - 1) + 1]
      BY <3>1
    <3> QED
      BY <3>1, <3>2
  <2> QED
    BY <2>1, <2>2
<1> HIDE DEF To
<1>4. ASSUME NEW x, x # None PROVE x \in Range(s) <=> x \in Range(t)
  <2>1. x \in Range(s) => x \in Range(t)
    BY <1>3, <1>4 DEF Range
  <2>2. x \in Range(t) => x \in Range(s)
    BY <1>1, <1>4 DEF Range
  <2> QED
    BY <2>1, <2>2
<1>5. \A x : x # None => (Once(s, x) => Once(t, x))
  BY <1>1, <1>2 DEF Once
<1>6. \A x, y : x # None /\ y # None /\ Before(s, x, y) => Before(t, x, y)
  BY <1>1, <1>2 DEF Before
<1> QED
  BY <1>4, <1>5, <1>6 DEF Kept

-----------------------------------------------------------------------------
(***************************************************************************)
(* From the peer: what is Unheard.                                         *)
(***************************************************************************)
\* What a read loop holds is a frame it has read and not published.
HeldInv == \A c \in Reader : co[c].data # None <=> co[c].at = "frame" /\ co[c].result = "ok"

\* Unheard, of any state of the queues and the coroutines.
HeldBy(cs, h) == IF h \in Reader THEN cs[h].data ELSE None
Line(d, q, cs) ==
  [i \in 1..Len(d) + Len(q) |-> IF i <= Len(d) THEN d[i].data ELSE HeldBy(cs, q[i - Len(d)])]

\* Unheard is the line of the state, before and after a step.
LEMMA UnheardLine == Unheard = Line(dispatcher, ready, co) /\ Unheard' = Line(dispatcher', ready', co')
  BY DEF Unheard, Held, Line, HeldBy

\* Places in the line.
LEMMA LinePlaces ==
  ASSUME NEW d \in Seq(EventType), NEW q \in Seq(Handlers), NEW cs
  PROVE  /\ Len(d) \in Nat /\ Len(q) \in Nat
         /\ DOMAIN d = 1..Len(d) /\ DOMAIN q = 1..Len(q)
         /\ DOMAIN Line(d, q, cs) = 1..Len(d) + Len(q)
         /\ \A i \in 1..Len(d) : Line(d, q, cs)[i] = d[i].data
         /\ \A i \in 1..Len(q) : Line(d, q, cs)[Len(d) + i] = HeldBy(cs, q[i])
<1>1. /\ Len(d) \in Nat /\ Len(q) \in Nat
      /\ DOMAIN d = 1..Len(d) /\ DOMAIN q = 1..Len(q)
  OBVIOUS
<1>2. DOMAIN Line(d, q, cs) = 1..Len(d) + Len(q)
  BY DEF Line
<1>3. \A i \in 1..Len(d) : Line(d, q, cs)[i] = d[i].data
  BY <1>1 DEF Line
<1>4. ASSUME NEW i \in 1..Len(q) PROVE Line(d, q, cs)[Len(d) + i] = HeldBy(cs, q[i])
  <2>1. /\ Len(d) + i \in 1..Len(d) + Len(q)
        /\ ~(Len(d) + i <= Len(d))
        /\ (Len(d) + i) - Len(d) = i
    BY <1>1
  <2> QED
    BY <2>1 DEF Line
<1> QED
  BY <1>1, <1>2, <1>3, <1>4

\* The handler at the front leaves the queue: what it has published or nothing
\* takes its place, and those that come hold nothing.
LEMMA ShiftKeeps ==
  ASSUME NEW d1 \in Seq(EventType), NEW d2 \in Seq(EventType), NEW q1 \in Seq(Handlers), q1 # <<>>,
         NEW t \in Seq(Handlers), NEW cs, NEW ct,
         \A x \in Range(t) : HeldBy(ct, x) = None,
         \A x \in Range(Tail(q1)) : HeldBy(ct, x) = HeldBy(cs, x),
         \/ d2 = d1 /\ HeldBy(cs, Head(q1)) = None
         \/ \E e \in EventType : d2 = Append(d1, e) /\ e.data = HeldBy(cs, Head(q1))
  PROVE  Kept(Line(d1, q1, cs), Line(d2, Tail(q1) \o t, ct))
<1> DEFINE q2 == Tail(q1) \o t
           u == Line(d1, q1, cs)  v == Line(d2, q2, ct)
           d == Len(d1)  r == Len(q1)  k == Len(t)  e2 == Len(d2)  r2 == Len(q2)
<1>a. q2 \in Seq(Handlers)
  OBVIOUS
<1>0. /\ d \in Nat /\ r \in Nat
      /\ DOMAIN d1 = 1..d /\ DOMAIN q1 = 1..r
      /\ DOMAIN u = 1..d + r
      /\ \A i \in 1..d : u[i] = d1[i].data
      /\ \A i \in 1..r : u[d + i] = HeldBy(cs, q1[i])
  BY LinePlaces
<1>1. /\ e2 \in Nat /\ r2 \in Nat
      /\ DOMAIN v = 1..e2 + r2
      /\ \A i \in 1..e2 : v[i] = d2[i].data
      /\ \A i \in 1..r2 : v[e2 + i] = HeldBy(ct, q2[i])
  <2> HIDE DEF q2
  <2> QED
    BY <1>a, LinePlaces
<1>2. /\ r # 0 /\ k \in Nat /\ r2 = r - 1 + k
      /\ \A i \in 1..r-1 : q2[i] = q1[i + 1] /\ q1[i + 1] \in Range(Tail(q1))
      /\ \A i \in 1..k : q2[r - 1 + i] = t[i] /\ t[i] \in Range(t)
      /\ Head(q1) = q1[1]
  <2>2. /\ Tail(q1) \in Seq(Handlers) /\ Len(Tail(q1)) = r - 1 /\ DOMAIN Tail(q1) = 1..r-1
        /\ \A i \in 1..r-1 : Tail(q1)[i] = q1[i + 1]
        /\ r # 0 /\ Head(q1) = q1[1]
    OBVIOUS
  <2>3. k \in Nat /\ DOMAIN t = 1..k
    OBVIOUS
  <2>4. /\ r2 = r - 1 + k
        /\ \A i \in 1..r-1 : q2[i] = Tail(q1)[i]
        /\ \A i \in 1..k : q2[r - 1 + i] = t[i]
    BY <1>0, <2>2, <2>3
  <2>5. \A i \in 1..r-1 : Tail(q1)[i] \in Range(Tail(q1))
    BY <2>2 DEF Range
  <2>6. \A i \in 1..k : t[i] \in Range(t)
    BY <2>3 DEF Range
  <2> QED
    BY <2>2, <2>3, <2>4, <2>5, <2>6
<1>b. \A i \in 1..d : d1[i] \in EventType
  BY <1>0
<1> HIDE DEF d, r, k, e2, r2, q2, u, v
<1>3. /\ \A i \in 1..r-1 : v[e2 + i] = u[d + (i + 1)]
      /\ \A i \in 1..k : v[e2 + (r - 1 + i)] = None
  <2>1. ASSUME NEW i \in 1..r-1 PROVE v[e2 + i] = u[d + (i + 1)]
    <3>1. i \in 1..r2 /\ i + 1 \in 1..r
      BY <1>0, <1>2
    <3>2. v[e2 + i] = HeldBy(ct, q2[i]) /\ u[d + (i + 1)] = HeldBy(cs, q1[i + 1])
      BY <1>0, <1>1, <3>1
    <3> QED
      BY <1>2, <3>2
  <2>2. ASSUME NEW i \in 1..k PROVE v[e2 + (r - 1 + i)] = None
    <3>1. r - 1 + i \in 1..r2
      BY <1>0, <1>2
    <3>2. v[e2 + (r - 1 + i)] = HeldBy(ct, q2[r - 1 + i])
      BY <1>1, <3>1
    <3> QED
      BY <1>2, <3>2
  <2> QED
    BY <2>1, <2>2
<1>c. 1 \in 1..r /\ u[d + 1] = HeldBy(cs, Head(q1))
  BY <1>0, <1>2
<1>n. d \in Nat /\ r \in Nat \ {0} /\ k \in Nat /\ e2 \in Nat /\ r2 = r - 1 + k
  BY <1>0, <1>1, <1>2
<1> DEFINE n == d + r  m == e2 + r2
<1>d. n \in Nat \ {0} /\ m \in Nat /\ DOMAIN u = 1..n /\ DOMAIN v = 1..m
  <2>1. n \in Nat \ {0}
    BY <1>n
  <2>2. m \in Nat
    BY <1>1
  <2>3. DOMAIN u = 1..n
    BY <1>0
  <2>4. DOMAIN v = 1..m
    BY <1>1
  <2> QED
    BY <2>1, <2>2, <2>3, <2>4
<1>4. CASE d2 = d1 /\ HeldBy(cs, Head(q1)) = None
  <2>1. e2 = d
    BY <1>4 DEF d, e2
  <2>2. d + 1 \in 1..n /\ u[d + 1] = None
    BY <1>0, <1>2, <1>4, <1>c
  <2>3. ASSUME NEW i \in 1..n, i < d + 1 PROVE v[i] = u[i]
    <3>1. i \in 1..d
      BY <1>0, <2>3
    <3> QED
      BY <1>0, <1>1, <1>4, <2>1, <3>1
  <2>4. ASSUME NEW i \in 1..n-1, d + 1 <= i PROVE v[i] = u[i + 1]
    <3>1. i - d \in 1..r-1 /\ d + (i - d) = i /\ d + ((i - d) + 1) = i + 1
      BY <1>0, <1>2, <2>4
    <3> QED
      BY <1>3, <2>1, <3>1
  <2>5. ASSUME NEW i \in 1..m, i >= n PROVE v[i] = None
    <3>1. i - d - (r - 1) \in 1..k /\ d + (r - 1 + (i - d - (r - 1))) = i
      BY <1>0, <1>1, <1>2, <2>1, <2>5
    <3> QED
      BY <1>3, <2>1, <3>1
  <2>6. n <= m + 1
    BY <1>n, <2>1
  <2> HIDE DEF n, m
  <2> DEFINE first == d + 1
  <2>7. first \in 1..n /\ u[first] = None
    BY <2>2
  <2>9. \A i \in 1..n : i < first => v[i] = u[i]
    BY <2>3
  <2>10. \A i \in 1..n-1 : first <= i => v[i] = u[i + 1]
    BY <2>4
  <2>11. \A i \in 1..m : i >= n => v[i] = None
    BY <2>5
  <2> HIDE DEF first
  <2>8. Kept(u, v)
    <3>1. Skips(u, n, v, m, first)
      BY <1>d, <2>6, <2>7, <2>9, <2>10, <2>11 DEF Skips
    <3> QED
      BY <3>1, NoneLeaves
  <2> QED
    BY <2>8 DEF u, v, q2
<1>5. ASSUME NEW e \in EventType, d2 = Append(d1, e), e.data = HeldBy(cs, Head(q1))
      PROVE  Kept(u, v)
  <2>1. e2 = d + 1 /\ d2[d + 1] = e /\ \A i \in 1..d : d2[i] = d1[i]
    BY <1>5 DEF d, e2
  <2>2. ASSUME NEW i \in 1..d PROVE v[i] = u[i]
    <3>1. i \in 1..e2
      BY <1>0, <2>1
    <3> QED
      BY <1>0, <1>1, <2>1, <3>1
  <2>3. v[d + 1] = u[d + 1]
    <3>1. d + 1 \in 1..e2
      BY <1>0, <2>1
    <3> QED
      BY <1>1, <1>5, <1>c, <2>1, <3>1
  <2>4. ASSUME NEW i \in 1..n, i > d + 1 PROVE v[i] = u[i]
    <3>1. i - d - 1 \in 1..r-1 /\ e2 + (i - d - 1) = i /\ d + ((i - d - 1) + 1) = i
      BY <1>0, <1>2, <2>1, <2>4
    <3> QED
      BY <1>3, <3>1
  <2>5. \A i \in 1..n : v[i] = u[i]
    <3>1. \A i \in 1..n : i \in 1..d \/ i = d + 1 \/ i > d + 1
      BY <1>0
    <3> QED
      BY <2>2, <2>3, <2>4, <3>1
  <2>6. ASSUME NEW i \in 1..m, i > n PROVE v[i] = None
    <3>1. i - e2 - (r - 1) \in 1..k /\ e2 + (r - 1 + (i - e2 - (r - 1))) = i
      BY <1>0, <1>1, <1>2, <2>1, <2>6
    <3> QED
      BY <1>3, <3>1
  <2>7. n <= m
    BY <1>n, <2>1
  <2> HIDE DEF n, m
  <2> QED
    BY <1>d, <2>5, <2>6, <2>7, NonesBehind
<1> QED
  BY <1>4, <1>5 DEF u, v, q2

\* The line is a sequence.
LEMMA LineIsSeq ==
  ASSUME NEW d \in Seq(EventType), NEW q \in Seq(Handlers), NEW cs, NEW S, Range(Line(d, q, cs)) \subseteq S
  PROVE  Line(d, q, cs) \in Seq(S) /\ Len(Line(d, q, cs)) = Len(d) + Len(q)
<1> DEFINE u == Line(d, q, cs)  n == Len(d) + Len(q)
<1>1. n \in Nat /\ DOMAIN u = 1..n
  BY LinePlaces
<1>2. u = [i \in 1..n |-> u[i]]
  BY DEF Line
<1> HIDE DEF u, n
<1>3. \A i \in 1..n : u[i] \in S
  BY <1>1 DEF Range, u
<1>4. u \in [1..n -> S]
  BY <1>2, <1>3
<1>5. u \in Seq(S)
  BY <1>1, <1>4
<1> QED
  BY <1>1, <1>5 DEF u, n

\* The oldest event is handed over.
LEMMA LineSheds ==
  ASSUME NEW d \in Seq(EventType), d # <<>>, NEW q \in Seq(Handlers), NEW cs, NEW d2, d2 = Tail(d)
  PROVE  Sheds(Line(d, q, cs), Line(d2, q, cs), Head(d).data)
<1> DEFINE u == Line(d, q, cs)  v == Line(Tail(d), q, cs)  k == Len(d)  r == Len(q)
<1>1. /\ k \in Nat \ {0} /\ r \in Nat /\ Tail(d) \in Seq(EventType) /\ Len(Tail(d)) = k - 1
      /\ Head(d) = d[1] /\ \A i \in 1..k-1 : Tail(d)[i] = d[i + 1]
  OBVIOUS
<1>2. /\ DOMAIN u = 1..k + r
      /\ \A i \in 1..k : u[i] = d[i].data
      /\ \A i \in 1..r : u[k + i] = HeldBy(cs, q[i])
  BY LinePlaces
<1> DEFINE S == Range(u) \cup Range(v)
<1>3. v \in Seq(S) /\ Len(v) = (k + r) - 1
  <2> DEFINE e == Tail(d)
  <2>1. e \in Seq(EventType) /\ Len(e) + r = (k + r) - 1
    BY <1>1
  <2>2. Range(Line(e, q, cs)) \subseteq S
    OBVIOUS
  <2> HIDE DEF e, S, k, r
  <2>3. Line(e, q, cs) \in Seq(S) /\ Len(Line(e, q, cs)) = Len(e) + Len(q)
    BY <2>1, <2>2, LineIsSeq
  <2> QED
    BY <2>1, <2>3 DEF e, r
<1>4. /\ \A i \in 1..k-1 : v[i] = Tail(d)[i].data
      /\ \A i \in 1..r : v[(k - 1) + i] = HeldBy(cs, q[i])
  <2> DEFINE e == Tail(d)
  <2>1. e \in Seq(EventType) /\ Len(e) = k - 1
    BY <1>1
  <2> HIDE DEF e
  <2>2. /\ \A i \in 1..Len(e) : Line(e, q, cs)[i] = e[i].data
        /\ \A i \in 1..Len(q) : Line(e, q, cs)[Len(e) + i] = HeldBy(cs, q[i])
    BY <2>1, LinePlaces
  <2> QED
    BY <2>1, <2>2 DEF e
<1>5. u \in Seq(Range(u)) /\ u \in Seq(S) /\ Len(u) = k + r
  BY LineIsSeq
<1> HIDE DEF u, v, k, r, S
<1>6. u # <<>> /\ Head(u) = Head(d).data
  <2>1. Len(u) # 0 /\ 1 \in 1..k
    BY <1>1, <1>5
  <2> QED
    BY <1>1, <1>2, <1>5, <2>1
<1>7. /\ Tail(u) \in Seq(S) /\ Len(Tail(u)) = (k + r) - 1
      /\ \A i \in 1..(k + r)-1 : Tail(u)[i] = u[i + 1]
  BY <1>5, <1>6, HeadTailProperties
<1>8. ASSUME NEW i \in 1..(k + r)-1 PROVE v[i] = u[i + 1]
  <2>1. CASE i \in 1..k-1
    <3>1. i + 1 \in 1..k
      BY <1>1, <2>1
    <3> QED
      BY <1>1, <1>2, <1>4, <2>1, <3>1
  <2>2. CASE i \notin 1..k-1
    <3>1. i - (k - 1) \in 1..r /\ (k - 1) + (i - (k - 1)) = i /\ k + (i - (k - 1)) = i + 1
      BY <1>1, <2>2
    <3> QED
      BY <1>2, <1>4, <3>1
  <2> QED
    BY <2>1, <2>2
<1>9. v = Tail(u)
  BY <1>3, <1>7, <1>8, SeqEqual
<1>10. Sheds(u, Tail(u), Head(u))
  BY <1>5, <1>6, TailSheds
<1> QED
  BY <1>6, <1>9, <1>10 DEF u, v

\* The handlers in q hold the same in cs and in ct.
Alike(cs, ct, q) == \A y \in Range(q) : HeldBy(ct, y) = HeldBy(cs, y)

\* One more handler, with what it holds.
LEMMA LineGains ==
  ASSUME NEW d \in Seq(EventType), NEW q \in Seq(Handlers), NEW x \in Handlers, NEW cs, NEW ct,
         Alike(cs, ct, q), NEW q2, q2 = Append(q, x)
  PROVE  Gains(Line(d, q, cs), Line(d, q2, ct), HeldBy(ct, x))
<1> DEFINE u == Line(d, q, cs)  p == Append(q, x)  v == Line(d, p, ct)  k == Len(d)  r == Len(q)
           S == Range(u) \cup {HeldBy(ct, x)}
<1>1. /\ k \in Nat /\ r \in Nat /\ p \in Seq(Handlers) /\ Len(p) = r + 1
      /\ p[r + 1] = x /\ \A i \in 1..r : p[i] = q[i] /\ q[i] \in Range(q)
  BY DEF Range
<1>2. /\ DOMAIN u = 1..k + r
      /\ \A i \in 1..k : u[i] = d[i].data
      /\ \A i \in 1..r : u[k + i] = HeldBy(cs, q[i])
  BY LinePlaces
<1>3. u \in Seq(S) /\ Len(u) = k + r
  BY LineIsSeq
<1>a. HeldBy(ct, x) \in S
  OBVIOUS
<1> HIDE DEF u, S, p
<1>4. /\ \A i \in 1..k : v[i] = d[i].data
      /\ \A i \in 1..r+1 : v[k + i] = HeldBy(ct, p[i])
  <2>1. /\ \A i \in 1..Len(d) : Line(d, p, ct)[i] = d[i].data
        /\ \A i \in 1..Len(p) : Line(d, p, ct)[Len(d) + i] = HeldBy(ct, p[i])
    BY <1>1, LinePlaces
  <2> QED
    BY <1>1, <2>1
<1> DEFINE X == S \cup Range(v)
<1>5. v \in Seq(X) /\ Len(v) = (k + r) + 1 /\ S \subseteq X
  <2>1. S \subseteq X /\ Range(Line(d, p, ct)) \subseteq X
    OBVIOUS
  <2> HIDE DEF X
  <2>2. Line(d, p, ct) \in Seq(X) /\ Len(Line(d, p, ct)) = Len(d) + Len(p)
    BY <1>1, <2>1, LineIsSeq
  <2> QED
    BY <1>1, <2>1, <2>2
<1> HIDE DEF X
<1> HIDE DEF v, k, r
<1>6. ASSUME NEW i \in 1..k + r PROVE v[i] = u[i]
  <2>1. CASE i \in 1..k
    BY <1>2, <1>4, <2>1
  <2>2. CASE i \notin 1..k
    <3>1. i - k \in 1..r /\ i - k \in 1..r+1 /\ k + (i - k) = i
      BY <1>1, <2>2
    <3>2. v[i] = HeldBy(ct, p[i - k]) /\ u[i] = HeldBy(cs, q[i - k])
      BY <1>2, <1>4, <3>1
    <3>3. p[i - k] = q[i - k] /\ q[i - k] \in Range(q)
      BY <1>1, <3>1
    <3> QED
      BY <3>2, <3>3 DEF Alike
  <2> QED
    BY <2>1, <2>2
<1>7. v[(k + r) + 1] = HeldBy(ct, x)
  <2>1. r + 1 \in 1..r+1 /\ k + (r + 1) = (k + r) + 1
    BY <1>1
  <2> QED
    BY <1>1, <1>4, <2>1
<1> DEFINE w == HeldBy(ct, x)  n == k + r
<1>8. n \in Nat
  BY <1>1
<1> HIDE DEF w
<1>9. /\ Append(u, w) \in Seq(X) /\ Len(Append(u, w)) = n + 1
      /\ \A i \in 1..n : Append(u, w)[i] = u[i]
      /\ Append(u, w)[n + 1] = w
  <2>1. w \in X /\ u \in Seq(X) /\ Len(u) = n
    BY <1>3, <1>5, <1>a DEF w
  <2> HIDE DEF n
  <2> QED
    BY <2>1, AppendProperties
<1>10. v = Append(u, w)
  <2>1. Len(v) = n + 1 /\ \A i \in 1..n+1 : v[i] = Append(u, w)[i]
    <3>1. \A i \in 1..n+1 : i \in 1..n \/ i = n + 1
      BY <1>8
    <3>2. \A i \in 1..n : v[i] = Append(u, w)[i]
      BY <1>6, <1>9
    <3>3. v[n + 1] = Append(u, w)[n + 1]
      BY <1>7, <1>9 DEF w
    <3> QED
      BY <1>5, <3>1, <3>2, <3>3
  <2> HIDE DEF n
  <2> QED
    BY <1>5, <1>9, <2>1, SeqEqual
<1>11. Gains(u, Append(u, w), w)
  BY <1>3, <1>a, AppendGains DEF w
<1> QED
  BY <1>10, <1>11 DEF u, v, w, p

\* A None coming or going is no change.
LEMMA NoneOnly ==
  ASSUME NEW s, NEW t, Gains(s, t, None) \/ Sheds(s, t, None) PROVE Kept(s, t)
  BY DEF Gains, Sheds, Kept

\* The readers but for h keep what they hold.
ReadersMove(h) ==
  \A c \in Reader :
    \/ co'[c] = co[c]
    \/ co'[c].data = None /\ co'[c].result # "ok" /\ (c = h \/ co[c].data = None)

\* What every step of the worker does to the line.
LEMMA StepShifts ==
  ASSUME IInv, TypeOK', HeldInv, ready # <<>>, NEW h, h = Head(ready), ReadersMove(h),
         NEW t \in Seq(Handlers), ready' = Tail(ready) \o t,
         \A x \in Range(t) : HeldBy(co', x) = None,
         \/ dispatcher' = dispatcher /\ HeldBy(co, h) = None
         \/ \E e \in EventType : dispatcher' = Append(dispatcher, e) /\ e.data = HeldBy(co, h)
  PROVE  HeldInv' /\ Kept(Unheard, Unheard')
<1>1. HeldInv'
  BY DEF HeldInv, ReadersMove
<1>2. /\ dispatcher \in Seq(EventType) /\ dispatcher' \in Seq(EventType)
      /\ ready \in Seq(Handlers) /\ IsInjective(ready)
  BY DEF IInv, TypeOK, ReadyInv, Handlers
<1> DEFINE cs == co  ct == co'
<1>3. \A x \in Handlers : x # h => HeldBy(ct, x) = HeldBy(cs, x)
  <2>1. \A c \in Reader : ct[c] = cs[c] \/ (ct[c].data = None /\ (c = h \/ cs[c].data = None))
    BY DEF ReadersMove
  <2> HIDE DEF cs, ct
  <2> QED
    BY <2>1 DEF HeldBy
<1>4. \A x \in Range(Tail(ready)) : x # h
  <2> SUFFICES ASSUME NEW i \in DOMAIN Tail(ready), Tail(ready)[i] = h PROVE FALSE
    BY DEF Range
  <2>1. i \in 1..Len(ready)-1 /\ ready[i + 1] = h /\ ready[1] = h /\ Len(ready) \in Nat
    BY <1>2
  <2>2. i + 1 \in DOMAIN ready /\ 1 \in DOMAIN ready
    BY <1>2, <2>1
  <2>3. i + 1 = 1
    BY <2>1, <2>2, <1>2 DEF IsInjective
  <2> QED
    BY <2>1, <2>3
<1>5. \A x \in Range(Tail(ready)) : HeldBy(ct, x) = HeldBy(cs, x)
  <2>1. Range(Tail(ready)) \subseteq Handlers
    <3>1. Tail(ready) \in Seq(Handlers)
      BY <1>2
    <3> QED
      BY <3>1 DEF Range
  <2> HIDE DEF cs, ct
  <2> QED
    BY <1>3, <1>4, <2>1
<1> DEFINE d == dispatcher  d2 == dispatcher'  q == ready  q2 == ready'
<1>6. Kept(Line(d, q, cs), Line(d2, Tail(q) \o t, ct))
  <2>1. /\ d \in Seq(EventType) /\ d2 \in Seq(EventType) /\ q \in Seq(Handlers) /\ q # <<>>
        /\ \A x \in Range(t) : HeldBy(ct, x) = None
        /\ \A x \in Range(Tail(q)) : HeldBy(ct, x) = HeldBy(cs, x)
        /\ \/ d2 = d /\ HeldBy(cs, Head(q)) = None
           \/ \E e \in EventType : d2 = Append(d, e) /\ e.data = HeldBy(cs, Head(q))
    BY <1>2, <1>5
  <2> HIDE DEF d, d2, q, cs, ct
  <2> QED
    BY <2>1, ShiftKeeps
<1> QED
  BY <1>1, <1>6, UnheardLine

\* A coroutine that moves on its own.
LEMMA MoveShifts ==
  ASSUME IInv, TypeOK', HeldInv, NEW c \in Coroutine, AtFront(c),
         \A d \in Coroutine : d # c => co'[d] = co[d],
         c \in Reader => co'[c].data = None /\ co'[c].result # "ok",
         NEW t \in {<<>>, <<c>>}, ready' = Tail(ready) \o t,
         \/ dispatcher' = dispatcher /\ HeldBy(co, c) = None
         \/ \E e \in EventType : dispatcher' = Append(dispatcher, e) /\ e.data = HeldBy(co, c)
  PROVE  HeldInv' /\ Kept(Unheard, Unheard')
<1>1. ready # <<>> /\ Head(ready) = c
  BY FrontIsDone
<1>2. ReadersMove(c)
  BY Kinds DEF ReadersMove
<1>3. t \in Seq(Handlers) /\ Range(t) \subseteq {c}
  <2>1. c \in Handlers
    BY DEF Handlers
  <2>2. CASE t = <<>>
    BY <2>2 DEF Range
  <2>3. ASSUME t = <<c>> PROVE t \in Seq(Handlers) /\ Range(t) \subseteq {c}
    <3>1. <<c>> \in Seq(Handlers) /\ DOMAIN <<c>> = {1} /\ <<c>>[1] = c
      BY <2>1
    <3> QED
      BY <2>3, <3>1 DEF Range
  <2> QED
    BY <2>2, <2>3
<1>4. \A x \in Range(t) : HeldBy(co', x) = None
  BY <1>3 DEF HeldBy
<1> QED
  BY <1>1, <1>2, <1>3, <1>4, StepShifts

\* What a step of the worker tells the fcitx thread of the connection, if anything.
Publishes ==
  \/ UNCHANGED dispatcher /\ (connected <=> connected')
  \/ \E e \in EventType :
       /\ dispatcher' = Append(dispatcher, e)
       /\ e.type = "Inbound" <=> e.data # None
       /\ e.type = "Authenticated" => connected'
       /\ ~connected /\ connected' => e.type = "Authenticated"
       /\ connected /\ ~connected' => e.type \in {"Closed", "Failed"}
       /\ e.type \in {"Closed", "Failed"} => ~connected'

\* The envelopes stay in line, and the fcitx thread hears of what becomes of the connection.
Hears ==
  /\ HeldInv'
  /\ Kept(Unheard, Unheard')
  /\ Publishes
  /\ connected /\ connected' => UNCHANGED socket

\* A coroutine that moves on its own and has nothing to tell.
LEMMA MoveHears ==
  ASSUME IInv, IInv', HeldInv, NEW c \in Coroutine, AtFront(c),
         \A d \in Coroutine : d # c => co'[d] = co[d],
         c \in Reader => co'[c].data = None /\ co'[c].result # "ok",
         NEW t \in {<<>>, <<c>>}, ready' = Tail(ready) \o t,
         HeldBy(co, c) = None,
         UNCHANGED <<dispatcher, connected, socket>>
  PROVE  Hears
<1>1. HeldInv' /\ Kept(Unheard, Unheard')
  BY MoveShifts DEF IInv
<1> QED
  BY <1>1 DEF Hears, Publishes

\* A coroutine of a connection that goes on to its next step holds nothing.
LEMMA GoesOnAlone ==
  ASSUME IInv, NEW c \in Coroutine, NEW at, NEW data, Await(c, at, co[c].generation, data)
  PROVE  /\ \A d \in Coroutine : d # c => co'[d] = co[d]
         /\ co'[c].data = data /\ co'[c].result # "ok"
         /\ \E t \in {<<>>, <<c>>} : ready' = Tail(ready) \o t
<1>1. PICK result \in {"error", "pending"} :
        /\ co' = [co EXCEPT ![c] = Op(at, co[c].generation, socket, result, data)]
        /\ ready' = Tail(ready) \o IF socket = 0 THEN <<c>> ELSE <<>>
  BY DEF Await
<1>2. co \in [Coroutine -> OpType]
  BY DEF IInv, TypeOK
<1>3. /\ co'[c] = Op(at, co[c].generation, socket, result, data)
      /\ \A d \in Coroutine : d # c => co'[d] = co[d]
  BY <1>1, <1>2
<1>4. co'[c].data = data /\ co'[c].result # "ok"
  BY <1>3, OpFacts
<1>5. \E t \in {<<>>, <<c>>} : ready' = Tail(ready) \o t
  BY <1>1
<1> QED
  BY <1>3, <1>4, <1>5

\* An operation that is not a write and holds no envelope awaits the next step.
LEMMA GoesOnHears ==
  ASSUME IInv, IInv', HeldInv, NEW c \in Coroutine \ Writer, AtFront(c), NEW at \in Steps(c),
         GoesOn(c, at), HeldBy(co, c) = None
  PROVE  Hears
<1>1. Await(c, at, co[c].generation, None) /\ UNCHANGED <<dispatcher, connected, socket>>
  BY DEF GoesOn
<1>3. /\ \A d \in Coroutine : d # c => co'[d] = co[d]
      /\ co'[c].data = None /\ co'[c].result # "ok"
      /\ \E t \in {<<>>, <<c>>} : ready' = Tail(ready) \o t
  BY <1>1, GoesOnAlone
<1>4. PICK t \in {<<>>, <<c>>} : ready' = Tail(ready) \o t
  BY <1>3
<1> QED
  BY <1>1, <1>3, <1>4, MoveHears

\* The steps that leave the connection alone.
LEMMA BystandersHear ==
  ASSUME IInv, IInv', HeldInv, NEW c \in Coroutine,
         \/ CancelsTimer(c) \/ HandshakeStarts(c) \/ HelloWritten(c) \/ HelloHeaderRead(c)
         \/ LengthRead(c) \/ FrameWritten(c)
  PROVE  Hears
<1>1. AtFront(c)
  BY DEF CancelsTimer, HandshakeStarts, HelloWritten, HelloHeaderRead, LengthRead, FrameWritten, Resumes
<1>2. /\ OpOf(c, co[c]) /\ ready # <<>> /\ ready \in Seq(Handlers) /\ c \in Handlers
      /\ co \in [Coroutine -> OpType]
  BY <1>1, FrontIsDone DEF IInv, TypeOK, Handlers
<1>3. CASE CancelsTimer(c)
  <2>1. /\ Timed(co[c].at) /\ ready' = Append(Tail(ready), c)
        /\ co' = [co EXCEPT ![c].timerDone = TRUE] /\ UNCHANGED stateVars
    BY <1>3 DEF CancelsTimer
  <2>2. c \notin Reader
    BY <1>2, <2>1, KindOfStep, Kinds DEF Timed
  <2>3. ready' = Tail(ready) \o <<c>>
    <3>1. Tail(ready) \in Seq(Handlers)
      BY <1>2
    <3> QED
      BY <1>2, <2>1, <3>1, AppendIsConcat
  <2>4. \A d \in Coroutine : d # c => co'[d] = co[d]
    BY <1>2, <2>1
  <2>5. HeldBy(co, c) = None /\ UNCHANGED <<dispatcher, connected, socket>>
    BY <2>1, <2>2 DEF HeldBy, stateVars
  <2>6. PICK t \in {<<>>, <<c>>} : t = <<c>>
    OBVIOUS
  <2> QED
    BY <1>1, <2>2, <2>3, <2>4, <2>5, <2>6, MoveHears
<1>4. ASSUME c \notin Writer, NEW at \in Steps(c), GoesOn(c, at), co[c].at # "frame" PROVE Hears
  <2>1. HeldBy(co, c) = None
    BY <1>4 DEF HeldBy, HeldInv
  <2> QED
    BY <1>1, <1>4, <2>1, GoesOnHears
<1>5. CASE HandshakeStarts(c) \/ HelloWritten(c) \/ HelloHeaderRead(c) \/ LengthRead(c)
  <2>1. PICK at \in {"hello", "hello header", "hello payload", "frame"} :
          /\ GoesOn(c, at)
          /\ IF at = "frame" THEN co[c].at = "length"
             ELSE co[c].at \in {"connect", "hello", "hello header"}
    BY <1>5 DEF HandshakeStarts, HelloWritten, HelloHeaderRead, LengthRead, Resumes
  <2>2. c \notin Writer /\ at \in Steps(c)
    BY <1>2, <2>1, KindOfStep, Kinds DEF Steps
  <2> QED
    BY <1>4, <2>1, <2>2
<1>6. CASE FrameWritten(c)
  <2>1. /\ co[c].at = "write"
        /\ UNCHANGED <<dispatcher, connected, socket>>
        /\ \/ \E data : Await(c, "write", co[c].generation, data)
           \/ co' = Finished(c) /\ ready' = Tail(ready)
    BY <1>6 DEF FrameWritten, Resumes
  <2>2. c \notin Reader
    BY <1>2, <2>1, KindOfStep, Kinds
  <2>3. (\A d \in Coroutine : d # c => co'[d] = co[d]) /\ \E t \in {<<>>, <<c>>} : ready' = Tail(ready) \o t
    <3>1. ASSUME NEW data, Await(c, "write", co[c].generation, data)
          PROVE  (\A d \in Coroutine : d # c => co'[d] = co[d]) /\ \E t \in {<<>>, <<c>>} : ready' = Tail(ready) \o t
      BY <3>1, GoesOnAlone
    <3>2. CASE co' = Finished(c) /\ ready' = Tail(ready)
      <4>1. Tail(ready) \in Seq(Handlers)
        BY <1>2
      <4>2. ready' = Tail(ready) \o <<>>
        BY <3>2, <4>1, ConcatEmptySeq
      <4>3. \A d \in Coroutine : d # c => co'[d] = co[d]
        BY <1>2, <3>2 DEF Finished
      <4> QED
        BY <4>2, <4>3
    <3> QED
      BY <2>1, <3>1, <3>2
  <2>4. PICK t \in {<<>>, <<c>>} : ready' = Tail(ready) \o t
    BY <2>3
  <2>5. HeldBy(co, c) = None
    BY <2>2 DEF HeldBy
  <2> QED
    BY <1>1, <2>1, <2>2, <2>3, <2>4, <2>5, MoveHears
<1> QED
  BY <1>3, <1>5, <1>6

\* A frame is published.
LEMMA FrameReadHears ==
  ASSUME IInv, IInv', HeldInv, NEW c \in Coroutine, FrameRead(c)
  PROVE  Hears
<1>1. /\ AtFront(c) /\ co[c].at = "frame" /\ co[c].result = "ok"
      /\ dispatcher' = Append(dispatcher, Event("Inbound", co[c].generation, co[c].data))
      /\ UNCHANGED <<connected, socket>>
      /\ \/ Await(c, "length", co[c].generation, None)
         \/ co' = Finished(c) /\ ready' = Tail(ready)
  BY DEF FrameRead, Resumes
<1>2. /\ OpOf(c, co[c]) /\ ready # <<>> /\ ready \in Seq(Handlers) /\ c \in Handlers
      /\ co \in [Coroutine -> OpType]
  BY <1>1, FrontIsDone DEF IInv, TypeOK, Handlers
<1>3. c \in Reader
  BY <1>1, <1>2, KindOfStep
<1>4. PICK e : e = Event("Inbound", co[c].generation, co[c].data)
  OBVIOUS
<1>5. e \in EventType /\ e.type = "Inbound" /\ e.data = co[c].data /\ e.data # None
  <2>1. co[c].generation \in Generation /\ co[c].data \in Inbound \cup {None}
    BY <1>2, <1>3, Kinds DEF OpOf, Data
  <2>2. co[c].data # None
    BY <1>1, <1>3 DEF HeldInv
  <2> QED
    BY <1>4, <2>1, <2>2 DEF Event, EventType
<1>6. /\ \A d \in Coroutine : d # c => co'[d] = co[d]
      /\ co'[c].data = None /\ co'[c].result # "ok"
      /\ \E t \in {<<>>, <<c>>} : ready' = Tail(ready) \o t
  <2>1. CASE Await(c, "length", co[c].generation, None)
    BY <2>1, GoesOnAlone
  <2>2. CASE co' = Finished(c) /\ ready' = Tail(ready)
    <3>1. Tail(ready) \in Seq(Handlers)
      BY <1>2
    <3>2. ready' = Tail(ready) \o <<>>
      BY <2>2, <3>1, ConcatEmptySeq
    <3>3. co'[c] = Idle /\ \A d \in Coroutine : d # c => co'[d] = co[d]
      BY <1>2, <2>2 DEF Finished
    <3>4. Idle.data = None /\ Idle.result # "ok"
      BY DEF Idle, Op
    <3> QED
      BY <3>2, <3>3, <3>4
  <2> QED
    BY <1>1, <2>1, <2>2
<1>7. PICK t \in {<<>>, <<c>>} : ready' = Tail(ready) \o t
  BY <1>6
<1>8. dispatcher' = Append(dispatcher, e) /\ e.data = HeldBy(co, c)
  BY <1>1, <1>3, <1>4, <1>5 DEF HeldBy
<1>9. HeldInv' /\ Kept(Unheard, Unheard')
  <2>1. TypeOK'
    BY DEF IInv
  <2> QED
    BY <1>1, <1>5, <1>6, <1>7, <1>8, <2>1, MoveShifts
<1> QED
  BY <1>1, <1>5, <1>8, <1>9 DEF Hears, Publishes

\* run may be queued again.
LEMMA RunOrNone ==
  ASSUME NEW q \in {<<>>, <<Run>>}
  PROVE  q \in Seq(Handlers) /\ IsInjective(q) /\ Range(q) \subseteq {Run} /\ \A x \in Range(q) : HeldBy(co', x) = None
<1>1. Run \in Handlers /\ Run \notin Reader
  BY Kinds DEF Handlers
<1>2. /\ <<>> \in Seq(Handlers) /\ IsInjective(<<>>) /\ Range(<<>>) = {}
      /\ <<Run>> \in Seq(Handlers) /\ IsInjective(<<Run>>) /\ Range(<<Run>>) = {Run}
  BY <1>1 DEF IsInjective, Range
<1>3. q \in Seq(Handlers) /\ IsInjective(q) /\ Range(q) \subseteq {Run}
  BY <1>2
<1> QED
  BY <1>1, <1>3 DEF HeldBy

\* What closing queues.
LEMMA AbortedAndMore ==
  ASSUME NEW running, NEW aborted \in Aborted(running), NEW more \in {<<>>, <<Run>>}
  PROVE  aborted \o more \in Seq(Handlers) /\ Range(aborted \o more) \subseteq Pending \cup {Run}
<1>1. aborted \in Seq(Handlers) /\ IsInjective(aborted) /\ Range(aborted) \subseteq Pending
  BY AbortedQueue DEF Handlers
<1>2. more \in Seq(Handlers) /\ IsInjective(more) /\ Range(more) \subseteq {Run}
  BY RunOrNone
<1>3. Range(aborted) \cap Range(more) = {}
  BY <1>1, <1>2, Kinds DEF Pending
<1>4. aborted \o more \in Seq(Handlers) /\ Range(aborted \o more) = Range(aborted) \cup Range(more)
  BY <1>1, <1>2, <1>3, JoinedQueue
<1> QED
  BY <1>1, <1>2, <1>4

\* A connection is closed.
LEMMA ClosingHears ==
  ASSUME IInv, IInv', HeldInv, NEW h \in Handlers, NEW cs, NEW running \in BOOLEAN, NEW rf \in BOOLEAN,
         ready # <<>>, Head(ready) = h, running => writerRunning,
         cs = IF h = Run THEN co ELSE Finished(h),
         CloseConnection(rf, running, cs),
         NEW aborted \in Aborted(running), NEW more \in {<<>>, <<Run>>},
         ready' = Tail(ready) \o (aborted \o more),
         HeldBy(co, h) = None
  PROVE  Hears /\ ~connected'
<1>1. /\ \A c \in Coroutine : co'[c] = IF c = h THEN Idle
                     ELSE IF connectionActive /\ co[c].result = "pending"
                     THEN [co[c] EXCEPT !.result = "error"] ELSE co[c]
      /\ \A c \in Coroutine : co[c] \in OpType
  BY ClosedCoroutines DEF IInv, TypeOK
<1>2. Idle.data = None /\ Idle.result = "none"
  BY DEF Idle, Op
<1>3. ASSUME NEW c \in Coroutine, co[c].result = "pending"
      PROVE  LET op == [co[c] EXCEPT !.result = "error"] IN op.data = co[c].data /\ op.result = "error"
  BY <1>1 DEF OpType
<1>4. ASSUME NEW c \in Reader
      PROVE  \/ co'[c] = co[c]
             \/ co'[c].data = None /\ co'[c].result # "ok" /\ (c = h \/ co[c].data = None)
  <2>1. c \in Coroutine /\ (co[c].result = "pending" => co[c].data = None)
    BY Kinds DEF HeldInv
  <2>2. CASE c = h
    BY <1>1, <1>2, <2>1, <2>2
  <2>3. CASE c # h /\ connectionActive /\ co[c].result = "pending"
    <3>1. co'[c].data = co[c].data /\ co'[c].result = "error"
      BY <1>1, <1>3, <2>1, <2>3
    <3> QED
      BY <2>1, <2>3, <3>1
  <2> QED
    BY <1>1, <2>1, <2>2, <2>3
<1>5. ReadersMove(h)
  BY <1>4 DEF ReadersMove
<1> DEFINE t == aborted \o more
<1>6. t \in Seq(Handlers) /\ Range(t) \subseteq Pending \cup {Run}
  BY AbortedAndMore
<1>7. \A x \in Range(t) : HeldBy(co', x) = None
  <2> SUFFICES ASSUME NEW x \in Pending, x \in Reader PROVE co'[x].data = None
    <3>1. Run \notin Reader
      BY Kinds
    <3> HIDE DEF t
    <3> QED
      BY <1>6, <3>1 DEF HeldBy
  <2>1. co[x].data = None
    BY DEF Pending, HeldInv
  <2> QED
    BY <1>4, <2>1
<1>8. ~connected'
  BY ClosingTells
<1>9. \/ UNCHANGED dispatcher /\ ~connected
      \/ \E e \in EventType :
           dispatcher' = Append(dispatcher, e) /\ e.type \in {"Closed", "Failed"} /\ e.data = None
  <2>1. CASE connectionActive
    <3>1. activeGeneration \in Generation
      BY <2>1 DEF IInv, ConnInv, Current, TypeOK, Generation
    <3>2. PICK e : e = Event(IF rf THEN "Failed" ELSE "Closed", activeGeneration, None)
      OBVIOUS
    <3>3. e \in EventType /\ e.type \in {"Closed", "Failed"} /\ e.data = None
      BY <3>1, <3>2 DEF Event, EventType
    <3>4. IF rf \/ connected THEN dispatcher' = Append(dispatcher, e) ELSE UNCHANGED dispatcher
      BY <2>1, <3>2, ClosedState
    <3> QED
      BY <3>3, <3>4
  <2>2. CASE ~connectionActive
    <3>1. ~connected
      BY <2>2 DEF IInv, ConnInv, Quiet
    <3>2. UNCHANGED dispatcher
      BY <2>2, WhatIsClosed DEF CloseConnection
    <3> QED
      BY <3>1, <3>2
  <2> QED
    BY <2>1, <2>2
<1>10. \/ dispatcher' = dispatcher /\ HeldBy(co, h) = None
       \/ \E e \in EventType : dispatcher' = Append(dispatcher, e) /\ e.data = HeldBy(co, h)
  BY <1>9
<1>11. HeldInv' /\ Kept(Unheard, Unheard')
  <2>1. TypeOK' /\ ready' = Tail(ready) \o t
    BY DEF IInv
  <2> HIDE DEF t
  <2> QED
    BY <1>5, <1>6, <1>7, <1>10, <2>1, StepShifts
<1>12. Publishes
  <2>1. ASSUME NEW e \in EventType, dispatcher' = Append(dispatcher, e), e.type \in {"Closed", "Failed"}, e.data = None
        PROVE  Publishes
    BY <1>8, <2>1 DEF Publishes
  <2> QED
    BY <1>8, <1>9, <2>1 DEF Publishes
<1> QED
  BY <1>8, <1>11, <1>12 DEF Hears

\* A coroutine that gives the connection up.
LEMMA EndingsHear ==
  ASSUME IInv, IInv', HeldInv, NEW c \in Coroutine, AtFront(c), HeldBy(co, c) = None,
         NEW rf \in BOOLEAN, Closes(c, rf)
  PROVE  Hears /\ ~connected'
<1>1. PICK running \in BOOLEAN : running = (writerRunning /\ c \notin Writer)
  OBVIOUS
<1>2. PICK aborted \in Aborted(running) : ready' = Tail(ready) \o aborted
  BY <1>1 DEF Closes
<1>3. CloseConnection(rf, running, Finished(c))
  BY <1>1 DEF Closes
<1>4. c \in Handlers /\ c # Run /\ ready # <<>> /\ Head(ready) = c
  BY FrontIsDone, Kinds DEF Handlers
<1>5. ready' = Tail(ready) \o (aborted \o <<>>)
  <2>1. aborted \in Seq(Handlers)
    BY AbortedQueue DEF Handlers
  <2> QED
    BY <1>2, <2>1, ConcatEmptySeq
<1>6. PICK cs : cs = Finished(c)
  OBVIOUS
<1>7. PICK more \in {<<>>, <<Run>>} : more = <<>>
  OBVIOUS
<1>8. ready' = Tail(ready) \o (aborted \o more)
  BY <1>5, <1>7
<1> QED
  BY <1>1, <1>3, <1>4, <1>6, <1>8, ClosingHears

\* ServerHello is in.
LEMMA HandshakeEndsHears ==
  ASSUME IInv, IInv', HeldInv, NEW c \in Coroutine, HandshakeEnds(c)
  PROVE  Hears
<1> DEFINE g == co[c].generation
           r == <<"reader", g>>
<1>1. AtFront(c) /\ co[c].at = "hello payload"
  BY DEF HandshakeEnds, Resumes
<1>2. /\ OpOf(c, co[c]) /\ ready # <<>> /\ Head(ready) = c /\ co[c] # Idle /\ ready \in Seq(Handlers)
      /\ c \in Handlers /\ co \in [Coroutine -> OpType]
  BY <1>1, FrontIsDone DEF IInv, TypeOK, Handlers
<1>3. /\ c \in Connection /\ c \notin Reader /\ g = c[2] /\ g \in Generation
      /\ r \in Reader /\ c = <<"connection", g>> /\ r # c /\ r \in Coroutine
  <2>1. c \in Connection /\ c \notin Reader /\ g = c[2]
    BY <1>1, <1>2, KindOfStep, Kinds DEF OpOf
  <2> QED
    BY <2>1, Kinds
<1>4. HeldBy(co, c) = None
  BY <1>3 DEF HeldBy
<1>5. CASE currentConfig = None \/ clientNonce # g
  BY <1>1, <1>4, <1>5, EndingsHear DEF HandshakeEnds
<1>6. CASE ~(currentConfig = None \/ clientNonce # g)
  <2>1. ready' = Tail(ready) /\ UNCHANGED socket
    BY <1>6 DEF HandshakeEnds
  <2>2. ready' = Tail(ready) \o <<>> /\ <<>> \in Seq(Handlers) /\ Range(<<>>) = {}
    <3>1. Tail(ready) \in Seq(Handlers)
      BY <1>2
    <3> QED
      BY <2>1, <3>1, ConcatEmptySeq DEF Range
  <2>3. CASE g # activeGeneration \/ socket = 0
    <3>1. co' = Finished(c) /\ UNCHANGED <<connected, dispatcher, socket>>
      BY <1>6, <2>1, <2>3 DEF HandshakeEnds
    <3>2. \A d \in Coroutine : d # c => co'[d] = co[d]
      BY <1>2, <3>1 DEF Finished
    <3>3. PICK t \in {<<>>, <<c>>} : t = <<>>
      OBVIOUS
    <3>4. ready' = Tail(ready) \o t
      BY <2>2, <3>3
    <3> QED
      BY <1>1, <1>3, <1>4, <3>1, <3>2, <3>4, MoveHears
  <2>4. CASE ~(g # activeGeneration \/ socket = 0)
    <3>1. /\ connected' = TRUE
          /\ dispatcher' = Append(dispatcher, Event("Authenticated", g, None))
          /\ co' = [Finished(c) EXCEPT ![r] = Op("length", g, socket, "pending", None)]
      BY <1>6, <2>4 DEF HandshakeEnds
    <3>2. co[r].data = None
      <4>1. connectionActive /\ g = generationCounter /\ c = Newest /\ r = NewestReader
        BY <1>3, <2>4 DEF IInv, ConnInv, Current, Quiet, Newest, NewestReader
      <4>2. co[r] = Idle
        BY <1>2, <4>1 DEF IInv, ConnInv, Current
      <4> QED
        BY <4>2 DEF Idle, Op
    <3>3. PICK op : op = Op("length", g, socket, "pending", None)
      OBVIOUS
    <3>4. op.data = None /\ op.result = "pending"
      BY <3>3, OpFacts
    <3>5. co'[r] = op /\ \A d \in Coroutine : d # c /\ d # r => co'[d] = co[d]
      BY <1>2, <1>3, <3>1, <3>3 DEF Finished
    <3>6. ReadersMove(c)
      BY <1>3, <3>2, <3>4, <3>5, Kinds DEF ReadersMove
    <3>7. PICK e : e = Event("Authenticated", g, None)
      OBVIOUS
    <3>8. e \in EventType /\ e.type = "Authenticated" /\ e.data = None
      BY <1>3, <3>7 DEF Event, EventType
    <3>9. HeldInv' /\ Kept(Unheard, Unheard')
      <4>1. TypeOK' /\ dispatcher' = Append(dispatcher, e) /\ e.data = HeldBy(co, c)
        BY <1>4, <3>1, <3>7, <3>8 DEF IInv
      <4>2. PICK t \in Seq(Handlers) : t = <<>>
        BY <2>2
      <4>3. ready' = Tail(ready) \o t /\ \A x \in Range(t) : HeldBy(co', x) = None
        BY <2>2, <4>2
      <4> QED
        BY <1>2, <3>6, <3>8, <4>1, <4>3, StepShifts
    <3> QED
      BY <2>1, <3>1, <3>7, <3>8, <3>9 DEF Hears, Publishes
  <2> QED
    BY <2>3, <2>4
<1> QED
  BY <1>5, <1>6

\* Undefined behaviour changes nothing else.
LEMMA SameLine == Kept(Unheard, Unheard)
  BY DEF Kept

\* Undefined behaviour is kept apart: it moves nothing on its way.
LEMMA CorruptsHears ==
  ASSUME IInv, HeldInv, Corrupts PROVE Hears
<1>1. UNCHANGED <<ready, co, dispatcher, connected, socket>>
  BY DEF Corrupts, stateVars
<1>2. HeldInv' /\ Unheard' = Unheard
  BY <1>1 DEF HeldInv, Unheard, Held
<1> QED
  BY <1>1, <1>2, SameLine DEF Hears, Publishes

\* Every step of a coroutine.
LEMMA CoroutineHears ==
  ASSUME IInv, HeldInv, NEW c \in Coroutine, CoroutineStep(c)
  PROVE  Hears
<1>1. IInv'
  BY CoroutineKeeps
<1>2. ASSUME \/ HandshakeFails(c) \/ HandshakeCannotStart(c)
             \/ ReaderFails(c) \/ ReaderReachesEnd(c) \/ WriterFails(c)
      PROVE  Hears
  <2>1. PICK rf \in BOOLEAN : AtFront(c) /\ Closes(c, rf)
    BY <1>2 DEF HandshakeFails, HandshakeCannotStart, ReaderFails, ReaderReachesEnd, WriterFails, Resumes
  <2>2. co[c].at # "frame" \/ co[c].result # "ok"
    BY <1>2 DEF HandshakeFails, HandshakeCannotStart, ReaderFails, ReaderReachesEnd, WriterFails, Resumes
  <2>3. HeldBy(co, c) = None
    BY <2>2 DEF HeldBy, HeldInv
  <2> QED
    BY <1>1, <2>1, <2>3, EndingsHear
<1>3. CASE TimeoutOfNoConfig(c) \/ PopsNothing(c)
  BY <1>3, CorruptsHears DEF TimeoutOfNoConfig, PopsNothing
<1> QED
  BY <1>1, <1>2, <1>3, BystandersHear, FrameReadHears, HandshakeEndsHears DEF CoroutineStep

\* A command that closes nothing: at most a coroutine that reads nothing has started,
\* and a failure been reported.
LEMMA CommandHears ==
  ASSUME IInv, IInv', HeldInv, NEW type, TakesCommand(type),
         \A c \in Reader : co'[c] = co[c],
         NEW s \in Seq(Handlers), Range(s) \cap Reader = {},
         ready' = Tail(ready) \o (s \o RunAgain),
         UNCHANGED connected, UNCHANGED socket \/ ~connected,
         \/ UNCHANGED dispatcher
         \/ /\ ~connected
            /\ \E e \in EventType : dispatcher' = Append(dispatcher, e) /\ e.type = "Failed" /\ e.data = None
  PROVE  Hears
<1>1. ready # <<>> /\ Head(ready) = Run /\ RunAgain \in {<<>>, <<Run>>}
  BY TakenCommand
<1>2. PICK more \in {<<>>, <<Run>>} : more = RunAgain
  BY <1>1
<1>3. more \in Seq(Handlers) /\ Range(more) \subseteq {Run} /\ Run \notin Reader
  BY RunOrNone, Kinds
<1> DEFINE t == s \o more
<1>4. t \in Seq(Handlers)
  BY <1>3
<1>5. \A x \in Range(t) : HeldBy(co', x) = None
  <2>1. \A i \in DOMAIN t : t[i] \in Range(s) \cup Range(more)
    <3>1. /\ DOMAIN s = 1..Len(s) /\ DOMAIN more = 1..Len(more) /\ DOMAIN t = 1..Len(s) + Len(more)
          /\ Len(s) \in Nat /\ Len(more) \in Nat
          /\ \A i \in DOMAIN t : t[i] = IF i <= Len(s) THEN s[i] ELSE more[i - Len(s)]
      BY <1>3
    <3>2. \A i \in DOMAIN t : i \in DOMAIN s \/ (~(i <= Len(s)) /\ i - Len(s) \in DOMAIN more)
      <4> HIDE DEF t
      <4> QED
        BY <3>1
    <3> HIDE DEF t
    <3> QED
      BY <3>1, <3>2 DEF Range
  <2> HIDE DEF t
  <2>2. \A x \in Range(t) : x \notin Reader
    BY <1>3, <2>1 DEF Range
  <2> QED
    BY <2>2 DEF HeldBy
<1>6. ready' = Tail(ready) \o t
  BY <1>2
<1>7. ReadersMove(Run)
  BY DEF ReadersMove
<1>8. HeldBy(co, Run) = None
  BY <1>3 DEF HeldBy
<1>9. \/ dispatcher' = dispatcher /\ HeldBy(co, Run) = None
      \/ \E e \in EventType : dispatcher' = Append(dispatcher, e) /\ e.data = HeldBy(co, Run)
  BY <1>8
<1>10. HeldInv' /\ Kept(Unheard, Unheard')
  <2>1. TypeOK'
    BY DEF IInv
  <2>2. PICK h : h = Run
    OBVIOUS
  <2> HIDE DEF t
  <2> QED
    BY <1>1, <1>4, <1>5, <1>6, <1>7, <1>9, <2>1, <2>2, StepShifts
<1>11. Publishes
  <2>1. ASSUME ~connected, NEW e \in EventType,
               dispatcher' = Append(dispatcher, e), e.type = "Failed", e.data = None
        PROVE  Publishes
    BY <2>1 DEF Publishes
  <2> QED
    BY <2>1 DEF Publishes
<1> QED
  BY <1>10, <1>11 DEF Hears

\* Commands that start nothing.
LEMMA PlainCommandsHear ==
  ASSUME IInv, IInv', HeldInv, ConnectIgnored \/ SendDropped \/ SendQueued \/ ConnectThrows
  PROVE  Hears
<1>1. PICK type : TakesCommand(type) /\ ready' = Tail(ready) \o RunAgain /\ UNCHANGED <<co, connected, socket>>
  BY DEF ConnectIgnored, SendDropped, SendQueued, ConnectThrows, stateVars
<1>2. \/ UNCHANGED dispatcher
      \/ /\ ~connected
         /\ \E e \in EventType : dispatcher' = Append(dispatcher, e) /\ e.type = "Failed" /\ e.data = None
  <2>1. CASE ConnectThrows
    <3>0. ~connected
      BY <2>1 DEF ConnectThrows, Free, IInv, ConnInv, Quiet
    <3>1. /\ dispatcher' = Append(dispatcher, Event("Failed", generationCounter', None))
          /\ generationCounter' = generationCounter + 1 /\ generationCounter < MaxGeneration
      BY <2>1 DEF ConnectThrows
    <3>2. generationCounter' \in Generation
      BY <3>1, BoundsAssumption DEF IInv, TypeOK, Generation
    <3>3. PICK e : e = Event("Failed", generationCounter', None)
      OBVIOUS
    <3>4. e \in EventType /\ e.type = "Failed" /\ e.data = None
      BY <3>2, <3>3 DEF Event, EventType
    <3> QED
      BY <3>0, <3>1, <3>3, <3>4
  <2>2. CASE ~ConnectThrows
    BY <2>2 DEF ConnectIgnored, SendDropped, SendQueued, stateVars
  <2> QED
    BY <2>1, <2>2
<1>3. PICK s \in Seq(Handlers) : s = <<>>
  <2>1. <<>> \in Seq(Handlers)
    OBVIOUS
  <2> QED
    BY <2>1
<1>4. Range(s) \cap Reader = {} /\ ready' = Tail(ready) \o (s \o RunAgain)
  <2>1. RunAgain \in Seq(Handlers)
    BY <1>1, TakenCommand, RunOrNone
  <2>2. s \o RunAgain = RunAgain
    BY <1>3, <2>1, ConcatEmptySeq
  <2> QED
    BY <1>1, <1>3, <2>2 DEF Range
<1> QED
  BY <1>1, <1>2, <1>4, CommandHears

\* Commands that start a coroutine.
LEMMA StartsHear ==
  ASSUME IInv, IInv', HeldInv, NEW c \in Connection \cup Writer, NEW result, NEW op, NEW type,
         TakesCommand(type), co' = [co EXCEPT ![c] = op],
         ready' = Tail(ready) \o ((IF result = "pending" THEN <<>> ELSE <<c>>) \o RunAgain),
         UNCHANGED <<connected, dispatcher>>, UNCHANGED socket \/ ~connected
  PROVE  Hears
<1>1. c \in Handlers /\ c \notin Reader /\ co \in [Coroutine -> OpType]
  BY Kinds DEF IInv, TypeOK, Handlers
<1>2. \A d \in Reader : co'[d] = co[d]
  BY <1>1, Kinds
<1> DEFINE s == IF result = "pending" THEN <<>> ELSE <<c>>
<1>3. s \in Seq(Handlers) /\ Range(s) \subseteq {c}
  <2>1. <<>> \in Seq(Handlers) /\ Range(<<>>) = {} /\ <<c>> \in Seq(Handlers) /\ Range(<<c>>) = {c}
    BY <1>1 DEF Range
  <2> QED
    BY <2>1
<1>4. ready' = Tail(ready) \o (s \o RunAgain)
  OBVIOUS
<1> HIDE DEF s
<1>5. Range(s) \cap Reader = {}
  BY <1>1, <1>3
<1> QED
  BY <1>2, <1>3, <1>4, <1>5, CommandHears

\* Every command.
LEMMA CommandsHear ==
  ASSUME IInv, HeldInv, HandleCommand
  PROVE  Hears
<1>1. IInv'
  BY PlainCommandKeeps, ConnectStartsKeeps, ConnectThrowsKeeps, HandleDisconnectKeeps,
     SendStartsWriterKeeps DEF HandleCommand
<1>2. ASSUME NEW result \in {"pending", "ok", "error"}, ConnectStarts(result) PROVE Hears
  <2>1. PICK g, c, op : /\ g = generationCounter + 1 /\ c = <<"connection", g>>
                        /\ op = Op("connect", g, g, result, None)
    OBVIOUS
  <2>2. /\ TakesCommand("Connect") /\ ~connectionActive /\ g <= MaxGeneration
        /\ co' = [co EXCEPT ![c] = op]
        /\ ready' = Tail(ready) \o ((IF result = "pending" THEN <<>> ELSE <<c>>) \o RunAgain)
        /\ UNCHANGED <<connected, dispatcher>>
    BY <1>2, <2>1 DEF ConnectStarts, Free
  <2>3. ~connected
    BY <2>2 DEF IInv, ConnInv, Quiet
  <2>4. c \in Connection
    <3>1. g \in Generation
      BY <2>1, <2>2, BoundsAssumption DEF IInv, TypeOK, Generation
    <3> QED
      BY <2>1, <3>1, Kinds
  <2> QED
    BY <1>1, <2>2, <2>3, <2>4, StartsHear
<1>3. ASSUME NEW c \in Writer, NEW result \in {"pending", "ok", "error"}, SendStartsWriter(c, result) PROVE Hears
  <2>1. PICK op : op = Op("write", activeGeneration, socket, result, Head(outgoingFrames'))
    OBVIOUS
  <2>2. /\ TakesCommand("Send")
        /\ co' = [co EXCEPT ![c] = op]
        /\ ready' = Tail(ready) \o ((IF result = "pending" THEN <<>> ELSE <<c>>) \o RunAgain)
        /\ UNCHANGED <<connected, dispatcher, socket>>
    BY <1>3, <2>1 DEF SendStartsWriter
  <2> QED
    BY <1>1, <2>2, StartsHear
<1>4. CASE HandleDisconnect
  <2>1. PICK aborted \in Aborted(writerRunning) : ready' = Tail(ready) \o (aborted \o RunAgain)
    BY <1>4 DEF HandleDisconnect
  <2>2. /\ ready # <<>> /\ Head(ready) = Run /\ Run \in Handlers /\ RunAgain \in {<<>>, <<Run>>}
        /\ Run \notin Reader
    BY <1>4, TakenCommand, Kinds DEF HandleDisconnect, Handlers
  <2>3. PICK more \in {<<>>, <<Run>>} : more = RunAgain
    BY <2>2
  <2>4. PICK running \in BOOLEAN : running = writerRunning
    BY DEF IInv, TypeOK
  <2>5. PICK cs : cs = co
    OBVIOUS
  <2>6. PICK h : h = Run
    OBVIOUS
  <2>7. /\ CloseConnection(FALSE, running, cs) /\ aborted \in Aborted(running)
        /\ ready' = Tail(ready) \o (aborted \o more) /\ HeldBy(co, h) = None
    BY <1>4, <2>1, <2>2, <2>3, <2>4, <2>5, <2>6 DEF HandleDisconnect, HeldBy
  <2> QED
    BY <1>1, <2>2, <2>4, <2>5, <2>6, <2>7, ClosingHears
<1> QED
  BY <1>1, <1>2, <1>3, <1>4, PlainCommandsHear DEF HandleCommand

\* Every step of the worker.
LEMMA WorkerHears ==
  ASSUME IInv, HeldInv, WorkerStep PROVE Hears
  BY CommandsHear, CoroutineHears DEF WorkerStep

\* An operation is over: what it brings is the last in line.
LEMMA CompletesHears ==
  ASSUME IInv, HeldInv, NEW c \in Coroutine, NEW result, NEW data \in Inbound \cup {None},
         Completes(c, result, data),
         c \in Reader => (data # None <=> co[c].at = "frame" /\ result = "ok")
  PROVE  /\ HeldInv' /\ UNCHANGED <<dispatcher, connected, socket>>
         /\ Gains(Unheard, Unheard', IF c \in Reader THEN data ELSE None)
<1>1. /\ co[c].result = "pending" /\ ready' = Append(ready, c)
      /\ co' = [co EXCEPT ![c].result = result, ![c].data = IF c \in Reader THEN data ELSE @]
      /\ UNCHANGED <<dispatcher, connected, socket>>
  BY DEF Completes, stateVars
<1>2. /\ co \in [Coroutine -> OpType] /\ ready \in Seq(Handlers) /\ c \in Handlers
      /\ dispatcher \in Seq(EventType) /\ ReadyInv
  BY DEF IInv, TypeOK, Handlers
<1>3. \A d \in Coroutine : d # c => co'[d] = co[d]
  BY <1>1, <1>2
<1>4. /\ co'[c].at = co[c].at /\ co'[c].result = result
      /\ c \in Reader => co'[c].data = data
  <2>1. co'[c] = [[co[c] EXCEPT !.result = result] EXCEPT !.data = IF c \in Reader THEN data ELSE co[c].data]
    BY <1>1, <1>2 DEF OpType
  <2>2. co[c] \in OpType
    BY <1>2
  <2> QED
    BY <2>1, <2>2 DEF OpType
<1>5. HeldInv'
  <2> SUFFICES ASSUME NEW d \in Reader
               PROVE  co'[d].data # None <=> co'[d].at = "frame" /\ co'[d].result = "ok"
    BY DEF HeldInv
  <2>1. d \in Coroutine
    BY Kinds
  <2>2. CASE d = c
    BY <1>4, <2>2
  <2>3. CASE d # c
    BY <1>3, <2>1, <2>3 DEF HeldInv
  <2> QED
    BY <2>2, <2>3
<1> DEFINE d == dispatcher  q == ready  q2 == ready'  cs == co  ct == co'
<1>6. Alike(cs, ct, q)
  <2>1. c \notin Range(ready)
    BY <1>1, <1>2 DEF ReadyInv, Done
  <2>2. \A y \in Range(q) : y \in Reader => ct[y] = cs[y]
    BY <1>3, <2>1, Kinds
  <2> HIDE DEF q, cs, ct
  <2> QED
    BY <2>2 DEF Alike, HeldBy
<1>7. HeldBy(ct, c) = IF c \in Reader THEN data ELSE None
  BY <1>4 DEF HeldBy
<1>8. Gains(Line(d, q, cs), Line(d, q2, ct), HeldBy(ct, c))
  <2>1. d \in Seq(EventType) /\ q \in Seq(Handlers) /\ q2 = Append(q, c)
    BY <1>1, <1>2
  <2> HIDE DEF d, q, q2, cs, ct
  <2> QED
    BY <1>2, <1>6, <2>1, LineGains
<1>9. Unheard = Line(d, q, cs) /\ Unheard' = Line(d, q2, ct)
  BY <1>1, UnheardLine
<1> HIDE DEF d, q, q2, cs, ct
<1> QED
  BY <1>1, <1>5, <1>7, <1>8, <1>9

\* An operation ends that brings nothing.
LEMMA OperationHears ==
  ASSUME IInv, HeldInv, NEW c \in Coroutine, NEW result, OperationEnds(c, result)
  PROVE  Hears
<1>1. Completes(c, result, None) /\ ~(co[c].at = "frame" /\ result = "ok")
  BY DEF OperationEnds
<1>2. /\ HeldInv' /\ UNCHANGED <<dispatcher, connected, socket>>
      /\ Gains(Unheard, Unheard', IF c \in Reader THEN None ELSE None)
  <2>1. None \in Inbound \cup {None}
    OBVIOUS
  <2> QED
    BY <1>1, <2>1, CompletesHears
<1>3. Gains(Unheard, Unheard', None)
  BY <1>2
<1>4. Kept(Unheard, Unheard')
  BY <1>3, NoneOnly
<1> QED
  BY <1>2, <1>4 DEF Hears, Publishes

\* A frame arrives.
LEMMA ArrivalHears ==
  ASSUME IInv, HeldInv, NEW c \in Coroutine, NEW m \in Inbound, FrameArrives(c, m)
  PROVE  /\ HeldInv' /\ UNCHANGED <<dispatcher, connected, socket>>
         /\ Gains(Unheard, Unheard', m)
<1>1. Completes(c, "ok", m) /\ c \in Reader /\ co[c].at = "frame" /\ m # None
  BY FrameAssumption DEF FrameArrives
<1>2. m \in Inbound \cup {None}
  OBVIOUS
<1>3. /\ HeldInv' /\ UNCHANGED <<dispatcher, connected, socket>>
      /\ Gains(Unheard, Unheard', IF c \in Reader THEN m ELSE None)
  BY <1>1, <1>2, CompletesHears
<1> QED
  BY <1>1, <1>3

\* A command is queued.
LEMMA TrySendHears ==
  ASSUME IInv, HeldInv, NEW command, TrySend(command)
  PROVE  Hears /\ UNCHANGED dispatcher
<1>1. /\ ready' = IF commands = <<>> THEN Append(ready, Run) ELSE ready
      /\ UNCHANGED <<co, dispatcher, connected, socket>>
  BY DEF TrySend, stateVars
<1>2. HeldInv'
  BY <1>1 DEF HeldInv
<1>3. Kept(Unheard, Unheard')
  <2>1. CASE commands = <<>>
    <3> DEFINE d == dispatcher  q == ready  q2 == ready'  cs == co
    <3>1. d \in Seq(EventType) /\ q \in Seq(Handlers) /\ q2 = Append(q, Run) /\ Run \in Handlers
      BY <1>1, <2>1 DEF IInv, TypeOK, Handlers
    <3>2. Alike(cs, cs, q)
      BY DEF Alike
    <3>3. HeldBy(cs, Run) = None
      BY Kinds DEF HeldBy
    <3>4. Unheard = Line(d, q, cs) /\ Unheard' = Line(d, q2, cs)
      BY <1>1, UnheardLine
    <3> HIDE DEF d, q, q2, cs
    <3>5. Gains(Line(d, q, cs), Line(d, q2, cs), HeldBy(cs, Run))
      BY <3>1, <3>2, LineGains
    <3> QED
      BY <3>3, <3>4, <3>5, NoneOnly
  <2>2. CASE commands # <<>>
    <3>1. Unheard' = Unheard
      BY <1>1, <2>2 DEF Unheard, Held
    <3> QED
      BY <3>1, SameLine
  <2> QED
    BY <2>1, <2>2
<1> QED
  BY <1>1, <1>2, <1>3 DEF Hears, Publishes

\* A callback is run.
LEMMA DeliverHears ==
  ASSUME IInv, HeldInv, Deliver
  PROVE  HeldInv' /\ Sheds(Unheard, Unheard', Head(dispatcher).data)
<1>1. dispatcher # <<>> /\ dispatcher' = Tail(dispatcher) /\ UNCHANGED <<co, ready>>
  BY DEF Deliver
<1>2. HeldInv'
  BY <1>1 DEF HeldInv
<1> DEFINE d == dispatcher  d2 == dispatcher'  q == ready  cs == co
<1>3. d \in Seq(EventType) /\ d # <<>> /\ d2 = Tail(d) /\ q \in Seq(Handlers)
  BY <1>1 DEF IInv, TypeOK, Handlers
<1>4. Unheard = Line(d, q, cs) /\ Unheard' = Line(d2, q, cs)
  BY <1>1, UnheardLine
<1>5. Sheds(Unheard, Unheard', Head(d).data)
  <2> HIDE DEF d, d2, q, cs
  <2>1. Sheds(Line(d, q, cs), Line(d2, q, cs), Head(d).data)
    BY <1>3, LineSheds
  <2> QED
    BY <1>4, <2>1
<1> QED
  BY <1>2, <1>5

-----------------------------------------------------------------------------
(***************************************************************************)
(* To the peer: the frames that are still to be written.                   *)
(***************************************************************************)
\* A frame whose write is over stays at the front until its writer resumes.
Unwritten ==
  IF outgoingFrames # <<>> /\ \E w \in Writer : co[w].result = "ok"
  THEN Tail(outgoingFrames) ELSE outgoingFrames

\* Frame f is among the frames u or the commands m; and it is there once.
Waits(u, m, f) == f \in Range(u) \/ Send(f) \in Range(m)
WaitsOnce(u, m, f) ==
  /\ Once(u, f) /\ Once(m, Send(f))
  /\ f \in Range(u) => Send(f) \notin Range(m)

\* u and m became u2 and m2: nothing has come, ...
Drains(u, m, u2, m2) ==
  \A f : (Waits(u2, m2, f) => Waits(u, m, f)) /\ (WaitsOnce(u, m, f) => WaitsOnce(u2, m2, f))
\* ... nothing has gone, ...
Stays(u, m, u2, m2) == \A f : Waits(u, m, f) => Waits(u2, m2, f)
\* ... g has gone.
Loses(u, m, u2, m2, g) ==
  /\ Waits(u, m, g)
  /\ WaitsOnce(u, m, g) => ~Waits(u2, m2, g)
  /\ \A f : f # g /\ Waits(u, m, f) => Waits(u2, m2, f)

\* A command carries one frame.
LEMMA SendIsOne == \A f, g : (Send(f) = Send(g)) => f = g
  BY DEF Send

\* A command is taken.
LEMMA CommandGoes ==
  ASSUME NEW u, NEW m \in Seq(Command), m # <<>>, NEW m2, m2 = Tail(m)
  PROVE  /\ Drains(u, m, u, m2)
         /\ (\A f : Head(m) # Send(f)) => Stays(u, m, u, m2)
         /\ \A g : Head(m) = Send(g) => Loses(u, m, u, m2, g)
<1>1. Sheds(m, m2, Head(m))
  BY TailSheds
<1> DEFINE h == Head(m)
<1>2. /\ \A x : x \in Range(m) <=> x = h \/ x \in Range(m2)
      /\ \A x : Once(m, x) => Once(m2, x) /\ (x = h => x \notin Range(m2))
  BY <1>1 DEF Sheds
<1> HIDE DEF h
<1>3. Drains(u, m, u, m2)
  BY <1>2 DEF Drains, Waits, WaitsOnce
<1>4. (\A f : h # Send(f)) => Stays(u, m, u, m2)
  BY <1>2 DEF Stays, Waits
<1>5. ASSUME NEW g, h = Send(g) PROVE Loses(u, m, u, m2, g)
  <2>1. Waits(u, m, g)
    BY <1>2, <1>5 DEF Waits
  <2>2. WaitsOnce(u, m, g) => ~Waits(u, m2, g)
    BY <1>2, <1>5 DEF Waits, WaitsOnce
  <2>3. \A f : f # g /\ Waits(u, m, f) => Waits(u, m2, f)
    BY <1>2, <1>5, SendIsOne DEF Waits
  <2> QED
    BY <2>1, <2>2, <2>3 DEF Loses
<1> QED
  BY <1>3, <1>4, <1>5 DEF h

\* A frame goes from the commands to the frames.
LEMMA FrameMoves ==
  ASSUME NEW u \in Seq(Frame), NEW m \in Seq(Command), m # <<>>, NEW m2, m2 = Tail(m),
         NEW g \in Frame, Head(m) = Send(g), NEW u2, u2 = Append(u, g)
  PROVE  Drains(u, m, u2, m2) /\ Stays(u, m, u2, m2)
<1>1. Sheds(m, m2, Head(m))
  BY TailSheds
<1>2. /\ \A x : x \in Range(m) <=> x = Send(g) \/ x \in Range(m2)
      /\ \A x : Once(m, x) => Once(m2, x) /\ (x = Send(g) => x \notin Range(m2))
  BY <1>1 DEF Sheds
<1>3. Gains(u, u2, g)
  BY AppendGains
<1>4. /\ \A x : x \in Range(u2) <=> x = g \/ x \in Range(u)
      /\ \A x : Once(u, x) /\ (x = g => g \notin Range(u)) => Once(u2, x)
  BY <1>3 DEF Gains
<1>5. \A f : Waits(u2, m2, f) <=> Waits(u, m, f)
  BY <1>2, <1>4, SendIsOne DEF Waits
<1>6. ASSUME NEW f, WaitsOnce(u, m, f) PROVE WaitsOnce(u2, m2, f)
  <2>1. Once(m2, Send(f))
    BY <1>2, <1>6 DEF WaitsOnce
  <2>2. CASE f = g
    BY <1>2, <1>4, <1>6, <2>1, <2>2 DEF WaitsOnce
  <2>3. CASE f # g
    BY <1>2, <1>4, <1>6, <2>1, <2>3 DEF WaitsOnce
  <2> QED
    BY <2>2, <2>3
<1> QED
  BY <1>5, <1>6 DEF Drains, Stays

\* The first frame is written.
LEMMA FrameGoes ==
  ASSUME NEW u \in Seq(Frame), u # <<>>, NEW m, NEW u2, u2 = Tail(u)
  PROVE  Drains(u, m, u2, m) /\ Loses(u, m, u2, m, Head(u))
<1>1. Sheds(u, u2, Head(u))
  BY TailSheds
<1> DEFINE g == Head(u)
<1>2. /\ \A x : x \in Range(u) <=> x = g \/ x \in Range(u2)
      /\ \A x : Once(u, x) => Once(u2, x) /\ (x = g => x \notin Range(u2))
  BY <1>1 DEF Sheds
<1> HIDE DEF g
<1>3. Drains(u, m, u2, m)
  BY <1>2 DEF Drains, Waits, WaitsOnce
<1>4. Loses(u, m, u2, m, g)
  BY <1>2 DEF Loses, Waits, WaitsOnce
<1> QED
  BY <1>3, <1>4 DEF g

\* All frames are forgotten.
LEMMA FramesCleared ==
  ASSUME NEW u, NEW m, NEW u2, u2 = <<>>
  PROVE  Drains(u, m, u2, m)
<1>1. Range(u2) = {} /\ \A f : Once(u2, f)
  BY DEF Range, Once
<1> QED
  BY <1>1 DEF Drains, Waits, WaitsOnce

\* One drain after the other.
LEMMA DrainsOn ==
  ASSUME NEW u, NEW m, NEW u2, NEW m2, NEW u3, NEW m3, Drains(u, m, u2, m2), Drains(u2, m2, u3, m3)
  PROVE  Drains(u, m, u3, m3)
  BY DEF Drains

\* A drain that takes no command.
LEMMA DrainsNothing ==
  ASSUME NEW u, NEW m PROVE Drains(u, m, u, m) /\ Stays(u, m, u, m)
  BY DEF Drains, Stays

\* A command is queued.
LEMMA CommandComes ==
  ASSUME NEW u, NEW m \in Seq(Command), NEW command \in Command, NEW m2, m2 = Append(m, command)
  PROVE  /\ \A f : Waits(u, m2, f) <=> Send(f) = command \/ Waits(u, m, f)
         /\ \A f : WaitsOnce(u, m, f) /\ (Send(f) = command => ~Waits(u, m, f)) => WaitsOnce(u, m2, f)
<1>1. Gains(m, m2, command)
  BY AppendGains
<1>2. /\ \A x : x \in Range(m2) <=> x = command \/ x \in Range(m)
      /\ \A x : Once(m, x) /\ (x = command => command \notin Range(m)) => Once(m2, x)
  BY <1>1 DEF Gains
<1>3. \A f : Waits(u, m2, f) <=> Send(f) = command \/ Waits(u, m, f)
  BY <1>2 DEF Waits
<1>4. ASSUME NEW f, WaitsOnce(u, m, f), Send(f) = command => ~Waits(u, m, f) PROVE WaitsOnce(u, m2, f)
  BY <1>2, <1>4 DEF Waits, WaitsOnce
<1> QED
  BY <1>3, <1>4

\* The writers whose write is over by this step: the peer has read their frame.
JustWritten == {w \in Writer : co'[w].result = "ok" /\ co'[w] # co[w]}

\* What a step does to the frames: none comes; one is written over the connection
\* there is, or none is, and then none is lost while the connection lasts.
Sends ==
  /\ Drains(Unwritten, commands, Unwritten', commands')
  /\ \/ /\ JustWritten = {}
        /\ connected /\ connected' => Stays(Unwritten, commands, Unwritten', commands')
     \/ \E w \in Writer :
          /\ JustWritten = {w} /\ connected /\ UNCHANGED socket /\ co'[w].data \in Frame
          /\ Loses(Unwritten, commands, Unwritten', commands', co'[w].data)

\* The writers and the connection.
LEMMA WriterFacts ==
  ASSUME IInv
  PROVE  /\ outgoingFrames \in Seq(Frame) /\ commands \in Seq(Command)
         /\ outgoingFrames # <<>> <=> writerRunning
         /\ writerRunning => connected
         /\ connected => connectionActive /\ socket # 0
         /\ \A w \in Writer : (co[w] # Idle /\ connected) \/ co[w].result = "pending"
              => /\ connected /\ writerRunning /\ co[w].data = Head(outgoingFrames)
                 /\ \A v \in Writer : v # w => co[v] = Idle
<1>1. /\ outgoingFrames \in Seq(Frame) /\ commands \in Seq(Command) /\ ConnInv /\ WriterInv
      /\ generationCounter \in 0..MaxGeneration
  BY DEF IInv, TypeOK
<1>2. outgoingFrames # <<>> <=> writerRunning
  BY <1>1 DEF ConnInv, Current, Quiet
<1>3. writerRunning => connected
  BY <1>1 DEF ConnInv, Current, Quiet
<1>4. connected => connectionActive /\ socket # 0
  BY <1>1 DEF ConnInv, Current, Quiet
<1>5. ASSUME NEW w \in Writer, (co[w] # Idle /\ connected) \/ co[w].result = "pending"
      PROVE  /\ connected /\ writerRunning /\ co[w].data = Head(outgoingFrames)
             /\ \A v \in Writer : v # w => co[v] = Idle
  <2>1. co[w] # Idle
    BY <1>5, IdleFacts
  <2>2. writerRunning
    <3> SUFFICES ASSUME ~writerRunning PROVE FALSE
      OBVIOUS
    <3>1. co[w].result # "pending" /\ connected /\ connectionActive
      BY <1>1, <1>4, <1>5, <2>1 DEF WriterInv
    <3>2. co[Newest].at = "connect"
      BY <1>1, <2>1, <3>1 DEF WriterInv
    <3>3. co[Newest] = Idle
      BY <1>1, <3>1 DEF ConnInv, Current
    <3> QED
      BY <3>2, <3>3, IdleFacts
  <2> QED
    BY <1>1, <1>3, <2>1, <2>2 DEF WriterInv
<1> QED
  BY <1>1, <1>2, <1>3, <1>4, <1>5

\* A step that leaves the writers alone, and takes a command at most.
LEMMA OthersSend ==
  ASSUME IInv, UNCHANGED outgoingFrames, \A w \in Writer : co'[w] = co[w],
         \/ UNCHANGED commands
         \/ /\ commands # <<>> /\ commands' = Tail(commands)
            /\ ~connected \/ \A f : Head(commands) # Send(f)
  PROVE  Sends
<1>1. JustWritten = {} /\ Unwritten' = Unwritten
  BY DEF JustWritten, Unwritten
<1> DEFINE u == Unwritten  m == commands  m2 == commands'
<1>2. Drains(u, m, u, m2) /\ (connected => Stays(u, m, u, m2))
  <2>1. CASE m2 = m
    <3> HIDE DEF u, m, m2
    <3> QED
      BY <2>1, DrainsNothing
  <2>2. CASE m # <<>> /\ m2 = Tail(m) /\ (~connected \/ \A f : Head(m) # Send(f))
    <3>1. m \in Seq(Command)
      BY DEF IInv, TypeOK
    <3> HIDE DEF u, m, m2
    <3> QED
      BY <2>2, <3>1, CommandGoes
  <2> QED
    BY <2>1, <2>2
<1> QED
  BY <1>1, <1>2 DEF Sends

\* A step that closes the connection.
LEMMA ClosingSends ==
  ASSUME IInv, ~connected', outgoingFrames' = <<>>,
         \A w \in Writer : co'[w] = co[w] \/ co'[w].result # "ok",
         UNCHANGED commands \/ (commands # <<>> /\ commands' = Tail(commands))
  PROVE  Sends
<1>1. JustWritten = {} /\ Unwritten' = <<>>
  BY DEF JustWritten, Unwritten
<1> DEFINE u == Unwritten  m == commands  u2 == Unwritten'  m2 == commands'
<1>2. Drains(u, m, u2, m2)
  <2>1. u2 = <<>> /\ m \in Seq(Command)
    BY <1>1 DEF IInv, TypeOK
  <2>2. m2 = m \/ (m # <<>> /\ m2 = Tail(m))
    OBVIOUS
  <2> HIDE DEF u, m, u2, m2
  <2>3. Drains(u, m, u2, m)
    BY <2>1, FramesCleared
  <2>4. Drains(u2, m, u2, m2)
    BY <2>1, <2>2, CommandGoes, DrainsNothing
  <2> QED
    BY <2>3, <2>4, DrainsOn
<1> QED
  BY <1>1, <1>2 DEF Sends

\* Send hands its frame to the writer there is.
LEMMA SendQueuedSends ==
  ASSUME IInv, SendQueued
  PROVE  Sends
<1>1. /\ TakesCommand("Send") /\ writerRunning /\ UNCHANGED <<co, connected>>
      /\ outgoingFrames' = Append(outgoingFrames, Head(commands).frame)
      /\ commands' = Tail(commands)
  BY DEF SendQueued, TakesCommand
<1>2. /\ outgoingFrames \in Seq(Frame) /\ commands \in Seq(Command) /\ outgoingFrames # <<>> /\ commands # <<>>
  BY <1>1, WriterFacts, TakenCommand
<1>3. PICK g \in Frame : Head(commands) = Send(g) /\ Head(commands).frame = g
  <2>1. Head(commands) \in Command /\ Head(commands).type = "Send"
    BY <1>1, <1>2 DEF TakesCommand
  <2> QED
    BY <2>1 DEF Command, Connect, Disconnect, Send
<1>4. Unwritten \in Seq(Frame) /\ Unwritten' = Append(Unwritten, g)
  <2> DEFINE o == outgoingFrames  some == \E w \in Writer : co[w].result = "ok"
  <2>1. /\ outgoingFrames' = Append(o, g) /\ (\E w \in Writer : co'[w].result = "ok") = some
    BY <1>1, <1>3
  <2>2. o \in Seq(Frame) /\ o # <<>>
    BY <1>2
  <2>3. Append(o, g) # <<>> /\ Tail(Append(o, g)) = Append(Tail(o), g) /\ Tail(o) \in Seq(Frame)
    <3> HIDE DEF o
    <3>1. Len(o) \in Nat \ {0}
      BY <2>2
    <3> QED
      BY <2>2, <3>1
  <2> HIDE DEF some
  <2> QED
    BY <2>1, <2>2, <2>3 DEF Unwritten, some
<1>5. JustWritten = {}
  BY <1>1 DEF JustWritten
<1> DEFINE u == Unwritten  m == commands  u2 == Unwritten'  m2 == commands'
<1>6. Drains(u, m, u2, m2) /\ Stays(u, m, u2, m2)
  <2>1. u \in Seq(Frame) /\ m \in Seq(Command) /\ m # <<>> /\ m2 = Tail(m) /\ Head(m) = Send(g) /\ u2 = Append(u, g)
    BY <1>1, <1>2, <1>3, <1>4
  <2> HIDE DEF u, m, u2, m2
  <2> QED
    BY <2>1, FrameMoves
<1> QED
  BY <1>5, <1>6 DEF Sends

\* Send starts the writer; its write may be over at once.
LEMMA SendStartsWriterSends ==
  ASSUME IInv, NEW c \in Writer, NEW result \in {"pending", "ok", "error"}, SendStartsWriter(c, result)
  PROVE  Sends
<1>1. /\ TakesCommand("Send") /\ ~writerRunning /\ connected /\ co[c] = Idle
      /\ outgoingFrames' = Append(outgoingFrames, Head(commands).frame)
      /\ commands' = Tail(commands)
      /\ co' = [co EXCEPT ![c] = Op("write", activeGeneration, socket, result, Head(outgoingFrames'))]
      /\ UNCHANGED <<connected, socket>>
  BY DEF SendStartsWriter, TakesCommand
<1>2. /\ outgoingFrames = <<>> /\ commands \in Seq(Command) /\ commands # <<>>
      /\ \A w \in Writer : co[w] = Idle
  BY <1>1, WriterFacts, TakenCommand
<1>3. PICK g \in Frame : Head(commands) = Send(g) /\ Head(commands).frame = g
  <2>1. Head(commands) \in Command /\ Head(commands).type = "Send"
    BY <1>1, <1>2 DEF TakesCommand
  <2> QED
    BY <2>1 DEF Command, Connect, Disconnect, Send
<1>4. outgoingFrames' = <<g>> /\ Head(outgoingFrames') = g
  <2>1. Append(<<>>, g) = <<g>> /\ Head(<<g>>) = g
    OBVIOUS
  <2> QED
    BY <1>1, <1>2, <1>3, <2>1
<1>5. PICK op : op = Op("write", activeGeneration, socket, result, g)
  OBVIOUS
<1>6. op.result = result /\ op.data = g /\ op # Idle
  <2>1. op.result = result /\ op.data = g
    BY <1>5, OpFacts
  <2> QED
    BY <2>1, IdleFacts
<1>7. co'[c] = op /\ \A w \in Writer : w # c => co'[w] = Idle
  <2>1. co \in [Coroutine -> OpType] /\ c \in Coroutine
    BY Kinds DEF IInv, TypeOK
  <2>2. co' = [co EXCEPT ![c] = op]
    BY <1>1, <1>4, <1>5
  <2> QED
    BY <1>2, <2>1, <2>2, Kinds
<1>8. /\ Unwritten = <<>>
      /\ Unwritten' = IF result = "ok" THEN <<>> ELSE <<g>>
      /\ JustWritten = IF result = "ok" THEN {c} ELSE {}
  <2>1. <<g>> # <<>> /\ Tail(<<g>>) = <<>>
    OBVIOUS
  <2>2. (\E w \in Writer : co'[w].result = "ok") <=> result = "ok"
    BY <1>6, <1>7, IdleFacts
  <2>3. Unwritten' = IF result = "ok" THEN <<>> ELSE <<g>>
    BY <1>4, <2>1, <2>2 DEF Unwritten
  <2>4. JustWritten = IF result = "ok" THEN {c} ELSE {}
    BY <1>2, <1>6, <1>7, IdleFacts DEF JustWritten
  <2> QED
    BY <1>2, <2>3, <2>4 DEF Unwritten
<1> DEFINE u == Unwritten  m == commands  u2 == Unwritten'  m2 == commands'
<1>9. m \in Seq(Command) /\ m # <<>> /\ m2 = Tail(m) /\ Head(m) = Send(g) /\ u = <<>>
  BY <1>1, <1>2, <1>3, <1>8
<1>10. CASE result = "ok"
  <2>1. u2 = u /\ JustWritten = {c} /\ co'[c].data = g
    BY <1>6, <1>7, <1>8, <1>10
  <2>2. Drains(u, m, u2, m2) /\ Loses(u, m, u2, m2, g)
    <3> HIDE DEF u, m, u2, m2
    <3> QED
      BY <1>9, <2>1, CommandGoes
  <2> QED
    BY <1>1, <2>1, <2>2 DEF Sends
<1>11. CASE result # "ok"
  <2>1. u2 = Append(u, g) /\ u \in Seq(Frame) /\ JustWritten = {}
    <3>1. Append(<<>>, g) = <<g>> /\ <<>> \in Seq(Frame)
      OBVIOUS
    <3> QED
      BY <1>8, <1>11, <3>1
  <2>2. Drains(u, m, u2, m2) /\ Stays(u, m, u2, m2)
    <3> HIDE DEF u, m, u2, m2
    <3> QED
      BY <1>9, <2>1, FrameMoves
  <2> QED
    BY <2>1, <2>2 DEF Sends
<1> QED
  BY <1>10, <1>11

\* The writer resumes: the frame it takes from the queue was written before.
LEMMA FrameWrittenSends ==
  ASSUME IInv, NEW c \in Coroutine, FrameWritten(c)
  PROVE  Sends
<1>1. /\ AtFront(c) /\ co[c].at = "write" /\ co[c].result = "ok" /\ outgoingFrames # <<>>
      /\ outgoingFrames' = Tail(outgoingFrames)
      /\ UNCHANGED <<commands, connected>>
      /\ \/ \E data : Await(c, "write", co[c].generation, data)
         \/ co' = Finished(c)
  BY DEF FrameWritten, Resumes
<1>2. /\ OpOf(c, co[c]) /\ c \in Writer /\ co[c] # Idle
      /\ co \in [Coroutine -> OpType]
  BY <1>1, FrontIsDone, KindOfStep DEF IInv, TypeOK
<1>3. \A w \in Writer : w # c => co[w] = Idle
  BY <1>1, <1>2, WriterFacts
<1>4. co'[c].result # "ok" /\ \A w \in Writer : w # c => co'[w] = co[w]
  <2>1. ASSUME NEW data, Await(c, "write", co[c].generation, data)
        PROVE  co'[c].result # "ok" /\ \A w \in Writer : w # c => co'[w] = co[w]
    BY <2>1, GoesOnAlone, Kinds
  <2>2. CASE co' = Finished(c)
    <3>1. co'[c] = Idle /\ \A w \in Coroutine : w # c => co'[w] = co[w]
      BY <1>2, <2>2 DEF Finished
    <3> QED
      BY <3>1, IdleFacts, Kinds
  <2> QED
    BY <1>1, <2>1, <2>2
<1>5. JustWritten = {}
  BY <1>4 DEF JustWritten
<1>6. Unwritten' = Unwritten
  <2>1. \A w \in Writer : co'[w].result # "ok"
    BY <1>3, <1>4, IdleFacts
  <2> QED
    BY <1>1, <1>2, <2>1 DEF Unwritten
<1> DEFINE u == Unwritten  m == commands
<1>7. Drains(u, m, u, m) /\ Stays(u, m, u, m)
  <2> HIDE DEF u, m
  <2> QED
    BY DrainsNothing
<1> QED
  BY <1>1, <1>5, <1>6, <1>7 DEF Sends

\* An operation is over; if it was a write, the first frame has reached the peer.
LEMMA CompletesSends ==
  ASSUME IInv, NEW c \in Coroutine, NEW result, NEW data, Completes(c, result, data)
  PROVE  Sends
<1>1. /\ co[c].result = "pending"
      /\ co' = [co EXCEPT ![c].result = result, ![c].data = IF c \in Reader THEN data ELSE @]
      /\ UNCHANGED <<commands, outgoingFrames, connected, socket>>
  BY DEF Completes, stateVars
<1>2. co \in [Coroutine -> OpType]
  BY DEF IInv, TypeOK
<1>3. \A d \in Coroutine : d # c => co'[d] = co[d]
  BY <1>1, <1>2
<1>4. CASE c \notin Writer
  <2>1. \A w \in Writer : co'[w] = co[w]
    BY <1>3, <1>4, Kinds
  <2> QED
    BY <1>1, <2>1, OthersSend
<1>5. CASE c \in Writer
  <2>1. co'[c].result = result /\ co'[c].data = co[c].data
    <3>1. c \notin Reader /\ co[c] \in OpType
      BY <1>2, <1>5, Kinds
    <3>2. co'[c] = [[co[c] EXCEPT !.result = result] EXCEPT !.data = co[c].data]
      BY <1>1, <1>2, <3>1 DEF OpType
    <3> QED
      BY <3>1, <3>2 DEF OpType
  <2>2. /\ connected /\ outgoingFrames # <<>> /\ outgoingFrames \in Seq(Frame)
        /\ co[c].data = Head(outgoingFrames)
        /\ \A w \in Writer : w # c => co[w] = Idle
    BY <1>1, <1>5, WriterFacts
  <2>3. \A w \in Writer : w # c => co'[w] = co[w]
    BY <1>3, Kinds
  <2>4. Unwritten = outgoingFrames
    <3>1. \A w \in Writer : co[w].result # "ok"
      BY <1>1, <2>2, IdleFacts
    <3> QED
      BY <3>1 DEF Unwritten
  <2> DEFINE u == Unwritten  m == commands  u2 == Unwritten'
  <2>5. CASE result = "ok"
    <3>1. u2 = Tail(u) /\ JustWritten = {c}
      <4>1. co'[c].result = "ok" /\ co'[c] # co[c]
        BY <1>1, <2>1, <2>5
      <4>2. Unwritten' = Tail(outgoingFrames)
        BY <1>1, <1>5, <2>2, <4>1 DEF Unwritten
      <4>3. JustWritten = {c}
        BY <1>5, <2>3, <4>1 DEF JustWritten
      <4> QED
        BY <2>4, <4>2, <4>3
    <3>2. Head(u) \in Frame /\ Head(u) = co'[c].data /\ u \in Seq(Frame) /\ u # <<>>
      BY <2>1, <2>2, <2>4
    <3>3. Drains(u, m, u2, m) /\ Loses(u, m, u2, m, Head(u))
      <4> HIDE DEF u, m, u2
      <4> QED
        BY <3>1, <3>2, FrameGoes
    <3> QED
      BY <1>1, <1>5, <2>2, <3>1, <3>2, <3>3 DEF Sends
  <2>6. CASE result # "ok"
    <3>1. \A w \in Writer : co'[w].result # "ok"
      BY <2>1, <2>2, <2>3, <2>6, IdleFacts
    <3>2. u2 = u /\ JustWritten = {}
      BY <1>1, <2>4, <3>1 DEF Unwritten, JustWritten
    <3>3. Drains(u, m, u2, m) /\ Stays(u, m, u2, m)
      <4> HIDE DEF u, m, u2
      <4> QED
        BY <3>2, DrainsNothing
    <3> QED
      BY <1>1, <3>2, <3>3 DEF Sends
  <2> QED
    BY <2>5, <2>6
<1> QED
  BY <1>4, <1>5

\* The steps of the coroutines that only move on.
LEMMA MovesSend ==
  ASSUME IInv, NEW c \in Coroutine, AtFront(c), co[c].at # "write", UNCHANGED <<commands, outgoingFrames>>,
         \A d \in Coroutine : d = c \/ d \in Reader \/ co'[d] = co[d]
  PROVE  Sends
<1>1. c \notin Writer
  BY FrontIsDone, Kinds DEF OpOf, Steps
<1>2. \A w \in Writer : co'[w] = co[w]
  BY <1>1, Kinds
<1> QED
  BY <1>2, OthersSend

\* closeConnection forgets the frames, and ends no write.
LEMMA ClosesSends ==
  ASSUME IInv, NEW h \in Handlers, NEW cs, NEW running \in BOOLEAN, NEW rf \in BOOLEAN,
         ready # <<>>, Head(ready) = h, running => writerRunning,
         cs = IF h = Run THEN co ELSE Finished(h),
         CloseConnection(rf, running, cs),
         UNCHANGED commands \/ (commands # <<>> /\ commands' = Tail(commands))
  PROVE  Sends
<1>1. ConnInv' /\ ~connectionActive'
  BY ClosedState
<1>2. ~connected' /\ outgoingFrames' = <<>>
  BY <1>1 DEF ConnInv, Quiet
<1>3. co' = [c \in Coroutine |->
               IF c = h THEN Idle
               ELSE IF connectionActive /\ co[c].result = "pending"
               THEN [co[c] EXCEPT !.result = "error"] ELSE co[c]]
  BY ClosedCoroutines
<1>4. co \in [Coroutine -> OpType]
  BY DEF IInv, TypeOK
<1>5. ASSUME NEW w \in Writer PROVE co'[w] = co[w] \/ co'[w].result # "ok"
  <2>1. w \in Coroutine /\ co[w] \in OpType
    BY <1>4, Kinds
  <2>2. [co[w] EXCEPT !.result = "error"].result = "error"
    BY <2>1 DEF OpType
  <2> QED
    BY <1>3, <2>1, <2>2, IdleFacts
<1> QED
  BY <1>2, <1>5, ClosingSends

\* A coroutine that gives the connection up.
LEMMA EndingsSend ==
  ASSUME IInv, NEW c \in Coroutine, AtFront(c), NEW rf \in BOOLEAN, Closes(c, rf)
  PROVE  Sends
<1>1. PICK running \in BOOLEAN : running = (writerRunning /\ c \notin Writer)
  OBVIOUS
<1>2. CloseConnection(rf, running, Finished(c)) /\ UNCHANGED commands
  BY <1>1 DEF Closes
<1>3. c \in Handlers /\ c # Run /\ ready # <<>> /\ Head(ready) = c
  BY FrontIsDone, Kinds DEF Handlers
<1>4. PICK cs : cs = Finished(c)
  OBVIOUS
<1> QED
  BY <1>1, <1>2, <1>3, <1>4, ClosesSends

\* Undefined behaviour changes nothing else.
LEMMA CorruptsSends ==
  ASSUME IInv, Corrupts PROVE Sends
<1>1. UNCHANGED <<co, commands, outgoingFrames>>
  BY DEF Corrupts, stateVars
<1> QED
  BY <1>1, OthersSend

\* Every step of a coroutine.
LEMMA CoroutineSends ==
  ASSUME IInv, NEW c \in Coroutine, CoroutineStep(c)
  PROVE  Sends
<1>0. co \in [Coroutine -> OpType]
  BY DEF IInv, TypeOK
<1>1. ASSUME \/ HandshakeFails(c) \/ HandshakeCannotStart(c)
             \/ ReaderFails(c) \/ ReaderReachesEnd(c) \/ WriterFails(c)
      PROVE  Sends
  <2>1. PICK rf \in BOOLEAN : AtFront(c) /\ Closes(c, rf)
    BY <1>1 DEF HandshakeFails, HandshakeCannotStart, ReaderFails, ReaderReachesEnd, WriterFails, Resumes
  <2> QED
    BY <2>1, EndingsSend
<1>2. CASE TimeoutOfNoConfig(c) \/ PopsNothing(c)
  BY <1>2, CorruptsSends DEF TimeoutOfNoConfig, PopsNothing
<1>3. CASE CancelsTimer(c)
  <2>1. AtFront(c) /\ Timed(co[c].at) /\ UNCHANGED <<commands, outgoingFrames>> /\ co' = [co EXCEPT ![c].timerDone = TRUE]
    BY <1>3 DEF CancelsTimer, stateVars
  <2>2. co[c].at # "write" /\ \A d \in Coroutine : d = c \/ d \in Reader \/ co'[d] = co[d]
    BY <1>0, <2>1 DEF Timed
  <2> QED
    BY <2>1, <2>2, MovesSend
<1>4. CASE HandshakeStarts(c) \/ HelloWritten(c) \/ HelloHeaderRead(c) \/ LengthRead(c)
  <2>1. PICK at : GoesOn(c, at) /\ AtFront(c) /\ co[c].at # "write"
    BY <1>4 DEF HandshakeStarts, HelloWritten, HelloHeaderRead, LengthRead, Resumes
  <2>2. Await(c, at, co[c].generation, None) /\ UNCHANGED <<commands, outgoingFrames>>
    BY <2>1 DEF GoesOn
  <2>3. \A d \in Coroutine : d # c => co'[d] = co[d]
    BY <2>2, GoesOnAlone
  <2> QED
    BY <2>1, <2>2, <2>3, MovesSend
<1>5. CASE FrameRead(c)
  <2>1. /\ AtFront(c) /\ co[c].at # "write" /\ UNCHANGED <<commands, outgoingFrames>>
        /\ Await(c, "length", co[c].generation, None) \/ co' = Finished(c)
    BY <1>5 DEF FrameRead, Resumes
  <2>2. \A d \in Coroutine : d # c => co'[d] = co[d]
    <3>1. CASE Await(c, "length", co[c].generation, None)
      BY <3>1, GoesOnAlone
    <3>2. CASE co' = Finished(c)
      BY <1>0, <3>2 DEF Finished
    <3> QED
      BY <2>1, <3>1, <3>2
  <2> QED
    BY <2>1, <2>2, MovesSend
<1>6. CASE HandshakeEnds(c)
  <2>1. AtFront(c) /\ co[c].at = "hello payload"
    BY <1>6 DEF HandshakeEnds, Resumes
  <2>2. CASE Closes(c, TRUE)
    BY <2>1, <2>2, EndingsSend
  <2>3. CASE ~Closes(c, TRUE)
    <3>1. PICK g : g = co[c].generation
      OBVIOUS
    <3>2. PICK r : r = <<"reader", g>>
      OBVIOUS
    <3>3. /\ UNCHANGED <<commands, outgoingFrames>>
          /\ \/ co' = Finished(c)
             \/ co' = [Finished(c) EXCEPT ![r] = Op("length", g, socket, "pending", None)]
      BY <1>6, <2>3, <3>1, <3>2 DEF HandshakeEnds
    <3>4. r \in Reader
      <4>1. OpOf(c, co[c]) /\ c \in Connection
        BY <2>1, FrontIsDone, KindOfStep
      <4> QED
        BY <3>1, <3>2, <4>1, Kinds DEF OpOf
    <3>5. \A d \in Coroutine : d = c \/ d \in Reader \/ co'[d] = co[d]
      BY <1>0, <3>3, <3>4 DEF Finished
    <3> QED
      BY <2>1, <3>3, <3>5, MovesSend
  <2> QED
    BY <2>2, <2>3
<1> QED
  BY <1>1, <1>2, <1>3, <1>4, <1>5, <1>6, FrameWrittenSends DEF CoroutineStep

\* Every command.
LEMMA CommandsSend ==
  ASSUME IInv, HandleCommand
  PROVE  Sends
<1>0. co \in [Coroutine -> OpType]
  BY DEF IInv, TypeOK
<1>1. ASSUME NEW type, TakesCommand(type), type # "Send" \/ ~connected,
             UNCHANGED outgoingFrames, \A w \in Writer : co'[w] = co[w]
      PROVE  Sends
  <2>1. commands # <<>> /\ commands' = Tail(commands) /\ Head(commands).type = type
    BY <1>1, TakenCommand DEF TakesCommand
  <2>2. ~connected \/ \A f : Head(commands) # Send(f)
    BY <1>1, <2>1 DEF Send
  <2> QED
    BY <1>1, <2>1, <2>2, OthersSend
<1>2. CASE ConnectIgnored
  BY <1>1, <1>2 DEF ConnectIgnored, stateVars
<1>3. ASSUME NEW result \in {"pending", "ok", "error"}, ConnectStarts(result) PROVE Sends
  <2>1. PICK g, c, op : /\ g = generationCounter + 1 /\ c = <<"connection", g>>
                        /\ op = Op("connect", g, g, result, None)
    OBVIOUS
  <2>2. TakesCommand("Connect") /\ UNCHANGED outgoingFrames /\ co' = [co EXCEPT ![c] = op] /\ g <= MaxGeneration
    BY <1>3, <2>1 DEF ConnectStarts
  <2>3. c \in Connection
    <3>1. g \in Generation
      BY <2>1, <2>2, BoundsAssumption DEF IInv, TypeOK, Generation
    <3> QED
      BY <2>1, <3>1, Kinds
  <2>4. \A w \in Writer : co'[w] = co[w]
    BY <1>0, <2>2, <2>3, Kinds
  <2> QED
    BY <1>1, <2>2, <2>4
<1>4. CASE ConnectThrows
  BY <1>1, <1>4 DEF ConnectThrows
<1>5. CASE HandleDisconnect
  <2>1. PICK running \in BOOLEAN : running = writerRunning
    BY DEF IInv, TypeOK
  <2>2. PICK cs : cs = co
    OBVIOUS
  <2>3. PICK h : h = Run
    OBVIOUS
  <2>4. /\ TakesCommand("Disconnect") /\ CloseConnection(FALSE, running, cs)
        /\ commands' = Tail(commands)
    BY <1>5, <2>1, <2>2 DEF HandleDisconnect, TakesCommand
  <2>5. ready # <<>> /\ Head(ready) = h /\ h \in Handlers /\ commands # <<>>
    BY <2>3, <2>4, TakenCommand DEF Handlers
  <2> QED
    BY <2>1, <2>2, <2>3, <2>4, <2>5, ClosesSends
<1>6. CASE SendDropped
  <2>1. ~connected
    BY <1>6, WriterFacts DEF SendDropped
  <2> QED
    BY <1>1, <1>6, <2>1 DEF SendDropped, stateVars
<1> QED
  BY <1>2, <1>3, <1>4, <1>5, <1>6, SendQueuedSends, SendStartsWriterSends DEF HandleCommand

\* Every step of the worker.
LEMMA WorkerSends ==
  ASSUME IInv, WorkerStep PROVE Sends
  BY CommandsSend, CoroutineSends DEF WorkerStep

\* Whatever ends.
LEMMA OperationSends ==
  ASSUME IInv, NEW c \in Coroutine, NEW result, OperationEnds(c, result) PROVE Sends
  BY CompletesSends DEF OperationEnds

\* The frame that arrives is none of those written.
LEMMA ArrivalSends ==
  ASSUME IInv, NEW c \in Coroutine, NEW m \in Inbound, FrameArrives(c, m)
  PROVE  Sends /\ JustWritten = {}
<1>1. Completes(c, "ok", m) /\ c \in Reader
  BY DEF FrameArrives
<1>2. \A w \in Writer : co'[w] = co[w]
  <2>1. co' = [co EXCEPT ![c].result = "ok", ![c].data = IF c \in Reader THEN m ELSE @]
    BY <1>1 DEF Completes
  <2> QED
    BY <1>1, <2>1, Kinds DEF IInv, TypeOK
<1>3. JustWritten = {}
  BY <1>2 DEF JustWritten
<1> QED
  BY <1>1, <1>3, CompletesSends

-----------------------------------------------------------------------------
(***************************************************************************)
(* The invariant of IoProofs under each kind of step, for the modules Io   *)
(* is a part of.                                                           *)
(***************************************************************************)
\* The worker's steps are steps of Io, ...
LEMMA WorkerKeeps ==
  ASSUME IInv, WorkerStep PROVE IInv'
  BY NextKeeps DEF Next

\* ... and so are the ends of operations ...
LEMMA OperationKeeps ==
  ASSUME IInv, NEW c \in Coroutine, NEW result, OperationEnds(c, result) PROVE IInv'
<1>1. Completes(c, result, None) /\ None \in Inbound \cup {None}
  BY DEF OperationEnds
<1>2. UNCHANGED dispatcher
  BY <1>1 DEF Completes, stateVars
<1> QED
  BY <1>1, <1>2, CompletesKeeps

\* ... and the arrivals.
LEMMA ArrivalKeeps ==
  ASSUME IInv, NEW c \in Coroutine, NEW m \in Inbound, FrameArrives(c, m) PROVE IInv'
<1>1. Completes(c, "ok", m) /\ m \in Inbound \cup {None}
  BY DEF FrameArrives
<1>2. UNCHANGED dispatcher
  BY <1>1 DEF Completes, stateVars
<1> QED
  BY <1>1, <1>2, CompletesKeeps

-----------------------------------------------------------------------------
(***************************************************************************)
(* What a step does to an attempt at a connection: what becomes of the     *)
(* commands that may start and end it, and of the read loops that have     *)
(* come to the end of a stream and will close, without a word, whatever    *)
(* connection there is by then.                                            *)
(***************************************************************************)
\* Those read loops, and the ones among them that run, with its command, goes before.
HungUp == {c \in Coroutine : co[c].result = "eof"}
RunFirst(q, c) == \E i, j \in DOMAIN q : i < j /\ q[i] = Run /\ q[j] = c
Overtaken == {c \in HungUp : RunFirst(ready, c)}

\* Who waits for the next length is the reader of a usable connection.
LengthInv == \A c \in Coroutine : co[c].at = "length" /\ co[c].result = "pending" => connected

\* Something about the connection itself is on its way to the fcitx thread.
News(d) == \E i \in DOMAIN d : d[i].type # "Inbound"

SameLink == (connected <=> connected') /\ (connectionActive <=> connectionActive')

\* A step that takes no command leaves the connection alone, makes it usable,
\* says that it has ended, or is that of one of the read loops.
Leaves ==
  /\ UNCHANGED commands
  /\ connected \/ (HungUp' \subseteq HungUp /\ Overtaken' \subseteq Overtaken)
  /\ \/ SameLink
     \/ connected'
     \/ ~connected' /\ News(dispatcher')
     \/ ~connected /\ ~connected' /\ \E c \in HungUp : ~RunFirst(ready, c)

\* A step that takes one does what the command is for, and no read loop is
\* overtaken by run any more.
Takes ==
  /\ commands # <<>> /\ commands' = Tail(commands)
  /\ HungUp' \subseteq Overtaken /\ Overtaken' = {}
  /\ \/ Head(commands) \notin {Connect, Disconnect} /\ SameLink
     \/ Head(commands) = Connect /\ connectionActive /\ SameLink
     \/ Head(commands) = Connect /\ ~connected' /\ (connectionActive' \/ News(dispatcher'))
     \/ Head(commands) = Disconnect /\ ~connected'

Proceeds == LengthInv' /\ (Leaves \/ Takes)

\* What Append adds to those run goes before.
LEMMA AppendedOrder ==
  ASSUME NEW q \in Seq(Handlers), NEW x \in Handlers, NEW c, RunFirst(Append(q, x), c), c # x
  PROVE  RunFirst(q, c)
<1> DEFINE q2 == Append(q, x)
<1>1. /\ Len(q) \in Nat /\ DOMAIN q = 1..Len(q) /\ DOMAIN q2 = 1..Len(q) + 1
      /\ q2[Len(q) + 1] = x /\ \A i \in 1..Len(q) : q2[i] = q[i]
  OBVIOUS
<1> HIDE DEF q2
<1>2. PICK i, j \in 1..Len(q) + 1 : i < j /\ q2[i] = Run /\ q2[j] = c
  BY <1>1 DEF RunFirst, q2
<1>3. j # Len(q) + 1
  BY <1>1, <1>2
<1>4. i \in 1..Len(q) /\ j \in 1..Len(q)
  BY <1>1, <1>2, <1>3
<1> QED
  BY <1>1, <1>2, <1>4 DEF RunFirst

\* What a step of the worker does.
LEMMA SteppedOrder ==
  ASSUME NEW q \in Seq(Handlers), q # <<>>, NEW t \in Seq(Handlers), NEW c,
         RunFirst(Tail(q) \o t, c), c \notin Range(t)
  PROVE  RunFirst(q, c)
<1> DEFINE q2 == Tail(q) \o t  n == Len(q)  k == Len(t)
<1>1. /\ n \in Nat \ {0} /\ k \in Nat /\ DOMAIN q = 1..n /\ DOMAIN t = 1..k
      /\ Tail(q) \in Seq(Handlers) /\ Len(Tail(q)) = n - 1 /\ \A i \in 1..n-1 : Tail(q)[i] = q[i + 1]
  OBVIOUS
<1>2. /\ DOMAIN q2 = 1..(n - 1 + k)
      /\ \A i \in 1..n-1 : q2[i] = q[i + 1]
      /\ \A i \in 1..k : q2[n - 1 + i] = t[i]
  BY <1>1
<1> HIDE DEF q2, n, k
<1>3. PICK i, j \in 1..(n - 1 + k) : i < j /\ q2[i] = Run /\ q2[j] = c
  BY <1>2 DEF RunFirst, q2
<1>4. j \in 1..n-1
  <2> SUFFICES ASSUME j \notin 1..n-1 PROVE FALSE
    OBVIOUS
  <2>1. j - (n - 1) \in 1..k /\ n - 1 + (j - (n - 1)) = j
    BY <1>1, <1>3
  <2>2. t[j - (n - 1)] = c
    BY <1>2, <1>3, <2>1
  <2> QED
    BY <1>1, <2>1, <2>2 DEF Range
<1>5. i \in 1..n-1 /\ i + 1 \in 1..n /\ j + 1 \in 1..n /\ i + 1 < j + 1
  BY <1>1, <1>3, <1>4
<1>6. q[i + 1] = Run /\ q[j + 1] = c
  BY <1>2, <1>3, <1>4, <1>5
<1> QED
  BY <1>1, <1>5, <1>6 DEF RunFirst

\* run goes before all the others when it is at the front, ...
LEMMA RunAtFront ==
  ASSUME NEW q \in Seq(Handlers), q # <<>>, Head(q) = Run, NEW c \in Range(q), c # Run
  PROVE  RunFirst(q, c)
<1>1. Len(q) \in Nat \ {0} /\ DOMAIN q = 1..Len(q) /\ q[1] = Run
  OBVIOUS
<1>2. PICK j \in 1..Len(q) : q[j] = c
  BY <1>1 DEF Range
<1>3. 1 \in 1..Len(q) /\ 1 < j
  BY <1>1, <1>2
<1> QED
  BY <1>1, <1>2, <1>3 DEF RunFirst

\* ... before no one when another handler that is queued once is there, ...
LEMMA NotAtFront ==
  ASSUME NEW q \in Seq(Handlers), q # <<>>, IsInjective(q), NEW c, c = Head(q)
  PROVE  ~RunFirst(q, c)
<1>1. Len(q) \in Nat \ {0} /\ DOMAIN q = 1..Len(q) /\ q[1] = c /\ 1 \in 1..Len(q)
  OBVIOUS
<1> SUFFICES ASSUME NEW i \in 1..Len(q), NEW j \in 1..Len(q), i < j, q[j] = c PROVE FALSE
  BY <1>1 DEF RunFirst
<1>2. j = 1
  BY <1>1 DEF IsInjective
<1> QED
  BY <1>1, <1>2

\* ... and before no one when it has run, and queued itself again.
LEMMA RunHasRun ==
  ASSUME NEW q \in Seq(Handlers), q # <<>>, IsInjective(q), Head(q) = Run,
         NEW s \in Seq(Handlers), Run \notin Range(s), NEW more \in {<<>>, <<Run>>}, NEW c
  PROVE  ~RunFirst(Tail(q) \o (s \o more), c)
<1>0. more \in Seq(Handlers) /\ Len(more) \in {0, 1}
  BY RunOrNone
<1> DEFINE q2 == Tail(q) \o (s \o more)  n == Len(q)  k == Len(s)  l == Len(more)
<1>1. /\ n \in Nat \ {0} /\ k \in Nat /\ l \in {0, 1}
      /\ DOMAIN q = 1..n /\ DOMAIN s = 1..k /\ q[1] = Run
      /\ Tail(q) \in Seq(Handlers) /\ Len(Tail(q)) = n - 1 /\ \A i \in 1..n-1 : Tail(q)[i] = q[i + 1]
  BY <1>0
<1>2. /\ s \o more \in Seq(Handlers) /\ Len(s \o more) = k + l
      /\ \A i \in 1..k : (s \o more)[i] = s[i]
  BY <1>0
<1> DEFINE r == s \o more
<1>3. /\ DOMAIN q2 = 1..(n - 1 + (k + l))
      /\ \A i \in 1..n-1 : q2[i] = q[i + 1]
      /\ \A i \in 1..k + l : q2[n - 1 + i] = r[i]
  BY <1>1, <1>2
<1>4. \A i \in 1..k : r[i] # Run
  BY <1>1, <1>2 DEF Range
<1> HIDE DEF q2, n, k, l, r
<1> SUFFICES ASSUME NEW i \in 1..(n - 1 + (k + l)), NEW j \in 1..(n - 1 + (k + l)), i < j, q2[i] = Run
             PROVE  FALSE
  BY <1>3 DEF RunFirst, q2
<1>5. i \notin 1..n-1
  <2> SUFFICES ASSUME i \in 1..n-1 PROVE FALSE
    OBVIOUS
  <2>1. i + 1 \in 1..n /\ 1 \in 1..n /\ i + 1 # 1
    BY <1>1
  <2>2. q[i + 1] = q[1]
    BY <1>1, <1>3
  <2> QED
    BY <1>1, <2>1, <2>2 DEF IsInjective
<1>6. i - (n - 1) \in 1..k
  BY <1>1, <1>5
<1>7. i - (n - 1) \in 1..k + l /\ n - 1 + (i - (n - 1)) = i
  BY <1>1, <1>6
<1>8. r[i - (n - 1)] = Run
  BY <1>3, <1>7
<1> QED
  BY <1>4, <1>6, <1>8

\* No read loop comes to its end, or is overtaken, by a step of the worker that
\* takes no command: those it queues have failed or go on.
LEMMA NoneHangsUp ==
  ASSUME IInv, ready # <<>>, NEW t \in Seq(Handlers), ready' = Tail(ready) \o t,
         \A c \in Coroutine : co'[c].result = "eof" => co[c].result = "eof" /\ c \notin Range(t)
  PROVE  HungUp' \subseteq HungUp /\ Overtaken' \subseteq Overtaken
<1>1. ready \in Seq(Handlers)
  BY DEF IInv, TypeOK, Handlers
<1>2. HungUp' \subseteq HungUp /\ \A c \in HungUp' : c \notin Range(t)
  BY DEF HungUp
<1> DEFINE q == ready  q2 == ready'
<1>3. ASSUME NEW c, RunFirst(q2, c), c \notin Range(t) PROVE RunFirst(q, c)
  <2>1. q \in Seq(Handlers) /\ q # <<>> /\ q2 = Tail(q) \o t
    BY <1>1
  <2> HIDE DEF q, q2
  <2> QED
    BY <1>3, <2>1, SteppedOrder
<1> QED
  BY <1>2, <1>3 DEF Overtaken

\* A coroutine that moves on its own, over a connection that stays as it is or becomes usable.
LEMMA MoveProceeds ==
  ASSUME IInv, LengthInv, NEW c \in Coroutine, AtFront(c),
         NEW t \in {<<>>, <<c>>}, ready' = Tail(ready) \o t,
         \A d \in Coroutine : d = c \/ co'[d].result # "eof" \/ co'[d] = co[d],
         co'[c].result # "eof",
         \A d \in Coroutine : co'[d].at = "length" /\ co'[d].result = "pending" => connected' \/ co'[d] = co[d],
         UNCHANGED <<commands, connectionActive>>, connected' \/ UNCHANGED connected
  PROVE  Proceeds
<1>1. ready # <<>>
  BY FrontIsDone
<1>2. t \in Seq(Handlers) /\ Range(t) \subseteq {c}
  <2>1. <<>> \in Seq(Handlers) /\ Range(<<>>) = {} /\ <<c>> \in Seq(Handlers) /\ Range(<<c>>) = {c}
    BY DEF Handlers, Range
  <2> QED
    BY <2>1
<1>3. \A d \in Coroutine : co'[d].result = "eof" => co[d].result = "eof" /\ d \notin Range(t)
  BY <1>2
<1>4. HungUp' \subseteq HungUp /\ Overtaken' \subseteq Overtaken
  BY <1>1, <1>2, <1>3, NoneHangsUp
<1>5. LengthInv'
  BY DEF LengthInv
<1> QED
  BY <1>4, <1>5 DEF Proceeds, Leaves, SameLink

\* Nobody waits on a connection that is closed.
LEMMA ClosedLength ==
  ASSUME IInv', ~connectionActive'
  PROVE  LengthInv'
<1>1. socket' = 0
  BY DEF IInv, ConnInv, Quiet
<1>2. \A c \in Coroutine : co'[c].result # "pending"
  BY <1>1 DEF IInv, PendingOnSocket
<1> QED
  BY <1>2 DEF LengthInv

\* One event more.
LEMMA AppendedNews ==
  ASSUME NEW d \in Seq(EventType), NEW e \in EventType, e.type # "Inbound"
  PROVE  News(Append(d, e))
<1>1. Len(d) + 1 \in DOMAIN Append(d, e) /\ Append(d, e)[Len(d) + 1] = e
  OBVIOUS
<1> QED
  BY <1>1 DEF News

\* How closing leaves the connection and the read loops: it tells of it, unless
\* there is no usable connection and no failure to tell of.
LEMMA ClosingProceeds ==
  ASSUME IInv, IInv', NEW h \in Handlers, NEW cs, NEW running \in BOOLEAN, NEW rf \in BOOLEAN,
         ready # <<>>, Head(ready) = h, running => writerRunning,
         cs = IF h = Run THEN co ELSE Finished(h),
         CloseConnection(rf, running, cs)
  PROVE  /\ LengthInv' /\ ~connected' /\ ~connectionActive'
         /\ (connectionActive /\ rf) \/ connected => News(dispatcher')
         /\ \A c \in Coroutine : co'[c].result = "eof" => co[c].result = "eof" /\ c # h
<1>1. ~connectionActive' /\ ~connected'
  BY ClosedState, ClosingTells
<1>2. LengthInv'
  BY <1>1, ClosedLength
<1>3. (connectionActive /\ rf) \/ connected => News(dispatcher')
  <2> SUFFICES ASSUME (connectionActive /\ rf) \/ connected PROVE News(dispatcher')
    OBVIOUS
  <2>1. connectionActive /\ activeGeneration \in Generation /\ dispatcher \in Seq(EventType)
    BY DEF IInv, ConnInv, Quiet, Current, TypeOK, Generation
  <2>2. PICK e : e = Event(IF rf THEN "Failed" ELSE "Closed", activeGeneration, None)
    OBVIOUS
  <2>3. e \in EventType /\ e.type # "Inbound"
    BY <2>1, <2>2 DEF Event, EventType
  <2>4. dispatcher' = Append(dispatcher, e)
    BY <2>1, <2>2, ClosedState
  <2> DEFINE d == dispatcher
  <2>5. News(Append(d, e))
    <3>1. d \in Seq(EventType)
      BY <2>1
    <3> HIDE DEF d
    <3> QED
      BY <2>3, <3>1, AppendedNews
  <2> QED
    BY <2>4, <2>5
<1>4. co' = [c \in Coroutine |->
               IF c = h THEN Idle
               ELSE IF connectionActive /\ co[c].result = "pending"
               THEN [co[c] EXCEPT !.result = "error"] ELSE co[c]]
  BY ClosedCoroutines
<1>5. ASSUME NEW c \in Coroutine, co'[c].result = "eof" PROVE co[c].result = "eof" /\ c # h
  <2>1. co[c] \in OpType
    BY DEF IInv, TypeOK
  <2>2. [co[c] EXCEPT !.result = "error"].result = "error"
    BY <2>1 DEF OpType
  <2> QED
    BY <1>4, <1>5, <2>2, IdleFacts
<1> QED
  BY <1>1, <1>2, <1>3, <1>5

\* A coroutine that gives the connection up.
LEMMA EndingsProceed ==
  ASSUME IInv, IInv', NEW c \in Coroutine, AtFront(c), NEW rf \in BOOLEAN, Closes(c, rf),
         rf \/ co[c].result = "eof"
  PROVE  Proceeds
<1>1. PICK running \in BOOLEAN : running = (writerRunning /\ c \notin Writer)
  OBVIOUS
<1>2. PICK aborted \in Aborted(running) : ready' = Tail(ready) \o aborted
  BY <1>1 DEF Closes
<1>3. PICK cs : cs = Finished(c)
  OBVIOUS
<1>4. CloseConnection(rf, running, cs) /\ UNCHANGED commands
  BY <1>1, <1>3 DEF Closes
<1>5. c \in Handlers /\ c # Run /\ ready # <<>> /\ Head(ready) = c
  BY FrontIsDone, Kinds DEF Handlers
<1>6. /\ LengthInv' /\ ~connected' /\ ~connectionActive'
      /\ (connectionActive /\ rf) \/ connected => News(dispatcher')
      /\ \A d \in Coroutine : co'[d].result = "eof" => co[d].result = "eof" /\ d # c
  BY <1>1, <1>3, <1>4, <1>5, ClosingProceeds
<1>7. aborted \in Seq(Handlers) /\ Range(aborted) \subseteq Pending
  BY AbortedQueue DEF Handlers
<1>8. HungUp' \subseteq HungUp /\ Overtaken' \subseteq Overtaken
  <2>1. \A d \in Coroutine : co'[d].result = "eof" => co[d].result = "eof" /\ d \notin Range(aborted)
    BY <1>6, <1>7 DEF Pending
  <2> QED
    BY <1>2, <1>5, <1>7, <2>1, NoneHangsUp
<1>9. ~RunFirst(ready, c)
  <2>1. ready \in Seq(Handlers) /\ IsInjective(ready)
    BY DEF IInv, TypeOK, ReadyInv, Handlers
  <2> QED
    BY <1>5, <2>1, NotAtFront
<1>10. \/ SameLink
       \/ ~connected' /\ News(dispatcher')
       \/ ~connected /\ ~connected' /\ \E d \in HungUp : ~RunFirst(ready, d)
  <2>1. CASE connected \/ (connectionActive /\ rf)
    BY <1>6, <2>1
  <2>2. CASE ~connected /\ ~rf
    <3>1. c \in HungUp
      BY <2>2 DEF HungUp
    <3> QED
      BY <1>6, <1>9, <2>2, <3>1
  <2>3. CASE ~connected /\ ~connectionActive
    BY <1>6, <2>3 DEF SameLink
  <2> QED
    BY <2>1, <2>2, <2>3
<1> QED
  BY <1>4, <1>6, <1>8, <1>10 DEF Proceeds, Leaves

\* A coroutine of a connection goes on to a step other than "length".
LEMMA GoesOnProceeds ==
  ASSUME IInv, LengthInv, NEW c \in Coroutine, AtFront(c), NEW at, NEW data,
         Await(c, at, co[c].generation, data),
         at # "length" \/ connected, UNCHANGED <<commands, connected, connectionActive>>
  PROVE  Proceeds
<1>1. /\ \A d \in Coroutine : d # c => co'[d] = co[d]
      /\ \E t \in {<<>>, <<c>>} : ready' = Tail(ready) \o t
  BY GoesOnAlone
<1>2. PICK result \in {"error", "pending"} :
        co' = [co EXCEPT ![c] = Op(at, co[c].generation, socket, result, data)]
  BY DEF Await
<1>3. co'[c].at = at /\ co'[c].result # "eof"
  <2>1. co'[c] = Op(at, co[c].generation, socket, result, data)
    BY <1>2 DEF IInv, TypeOK
  <2> QED
    BY <2>1, OpFacts
<1>4. PICK t \in {<<>>, <<c>>} : ready' = Tail(ready) \o t
  BY <1>1
<1>5. \A d \in Coroutine : co'[d].at = "length" /\ co'[d].result = "pending" => connected' \/ co'[d] = co[d]
  BY <1>1, <1>3
<1> QED
  BY <1>1, <1>3, <1>4, <1>5, MoveProceeds

\* A coroutine that returns and closes nothing.
LEMMA ReturnProceeds ==
  ASSUME IInv, LengthInv, NEW c \in Coroutine, AtFront(c), co' = Finished(c), ready' = Tail(ready),
         UNCHANGED <<commands, connected, connectionActive>>
  PROVE  Proceeds
<1>1. ready \in Seq(Handlers) /\ co \in [Coroutine -> OpType] /\ ready # <<>>
  BY FrontIsDone DEF IInv, TypeOK, Handlers
<1>2. PICK t \in {<<>>, <<c>>} : t = <<>>
  OBVIOUS
<1>3. ready' = Tail(ready) \o t
  <2>1. Tail(ready) \in Seq(Handlers)
    BY <1>1
  <2> QED
    BY <1>2, <2>1, ConcatEmptySeq
<1>4. co'[c] = Idle /\ \A d \in Coroutine : d # c => co'[d] = co[d]
  BY <1>1 DEF Finished
<1>5. co'[c].result # "eof" /\ co'[c].at # "length"
  BY <1>4, IdleFacts
<1>6. \A d \in Coroutine : co'[d].at = "length" /\ co'[d].result = "pending" => connected' \/ co'[d] = co[d]
  BY <1>4, <1>5
<1> QED
  BY <1>3, <1>4, <1>5, <1>6, MoveProceeds

\* Undefined behaviour changes nothing else.
LEMMA CorruptsProceeds ==
  ASSUME LengthInv, Corrupts PROVE Proceeds
<1>1. UNCHANGED <<co, ready, commands, connected, connectionActive>>
  BY DEF Corrupts, stateVars
<1>2. HungUp' = HungUp /\ Overtaken' = Overtaken /\ LengthInv'
  BY <1>1 DEF HungUp, Overtaken, RunFirst, LengthInv
<1> QED
  BY <1>1, <1>2 DEF Proceeds, Leaves, SameLink

\* The timer of an operation is cancelled, which is none that ends with a stream.
LEMMA CancelsTimerProceeds ==
  ASSUME IInv, LengthInv, NEW c \in Coroutine, CancelsTimer(c)
  PROVE  Proceeds
<1>1. /\ AtFront(c) /\ Timed(co[c].at)
      /\ co' = [co EXCEPT ![c].timerDone = TRUE]
      /\ ready' = Append(Tail(ready), c)
      /\ UNCHANGED <<commands, connected, connectionActive>>
  BY DEF CancelsTimer, stateVars
<1>2. OpOf(c, co[c]) /\ ready # <<>> /\ co \in [Coroutine -> OpType] /\ ready \in Seq(Handlers)
  BY <1>1, FrontIsDone DEF IInv, TypeOK, Handlers
<1>3. co[c].at # "length" /\ co[c].result # "eof"
  BY <1>1, <1>2 DEF Timed, OpOf, Results
<1>4. co'[c].at # "length" /\ co'[c].result # "eof" /\ \A d \in Coroutine : d # c => co'[d] = co[d]
  BY <1>1, <1>2, <1>3 DEF OpType
<1>5. PICK t \in {<<>>, <<c>>} : t = <<c>>
  OBVIOUS
<1>6. ready' = Tail(ready) \o t
  <2> DEFINE q == Tail(ready)
  <2>1. q \in Seq(Handlers) /\ c \in Handlers /\ ready' = Append(q, c)
    BY <1>1, <1>2 DEF Handlers
  <2> HIDE DEF q
  <2>2. Append(q, c) = q \o <<c>>
    BY <2>1, AppendIsConcat
  <2> QED
    BY <1>5, <2>1, <2>2 DEF q
<1>7. \A d \in Coroutine : co'[d].at = "length" /\ co'[d].result = "pending" => connected' \/ co'[d] = co[d]
  BY <1>4
<1> QED
  BY <1>1, <1>4, <1>6, <1>7, MoveProceeds

\* A frame is published; only the reader of the connection there is goes on to the next.
LEMMA FrameReadProceeds ==
  ASSUME IInv, LengthInv, NEW c \in Coroutine, FrameRead(c)
  PROVE  Proceeds
<1>1. /\ AtFront(c) /\ co[c].at = "frame"
      /\ UNCHANGED <<commands, connected, connectionActive>>
  BY DEF FrameRead, Resumes
<1>2. CASE ~(co[c].generation = activeGeneration /\ socket # 0)
  <2>1. co' = Finished(c) /\ ready' = Tail(ready)
    BY <1>2 DEF FrameRead
  <2> QED
    BY <1>1, <2>1, ReturnProceeds
<1>3. CASE co[c].generation = activeGeneration /\ socket # 0
  <2>1. Await(c, "length", co[c].generation, None)
    BY <1>3 DEF FrameRead
  <2>2. OpOf(c, co[c]) /\ c \in Reader /\ co[c] # Idle
    BY <1>1, FrontIsDone, KindOfStep
  <2>3. connectionActive /\ Current
    BY <1>3 DEF IInv, ConnInv, Quiet
  <2>4. c = NewestReader
    BY <1>3, <2>2, <2>3, Kinds DEF OpOf, NewestReader, Current
  <2>5. connected
    BY <2>2, <2>3, <2>4 DEF Current
  <2> QED
    BY <1>1, <2>1, <2>5, GoesOnProceeds
<1> QED
  BY <1>2, <1>3

\* The first frame is written.
LEMMA FrameWrittenProceeds ==
  ASSUME IInv, LengthInv, NEW c \in Coroutine, FrameWritten(c)
  PROVE  Proceeds
<1>1. AtFront(c) /\ UNCHANGED <<commands, connected, connectionActive>>
  BY DEF FrameWritten, Resumes
<1>2. CASE co' = Finished(c) /\ ready' = Tail(ready)
  BY <1>1, <1>2, ReturnProceeds
<1>3. CASE ~(co' = Finished(c) /\ ready' = Tail(ready))
  <2>1. PICK at, data : at = "write" /\ data = Head(outgoingFrames')
    OBVIOUS
  <2>2. at # "length"
    BY <2>1
  <2>3. Await(c, at, co[c].generation, data)
    BY <1>3, <2>1 DEF FrameWritten
  <2> QED
    BY <1>1, <2>2, <2>3, GoesOnProceeds
<1> QED
  BY <1>2, <1>3

\* ServerHello is in.
LEMMA HandshakeEndsProceeds ==
  ASSUME IInv, IInv', LengthInv, NEW c \in Coroutine, HandshakeEnds(c)
  PROVE  Proceeds
<1>1. PICK g, r : g = co[c].generation /\ r = <<"reader", g>>
  OBVIOUS
<1>2. AtFront(c) /\ co[c].at = "hello payload"
  BY DEF HandshakeEnds, Resumes
<1>3. /\ OpOf(c, co[c]) /\ ready # <<>> /\ ready \in Seq(Handlers) /\ co \in [Coroutine -> OpType]
  BY <1>2, FrontIsDone DEF IInv, TypeOK, Handlers
<1>4. CASE Closes(c, TRUE)
  BY <1>2, <1>4, EndingsProceed
<1>5. CASE ~Closes(c, TRUE)
  <2>1. ready' = Tail(ready) /\ UNCHANGED <<commands, connectionActive>>
    BY <1>5 DEF HandshakeEnds
  <2>2. CASE co' = Finished(c) /\ UNCHANGED connected
    BY <1>2, <2>1, <2>2, ReturnProceeds
  <2>3. CASE ~(co' = Finished(c) /\ UNCHANGED connected)
    <3>1. PICK op : op = Op("length", g, socket, "pending", None)
      OBVIOUS
    <3>2. connected' = TRUE /\ co' = [Finished(c) EXCEPT ![r] = op]
      BY <1>1, <1>5, <2>3, <3>1 DEF HandshakeEnds
    <3>3. op.result # "eof"
      BY <3>1, OpFacts
    <3>4. \A d \in Coroutine : co'[d] = op \/ co'[d] = Idle \/ (d # c /\ co'[d] = co[d])
      BY <1>3, <3>2 DEF Finished
    <3>5. \A d \in Coroutine : d = c \/ co'[d].result # "eof" \/ co'[d] = co[d]
      BY <3>3, <3>4, IdleFacts
    <3>6. co'[c].result # "eof"
      BY <3>3, <3>4, IdleFacts
    <3>7. PICK t \in {<<>>, <<c>>} : t = <<>>
      OBVIOUS
    <3>8. ready' = Tail(ready) \o t
      <4>1. Tail(ready) \in Seq(Handlers)
        BY <1>3
      <4> QED
        BY <2>1, <3>7, <4>1, ConcatEmptySeq
    <3> QED
      BY <1>2, <2>1, <3>2, <3>5, <3>6, <3>8, MoveProceeds
  <2> QED
    BY <2>2, <2>3
<1> QED
  BY <1>4, <1>5

\* Every step of a coroutine.
LEMMA CoroutineProceeds ==
  ASSUME IInv, IInv', LengthInv, NEW c \in Coroutine, CoroutineStep(c)
  PROVE  Proceeds
<1>1. ASSUME HandshakeFails(c) \/ HandshakeCannotStart(c) \/ ReaderFails(c) \/ WriterFails(c)
      PROVE  Proceeds
  <2>1. AtFront(c) /\ Closes(c, TRUE)
    BY <1>1 DEF HandshakeFails, HandshakeCannotStart, ReaderFails, WriterFails, Resumes
  <2> QED
    BY <2>1, EndingsProceed
<1>2. CASE ReaderReachesEnd(c)
  <2>1. AtFront(c) /\ Closes(c, FALSE) /\ co[c].result = "eof"
    BY <1>2 DEF ReaderReachesEnd, Resumes
  <2> QED
    BY <2>1, EndingsProceed
<1>3. CASE HandshakeStarts(c) \/ HelloWritten(c) \/ HelloHeaderRead(c) \/ LengthRead(c)
  <2>1. PICK at : GoesOn(c, at) /\ AtFront(c) /\ at # "length"
    BY <1>3 DEF HandshakeStarts, HelloWritten, HelloHeaderRead, LengthRead, Resumes
  <2>2. Await(c, at, co[c].generation, None) /\ UNCHANGED <<commands, connected, connectionActive>>
    BY <2>1 DEF GoesOn
  <2> QED
    BY <2>1, <2>2, GoesOnProceeds
<1>4. CASE TimeoutOfNoConfig(c) \/ PopsNothing(c)
  BY <1>4, CorruptsProceeds DEF TimeoutOfNoConfig, PopsNothing
<1> QED
  BY <1>1, <1>2, <1>3, <1>4, CancelsTimerProceeds, FrameReadProceeds, FrameWrittenProceeds,
     HandshakeEndsProceeds DEF CoroutineStep

\* No read loop is at its end after a command that was not before, and run, which
\* is behind all others if it is queued, goes before none.
LEMMA CommandOvertakes ==
  ASSUME IInv, NEW type, TakesCommand(type),
         NEW s \in Seq(Handlers), Run \notin Range(s), ready' = Tail(ready) \o (s \o RunAgain),
         \A c \in Coroutine : co'[c].result = "eof" => co[c].result = "eof"
  PROVE  HungUp' \subseteq Overtaken /\ Overtaken' = {}
<1>1. ready # <<>> /\ Head(ready) = Run /\ RunAgain \in {<<>>, <<Run>>}
  BY TakenCommand
<1>2. ready \in Seq(Handlers) /\ IsInjective(ready)
  BY DEF IInv, TypeOK, ReadyInv, Handlers
<1>3. ASSUME NEW c \in HungUp' PROVE c \in Overtaken
  <2>1. c \in Coroutine /\ co[c].result = "eof"
    BY DEF HungUp
  <2>2. c \in Range(ready) /\ c # Run
    BY <2>1, Kinds DEF IInv, ReadyInv, Done
  <2> QED
    BY <1>1, <1>2, <2>1, <2>2, RunAtFront DEF HungUp, Overtaken
<1> DEFINE q == ready  q2 == ready'
<1>4. PICK more \in {<<>>, <<Run>>} : more = RunAgain
  BY <1>1
<1>5. ASSUME NEW c PROVE ~RunFirst(q2, c)
  <2>1. q \in Seq(Handlers) /\ q # <<>> /\ IsInjective(q) /\ Head(q) = Run /\ q2 = Tail(q) \o (s \o more)
    BY <1>1, <1>2, <1>4
  <2> HIDE DEF q, q2
  <2> QED
    BY <2>1, RunHasRun
<1> QED
  BY <1>3, <1>5 DEF Overtaken

\* A command that leaves the read loops alone and closes nothing.
LEMMA CommandProceeds ==
  ASSUME IInv, LengthInv, NEW type, TakesCommand(type),
         NEW s \in Seq(Handlers), Run \notin Range(s), ready' = Tail(ready) \o (s \o RunAgain),
         \A c \in Coroutine : co'[c] = co[c] \/ (co'[c].result # "eof" /\ co'[c].at # "length"),
         UNCHANGED connected,
         \/ type = "Send" /\ UNCHANGED connectionActive
         \/ type = "Connect" /\ connectionActive /\ UNCHANGED connectionActive
         \/ type = "Connect" /\ ~connected /\ (connectionActive' \/ News(dispatcher'))
  PROVE  Proceeds
<1>1. commands # <<>> /\ commands' = Tail(commands) /\ Head(commands).type = type
  BY TakenCommand DEF TakesCommand
<1>2. Head(commands) \in Command
  BY <1>1 DEF IInv, TypeOK
<1>3. /\ type = "Send" => Head(commands) \notin {Connect, Disconnect}
      /\ type = "Connect" => Head(commands) = Connect
  BY <1>1, <1>2 DEF Command, Connect, Disconnect, Send
<1>4. HungUp' \subseteq Overtaken /\ Overtaken' = {}
  BY CommandOvertakes
<1>5. LengthInv'
  BY DEF LengthInv
<1> QED
  BY <1>1, <1>3, <1>4, <1>5 DEF Proceeds, Takes, SameLink

\* The commands that start no coroutine.
LEMMA PlainCommandsProceed ==
  ASSUME IInv, LengthInv, ConnectIgnored \/ SendDropped \/ SendQueued \/ ConnectThrows
  PROVE  Proceeds
<1>1. PICK type : /\ TakesCommand(type) /\ ready' = Tail(ready) \o RunAgain /\ UNCHANGED <<co, connected>>
                  /\ \/ type = "Send" /\ UNCHANGED connectionActive
                     \/ type = "Connect" /\ connectionActive /\ UNCHANGED connectionActive
                     \/ type = "Connect" /\ ConnectThrows
  BY DEF ConnectIgnored, Free, SendDropped, SendQueued, ConnectThrows, stateVars
<1>2. ConnectThrows => ~connected /\ News(dispatcher')
  <2> SUFFICES ASSUME ConnectThrows PROVE ~connected /\ News(dispatcher')
    OBVIOUS
  <2>1. ~connected
    BY DEF ConnectThrows, Free, IInv, ConnInv, Quiet
  <2>2. /\ dispatcher' = Append(dispatcher, Event("Failed", generationCounter', None))
        /\ generationCounter' = generationCounter + 1 /\ generationCounter < MaxGeneration
    BY DEF ConnectThrows
  <2>3. generationCounter' \in Generation
    BY <2>2, BoundsAssumption DEF IInv, TypeOK, Generation
  <2>4. PICK e : e = Event("Failed", generationCounter', None)
    OBVIOUS
  <2>5. e \in EventType /\ e.type # "Inbound"
    BY <2>3, <2>4 DEF Event, EventType
  <2> DEFINE d == dispatcher
  <2>6. News(Append(d, e))
    <3>1. d \in Seq(EventType)
      BY DEF IInv, TypeOK
    <3> HIDE DEF d
    <3> QED
      BY <2>5, <3>1, AppendedNews
  <2> QED
    BY <2>1, <2>2, <2>4, <2>6
<1>3. PICK s \in Seq(Handlers) : s = <<>>
  <2>1. <<>> \in Seq(Handlers)
    OBVIOUS
  <2> QED
    BY <2>1
<1>4. Run \notin Range(s) /\ ready' = Tail(ready) \o (s \o RunAgain)
  <2>1. RunAgain \in Seq(Handlers)
    BY <1>1, TakenCommand, RunOrNone
  <2>2. s \o RunAgain = RunAgain
    BY <1>3, <2>1, ConcatEmptySeq
  <2> QED
    BY <1>1, <1>3, <2>2 DEF Range
<1> QED
  BY <1>1, <1>2, <1>4, CommandProceeds

\* Those that start one, which is no read loop.
LEMMA StartsProceed ==
  ASSUME IInv, LengthInv, NEW c \in Coroutine, NEW result, NEW op, NEW type,
         TakesCommand(type), co' = [co EXCEPT ![c] = op], op.result # "eof", op.at # "length",
         ready' = Tail(ready) \o ((IF result = "pending" THEN <<>> ELSE <<c>>) \o RunAgain),
         UNCHANGED connected,
         \/ type = "Send" /\ UNCHANGED connectionActive
         \/ type = "Connect" /\ ~connected /\ connectionActive'
  PROVE  Proceeds
<1>1. c \in Handlers /\ c # Run /\ co \in [Coroutine -> OpType]
  BY Kinds DEF IInv, TypeOK, Handlers
<1>2. \A d \in Coroutine : co'[d] = co[d] \/ (co'[d].result # "eof" /\ co'[d].at # "length")
  BY <1>1
<1> DEFINE s == IF result = "pending" THEN <<>> ELSE <<c>>
<1>3. s \in Seq(Handlers) /\ Range(s) \subseteq {c}
  <2>1. <<>> \in Seq(Handlers) /\ Range(<<>>) = {} /\ <<c>> \in Seq(Handlers) /\ Range(<<c>>) = {c}
    BY <1>1 DEF Range
  <2> QED
    BY <2>1
<1>4. ready' = Tail(ready) \o (s \o RunAgain)
  OBVIOUS
<1> HIDE DEF s
<1>5. Run \notin Range(s)
  BY <1>1, <1>3
<1> QED
  BY <1>2, <1>3, <1>4, <1>5, CommandProceeds

\* Every command.
LEMMA CommandsProceed ==
  ASSUME IInv, IInv', LengthInv, HandleCommand
  PROVE  Proceeds
<1>1. ASSUME NEW result \in {"pending", "ok", "error"}, ConnectStarts(result) PROVE Proceeds
  <2>1. PICK g, c, op : /\ g = generationCounter + 1 /\ c = <<"connection", g>>
                        /\ op = Op("connect", g, g, result, None)
    OBVIOUS
  <2>2. /\ TakesCommand("Connect") /\ ~connectionActive /\ g <= MaxGeneration
        /\ co' = [co EXCEPT ![c] = op]
        /\ ready' = Tail(ready) \o ((IF result = "pending" THEN <<>> ELSE <<c>>) \o RunAgain)
        /\ UNCHANGED connected /\ connectionActive'
    BY <1>1, <2>1 DEF ConnectStarts, Free
  <2>3. ~connected
    BY <2>2 DEF IInv, ConnInv, Quiet
  <2>4. c \in Coroutine
    <3>1. g \in Generation
      BY <2>1, <2>2, BoundsAssumption DEF IInv, TypeOK, Generation
    <3> QED
      BY <2>1, <3>1, Kinds
  <2>5. op.result # "eof" /\ op.at # "length"
    BY <2>1, OpFacts
  <2> QED
    BY <2>2, <2>3, <2>4, <2>5, StartsProceed
<1>2. ASSUME NEW c \in Writer, NEW result \in {"pending", "ok", "error"}, SendStartsWriter(c, result)
      PROVE  Proceeds
  <2>1. PICK op : op = Op("write", activeGeneration, socket, result, Head(outgoingFrames'))
    OBVIOUS
  <2>2. /\ TakesCommand("Send")
        /\ co' = [co EXCEPT ![c] = op]
        /\ ready' = Tail(ready) \o ((IF result = "pending" THEN <<>> ELSE <<c>>) \o RunAgain)
        /\ UNCHANGED <<connected, connectionActive>>
    BY <1>2, <2>1 DEF SendStartsWriter
  <2>3. op.result # "eof" /\ op.at # "length" /\ c \in Coroutine
    BY <2>1, OpFacts, Kinds
  <2> QED
    BY <2>2, <2>3, StartsProceed
<1>3. CASE HandleDisconnect
  <2>1. PICK aborted \in Aborted(writerRunning) : ready' = Tail(ready) \o (aborted \o RunAgain)
    BY <1>3 DEF HandleDisconnect
  <2>2. TakesCommand("Disconnect")
    BY <1>3 DEF HandleDisconnect
  <2>3. ready # <<>> /\ Head(ready) = Run /\ Run \in Handlers /\ commands # <<>> /\ commands' = Tail(commands)
    BY <2>2, TakenCommand DEF Handlers, TakesCommand
  <2>4. PICK running \in BOOLEAN : running = writerRunning
    BY DEF IInv, TypeOK
  <2>5. PICK cs : cs = co
    OBVIOUS
  <2>6. PICK h : h = Run
    OBVIOUS
  <2>7. CloseConnection(FALSE, running, cs)
    BY <1>3, <2>4, <2>5 DEF HandleDisconnect
  <2>8. /\ LengthInv' /\ ~connected'
        /\ \A c \in Coroutine : co'[c].result = "eof" => co[c].result = "eof"
    BY <2>3, <2>4, <2>5, <2>6, <2>7, ClosingProceeds
  <2>9. aborted \in Seq(Handlers) /\ Run \notin Range(aborted)
    <3>1. aborted \in Seq(Handlers) /\ Range(aborted) \subseteq Coroutine
      BY AbortedQueue DEF Handlers, Pending
    <3> QED
      BY <3>1, Kinds
  <2>10. HungUp' \subseteq Overtaken /\ Overtaken' = {}
    BY <2>1, <2>2, <2>8, <2>9, CommandOvertakes
  <2>11. Head(commands) = Disconnect
    <3>1. Head(commands) \in Command /\ Head(commands).type = "Disconnect"
      BY <2>2, <2>3 DEF IInv, TypeOK, TakesCommand
    <3> QED
      BY <3>1 DEF Command, Connect, Disconnect, Send
  <2> QED
    BY <2>3, <2>8, <2>10, <2>11 DEF Proceeds, Takes
<1> QED
  BY <1>1, <1>2, <1>3, PlainCommandsProceed DEF HandleCommand

\* Every step of the worker.
LEMMA WorkerProceeds ==
  ASSUME IInv, LengthInv, WorkerStep PROVE Proceeds
<1>1. IInv'
  BY WorkerKeeps
<1> QED
  BY <1>1, CommandsProceed, CoroutineProceeds DEF WorkerStep

\* An operation is over; it is the end of the stream only for the reader of a
\* usable connection.
LEMMA CompletesProceeds ==
  ASSUME IInv, LengthInv, NEW c \in Coroutine, NEW result, NEW data, Completes(c, result, data)
  PROVE  Proceeds
<1>1. /\ co[c].result = "pending" /\ result \in Results(co[c].at)
      /\ co' = [co EXCEPT ![c].result = result, ![c].data = IF c \in Reader THEN data ELSE @]
      /\ ready' = Append(ready, c)
      /\ UNCHANGED <<commands, connected, connectionActive>>
  BY DEF Completes, stateVars
<1>2. co \in [Coroutine -> OpType] /\ ready \in Seq(Handlers) /\ c \in Handlers
  BY DEF IInv, TypeOK, Handlers
<1>3. \A d \in Coroutine : d # c => co'[d] = co[d]
  BY <1>1, <1>2
<1>4. co'[c].result = result /\ result # "pending"
  <2>1. co[c] \in OpType
    BY <1>2
  <2>2. PICK x : co'[c] = [[co[c] EXCEPT !.result = result] EXCEPT !.data = x]
    BY <1>1, <1>2
  <2> QED
    BY <1>1, <2>1, <2>2 DEF OpType, Results
<1>5. LengthInv'
  BY <1>1, <1>3, <1>4 DEF LengthInv
<1>6. connected \/ result # "eof"
  BY <1>1 DEF Results, LengthInv
<1> DEFINE q == ready  q2 == ready'
<1>7. ASSUME NEW d, RunFirst(q2, d), d # c PROVE RunFirst(q, d)
  <2>1. q \in Seq(Handlers) /\ q2 = Append(q, c)
    BY <1>1, <1>2
  <2> HIDE DEF q, q2
  <2> QED
    BY <1>2, <1>7, <2>1, AppendedOrder
<1>8. result # "eof" => HungUp' \subseteq HungUp /\ \A d \in HungUp' : d # c
  BY <1>3, <1>4 DEF HungUp
<1>9. result # "eof" => Overtaken' \subseteq Overtaken
  BY <1>7, <1>8 DEF Overtaken
<1> QED
  BY <1>1, <1>5, <1>6, <1>8, <1>9 DEF Proceeds, Leaves, SameLink

\* Whatever ends, and whatever arrives.
LEMMA PeerProceeds ==
  ASSUME IInv, LengthInv, NEW c \in Coroutine
  PROVE  /\ \A result : OperationEnds(c, result) => Proceeds
         /\ \A m : FrameArrives(c, m) => Proceeds
  BY CompletesProceeds DEF OperationEnds, FrameArrives
=============================================================================
