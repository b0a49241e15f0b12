--------------------------- MODULE AttemptProofs ---------------------------
(***************************************************************************)
(* An engine that waits for a connection waits for something: property     *)
(* ConnectingHasAttempt of module Scribe, for any capacities and bounds,   *)
(* any contexts and any sessions.                                          *)
(*                                                                         *)
(* The engine is out of step with the transport while commands and         *)
(* callbacks are under way, so the invariant is about what the two queues  *)
(* will still do: a connection the engine has given up is let go of by a   *)
(* command that is queued, no command ends what a later one does not seek  *)
(* again, and a read loop that is about to close, without a word, whatever *)
(* connection there is has done so before the command for the next is      *)
(* carried out.                                                            *)
(***************************************************************************)
EXTENDS ScribeProofs

-----------------------------------------------------------------------------
(***************************************************************************)
(* The invariant.                                                          *)
(***************************************************************************)
Has(q, x) == \E i \in DOMAIN q : q[i] = x
Authenticated(d) == \E i \in DOMAIN d : d[i].type = "Authenticated"

\* Every Disconnect among the commands is followed by a Connect.
Reopens(m) ==
  \A i \in DOMAIN m : m[i] = Q!Disconnect => \E j \in DOMAIN m : i < j /\ m[j] = Q!Connect

\* What the transport has to do with the engine's attempts.
Link == [commands |-> commands, dispatcher |-> dispatcher, up |-> connected,
         active |-> connectionActive, hung |-> Q!HungUp, over |-> Q!Overtaken]
IsLink(k) ==
  /\ k.commands \in Seq(Q!Command) /\ k.dispatcher \in Seq(Q!EventType)
  /\ k.up \in BOOLEAN /\ k.active \in BOOLEAN

\* A connection the engine does not know of will end, or the engine will be
\* told of it, which makes it end it.
LetGo(k) == k.up => Has(k.commands, Q!Disconnect) \/ Authenticated(k.dispatcher)

\* While there is a connection, news of an end is news of an earlier one.
Welcomes(d) ==
  \A i \in DOMAIN d : Terminal(d[i]) => \E j \in DOMAIN d : i < j /\ d[j].type = "Authenticated"
Welcomed(k) == k.up => Welcomes(k.dispatcher)

\* News, a Connect or an attempt is under way, and read loops about to close
\* what there is then (hung), those after run among them (over), leave a Connect.
Awaited(k) ==
  /\ Q!News(k.dispatcher) \/ Has(k.commands, Q!Connect) \/ (k.active /\ ~k.up)
  /\ (~k.up /\ ~Q!News(k.dispatcher)) =>
       /\ k.hung # {} => Has(k.commands, Q!Connect)
       /\ k.over # {} => Has(Tail(k.commands), Q!Connect)
Sought(k) == Reopens(k.commands) /\ Awaited(k)

\* The engine takes the connection for ended, or will; and it waits for a new one.
Unlinked == ~overrun /\ (connectionState # "Ready" \/ Failing(followUps))
Waiting ==
  /\ ~overrun /\ connectionState = "Connecting"
  /\ ~Has(effects, E!Connect) /\ ~Failing(followUps)

EffectInv ==
  /\ Has(effects, E!Connect) => connectionState = "Connecting"
  /\ Has(effects, E!Disconnect) => connectionState # "Connecting"

AttemptInv ==
  /\ Q!LengthInv
  /\ Welcomed(Link)
  /\ EffectInv
  /\ Unlinked => LetGo(Link) \/ Has(effects, E!Disconnect)
  /\ Waiting => Sought(Link)

-----------------------------------------------------------------------------
(***************************************************************************)
(* The queues.                                                             *)
(***************************************************************************)
\* The first command is taken.
LEMMA CommandTaken ==
  ASSUME NEW X, NEW m \in Seq(X), m # <<>>, NEW m2, m2 = Tail(m)
  PROVE  /\ \A x : Has(m, x) <=> Head(m) = x \/ Has(m2, x)
         /\ Reopens(m) => /\ Reopens(m2)
                          /\ Has(m, Q!Disconnect) => Has(m2, Q!Connect)
<1> DEFINE n == Len(m)
<1>1. /\ n \in Nat \ {0} /\ DOMAIN m = 1..n /\ DOMAIN m2 = 1..n-1 /\ 1 \in 1..n
      /\ Head(m) = m[1] /\ \A i \in 1..n-1 : m2[i] = m[i + 1]
  OBVIOUS
<1> HIDE DEF n
<1>2. \A i \in 1..n-1 : i + 1 \in 1..n
  BY <1>1
<1>3. \A i \in 1..n : i # 1 => i - 1 \in 1..n-1 /\ m[i] = m2[i - 1]
  <2> SUFFICES ASSUME NEW i \in 1..n, i # 1 PROVE i - 1 \in 1..n-1 /\ m[i] = m2[i - 1]
    OBVIOUS
  <2>1. i - 1 \in 1..n-1 /\ (i - 1) + 1 = i
    BY <1>1
  <2> QED
    BY <1>1, <2>1
<1>4. \A x : Has(m, x) <=> Head(m) = x \/ Has(m2, x)
  <2>1. ASSUME NEW i \in 1..n PROVE Head(m) = m[i] \/ Has(m2, m[i])
    BY <1>1, <1>3 DEF Has
  <2>2. ASSUME NEW i \in 1..n-1 PROVE Has(m, m2[i])
    BY <1>1, <1>2 DEF Has
  <2>3. Has(m, Head(m))
    BY <1>1 DEF Has
  <2> QED
    BY <1>1, <2>1, <2>2, <2>3 DEF Has
<1>5. Reopens(m) => Reopens(m2)
  <2> SUFFICES ASSUME Reopens(m), NEW i \in 1..n-1, m2[i] = Q!Disconnect
               PROVE  \E j \in 1..n-1 : i < j /\ m2[j] = Q!Connect
    BY <1>1 DEF Reopens
  <2>1. PICK k \in 1..n : i + 1 < k /\ m[k] = Q!Connect
    BY <1>1, <1>2 DEF Reopens
  <2>2. k # 1 /\ i < k - 1
    BY <1>1, <2>1
  <2> QED
    BY <1>3, <2>1, <2>2
<1>6. Reopens(m) /\ Has(m, Q!Disconnect) => Has(m2, Q!Connect)
  <2> SUFFICES ASSUME Reopens(m), NEW i \in 1..n, m[i] = Q!Disconnect PROVE Has(m2, Q!Connect)
    BY <1>1 DEF Has
  <2>1. PICK k \in 1..n : i < k /\ m[k] = Q!Connect
    BY <1>1 DEF Reopens
  <2>2. k # 1
    BY <1>1, <2>1
  <2> QED
    BY <1>1, <1>3, <2>1, <2>2 DEF Has
<1> QED
  BY <1>4, <1>5, <1>6

Adds(m, m2, y) == \E X : m \in Seq(X) /\ y \in X /\ m2 = Append(m, y)

\* One more is queued.
LEMMA CommandAdded ==
  ASSUME NEW m, NEW m2, NEW y, Adds(m, m2, y)
  PROVE  /\ \A x : Has(m2, x) <=> Has(m, x) \/ x = y
         /\ \A x : Has(Tail(m), x) => Has(Tail(m2), x)
         /\ m # <<>> => Has(Tail(m2), y)
         /\ y = Q!Connect \/ (Reopens(m) /\ y # Q!Disconnect) => Reopens(m2)
<1>0. PICK X : m \in Seq(X) /\ y \in X /\ m2 = Append(m, y)
  BY DEF Adds
<1> DEFINE n == Len(m)
<1>1. /\ n \in Nat /\ DOMAIN m = 1..n /\ DOMAIN m2 = 1..n+1
      /\ m2[n + 1] = y /\ \A i \in 1..n : m2[i] = m[i]
      /\ m2 # <<>> /\ m2 \in Seq(X) /\ n + 1 \in 1..n+1
  BY <1>0
<1>2. m # <<>> => Tail(m2) = Append(Tail(m), y) /\ Tail(m) \in Seq(X)
  BY <1>0
<1>3. m = <<>> => Tail(m) = <<>>
  OBVIOUS
<1> HIDE DEF n
<1>4. \A x : Has(m2, x) <=> Has(m, x) \/ x = y
  <2>1. \A i \in 1..n+1 : i \in 1..n \/ i = n + 1
    BY <1>1
  <2> QED
    BY <1>1, <2>1 DEF Has
<1>5. ASSUME NEW q \in Seq(X) PROVE \A x : Has(q, x) \/ x = y => Has(Append(q, y), x)
  <2>1. /\ DOMAIN q = 1..Len(q) /\ Len(q) \in Nat /\ DOMAIN Append(q, y) = 1..Len(q) + 1
        /\ Append(q, y)[Len(q) + 1] = y /\ \A i \in 1..Len(q) : Append(q, y)[i] = q[i]
    BY <1>0
  <2> QED
    BY <2>1 DEF Has
<1>6. ~\E x : Has(<<>>, x)
  BY DEF Has
<1>7. y = Q!Connect => Reopens(m2)
  <2> SUFFICES ASSUME y = Q!Connect, NEW i \in 1..n+1, m2[i] = Q!Disconnect
               PROVE  \E j \in 1..n+1 : i < j /\ m2[j] = Q!Connect
    BY <1>1 DEF Reopens
  <2>1. i # n + 1
    BY <1>1 DEF Q!Connect, Q!Disconnect
  <2>2. i < n + 1
    BY <1>1, <2>1
  <2> QED
    BY <1>1, <2>2
<1>8. Reopens(m) /\ y # Q!Disconnect => Reopens(m2)
  <2> SUFFICES ASSUME Reopens(m), y # Q!Disconnect, NEW i \in 1..n+1, m2[i] = Q!Disconnect
               PROVE  \E j \in 1..n+1 : i < j /\ m2[j] = Q!Connect
    BY <1>1 DEF Reopens
  <2>1. i \in 1..n
    BY <1>1
  <2>2. PICK j \in 1..n : i < j /\ m[j] = Q!Connect
    BY <1>1, <2>1 DEF Reopens
  <2> QED
    BY <1>1, <2>2
<1>9. (\A x : Has(Tail(m), x) => Has(Tail(m2), x)) /\ (m # <<>> => Has(Tail(m2), y))
  <2>1. CASE m = <<>>
    BY <1>3, <1>6, <2>1
  <2>2. CASE m # <<>>
    BY <1>2, <1>5, <2>2
  <2> QED
    BY <2>1, <2>2
<1> QED
  BY <1>4, <1>7, <1>8, <1>9

\* A callback is queued.
LEMMA CallbackAdded ==
  ASSUME NEW X, NEW d \in Seq(X), NEW e \in X, NEW d2, d2 = Append(d, e)
  PROVE  /\ Q!News(d) \/ e.type # "Inbound" => Q!News(d2)
         /\ Authenticated(d) \/ e.type = "Authenticated" => Authenticated(d2)
         /\ (~Terminal(e) /\ Welcomes(d)) \/ e.type = "Authenticated" => Welcomes(d2)
<1> DEFINE n == Len(d)
<1>1. /\ n \in Nat /\ DOMAIN d = 1..n /\ DOMAIN d2 = 1..n+1 /\ n + 1 \in 1..n+1
      /\ d2[n + 1] = e /\ \A i \in 1..n : d2[i] = d[i] /\ i \in 1..n+1
  OBVIOUS
<1> HIDE DEF n
<1>2. Q!News(d) \/ e.type # "Inbound" => Q!News(d2)
  BY <1>1 DEF Q!News
<1>3. Authenticated(d) \/ e.type = "Authenticated" => Authenticated(d2)
  BY <1>1 DEF Authenticated
<1>4. \A i \in 1..n+1 : Terminal(d2[i]) => i \in 1..n \/ Terminal(e)
  BY <1>1
<1>5. ~Terminal(e) /\ Welcomes(d) => Welcomes(d2)
  <2> SUFFICES ASSUME ~Terminal(e), Welcomes(d), NEW i \in 1..n+1, Terminal(d2[i])
               PROVE  \E j \in 1..n+1 : i < j /\ d2[j].type = "Authenticated"
    BY <1>1 DEF Welcomes
  <2>1. i \in 1..n
    BY <1>4
  <2>2. PICK j \in 1..n : i < j /\ d[j].type = "Authenticated"
    BY <1>1, <2>1 DEF Welcomes
  <2> QED
    BY <1>1, <2>2
<1>6. e.type = "Authenticated" => Welcomes(d2)
  <2> SUFFICES ASSUME e.type = "Authenticated", NEW i \in 1..n+1, Terminal(d2[i])
               PROVE  \E j \in 1..n+1 : i < j /\ d2[j].type = "Authenticated"
    BY <1>1 DEF Welcomes
  <2>1. i \in 1..n
    BY <1>4 DEF Terminal
  <2>2. i < n + 1
    BY <1>1, <2>1
  <2> QED
    BY <1>1, <2>2
<1> QED
  BY <1>2, <1>3, <1>5, <1>6

Takes(d, d2, e) == (\E X : d \in Seq(X)) /\ d # <<>> /\ d2 = Tail(d) /\ e = Head(d)

\* The oldest callback is run.
LEMMA CallbackRun ==
  ASSUME NEW d, NEW d2, NEW e, Takes(d, d2, e)
  PROVE  /\ Q!News(d2) => Q!News(d)
         /\ Q!News(d) => Q!News(d2) \/ e.type # "Inbound"
         /\ Authenticated(d) => Authenticated(d2) \/ e.type = "Authenticated"
         /\ Welcomes(d) => Welcomes(d2)
         /\ Welcomes(d) /\ Terminal(e) => Authenticated(d2)
<1>0. PICK X : d \in Seq(X) /\ d # <<>> /\ d2 = Tail(d) /\ e = Head(d)
  BY DEF Takes
<1> DEFINE n == Len(d)
<1>1. /\ n \in Nat \ {0} /\ DOMAIN d = 1..n /\ DOMAIN d2 = 1..n-1 /\ 1 \in 1..n
      /\ e = d[1] /\ \A i \in 1..n-1 : d2[i] = d[i + 1]
  BY <1>0
<1> HIDE DEF n
<1>2. \A i \in 1..n-1 : i + 1 \in 1..n
  BY <1>1
<1>3. \A i \in 1..n : i # 1 => i - 1 \in 1..n-1 /\ d[i] = d2[i - 1]
  <2> SUFFICES ASSUME NEW i \in 1..n, i # 1 PROVE i - 1 \in 1..n-1 /\ d[i] = d2[i - 1]
    OBVIOUS
  <2>1. i - 1 \in 1..n-1 /\ (i - 1) + 1 = i
    BY <1>1
  <2> QED
    BY <1>1, <2>1
<1>4. Q!News(d2) => Q!News(d)
  BY <1>1, <1>2 DEF Q!News
<1>5. Q!News(d) => Q!News(d2) \/ e.type # "Inbound"
  <2> SUFFICES ASSUME NEW i \in 1..n, d[i].type # "Inbound", e.type = "Inbound" PROVE Q!News(d2)
    BY <1>1 DEF Q!News
  <2>1. i # 1
    BY <1>1
  <2>2. i - 1 \in 1..n-1 /\ d2[i - 1].type # "Inbound"
    BY <1>3, <2>1
  <2> QED
    BY <1>1, <2>2 DEF Q!News
<1>6. Authenticated(d) => Authenticated(d2) \/ e.type = "Authenticated"
  <2> SUFFICES ASSUME NEW i \in 1..n, d[i].type = "Authenticated", e.type # "Authenticated"
               PROVE  Authenticated(d2)
    BY <1>1 DEF Authenticated
  <2>1. i # 1
    BY <1>1
  <2>2. i - 1 \in 1..n-1 /\ d2[i - 1].type = "Authenticated"
    BY <1>3, <2>1
  <2> QED
    BY <1>1, <2>2 DEF Authenticated
<1>7. ASSUME Welcomes(d), NEW i \in 1..n, Terminal(d[i])
      PROVE  \E j \in 1..n-1 : i < j + 1 /\ d2[j].type = "Authenticated"
  <2>1. PICK k \in 1..n : i < k /\ d[k].type = "Authenticated"
    BY <1>1, <1>7 DEF Welcomes
  <2>2. k # 1 /\ i < (k - 1) + 1
    BY <1>1, <2>1
  <2> QED
    BY <1>3, <2>1, <2>2
<1>8. Welcomes(d) => Welcomes(d2)
  <2> SUFFICES ASSUME Welcomes(d), NEW i \in 1..n-1, Terminal(d2[i])
               PROVE  \E j \in 1..n-1 : i < j /\ d2[j].type = "Authenticated"
    BY <1>1 DEF Welcomes
  <2>1. PICK j \in 1..n-1 : i + 1 < j + 1 /\ d2[j].type = "Authenticated"
    BY <1>1, <1>2, <1>7
  <2>2. i < j
    BY <1>1, <2>1
  <2> QED
    BY <2>1, <2>2
<1>9. Welcomes(d) /\ Terminal(e) => Authenticated(d2)
  BY <1>1, <1>7 DEF Authenticated
<1> QED
  BY <1>4, <1>5, <1>6, <1>8, <1>9

-----------------------------------------------------------------------------
(***************************************************************************)
(* The transport takes a step, told in its state before and after it.      *)
(***************************************************************************)
\* Q!Publishes: what the fcitx thread will hear of it, ...
Said(k, n) ==
  \/ n.dispatcher = k.dispatcher /\ (k.up <=> n.up)
  \/ \E e \in Q!EventType :
       /\ n.dispatcher = Append(k.dispatcher, e)
       /\ e.type = "Authenticated" => n.up
       /\ ~k.up /\ n.up => e.type = "Authenticated"
       /\ k.up /\ ~n.up => Terminal(e)
       /\ Terminal(e) => ~n.up

\* ... and Q!Proceeds: a step that takes no command, ...
SameUse(k, n) == (k.up <=> n.up) /\ (k.active <=> n.active)
Left(k, n) ==
  /\ n.commands = k.commands
  /\ k.up \/ (n.hung \subseteq k.hung /\ n.over \subseteq k.over)
  /\ \/ SameUse(k, n)
     \/ n.up
     \/ ~n.up /\ Q!News(n.dispatcher)
     \/ ~k.up /\ ~n.up /\ k.hung # {}

\* ... and one that takes one.
Took(k, n) ==
  /\ k.commands # <<>> /\ n.commands = Tail(k.commands)
  /\ n.hung \subseteq k.over /\ n.over = {}
  /\ \/ Head(k.commands) \notin {Q!Connect, Q!Disconnect} /\ SameUse(k, n)
     \/ Head(k.commands) = Q!Connect /\ k.active /\ SameUse(k, n)
     \/ Head(k.commands) = Q!Connect /\ ~n.up /\ (n.active \/ Q!News(n.dispatcher))
     \/ Head(k.commands) = Q!Disconnect /\ ~n.up

Stepped(k, n) == IsLink(k) /\ IsLink(n) /\ Said(k, n) /\ (Left(k, n) \/ Took(k, n))

\* What is said of a step.
LEMMA SaidSo ==
  ASSUME NEW k, NEW n, Stepped(k, n)
  PROVE  /\ Q!News(k.dispatcher) => Q!News(n.dispatcher)
         /\ Authenticated(k.dispatcher) => Authenticated(n.dispatcher)
         /\ k.up /\ ~n.up => Q!News(n.dispatcher)
         /\ ~k.up /\ n.up => Authenticated(n.dispatcher)
         /\ Welcomed(k) => Welcomed(n)
<1> DEFINE d == k.dispatcher  d2 == n.dispatcher
<1>0. d \in Seq(Q!EventType)
  BY DEF Stepped, IsLink
<1>1. CASE d2 = d /\ (k.up <=> n.up)
  BY <1>1 DEF Welcomed
<1>2. ASSUME NEW e \in Q!EventType, d2 = Append(d, e),
             ~k.up /\ n.up => e.type = "Authenticated",
             k.up /\ ~n.up => Terminal(e),
             Terminal(e) => ~n.up
      PROVE  /\ Q!News(d) => Q!News(d2)
             /\ Authenticated(d) => Authenticated(d2)
             /\ k.up /\ ~n.up => Q!News(d2)
             /\ ~k.up /\ n.up => Authenticated(d2)
             /\ Welcomed(k) => Welcomed(n)
  <2>1. /\ Q!News(d) \/ e.type # "Inbound" => Q!News(d2)
        /\ Authenticated(d) \/ e.type = "Authenticated" => Authenticated(d2)
        /\ (~Terminal(e) /\ Welcomes(d)) \/ e.type = "Authenticated" => Welcomes(d2)
    <3> HIDE DEF d, d2
    <3> QED
      BY <1>0, <1>2, CallbackAdded
  <2>2. Terminal(e) => e.type # "Inbound"
    BY DEF Terminal
  <2> QED
    BY <1>2, <2>1, <2>2 DEF Welcomed
<1> QED
  BY <1>1, <1>2 DEF Stepped, Said

\* A connection that is to be let go of stays so.
LEMMA StaysFreed ==
  ASSUME NEW k, NEW n, Stepped(k, n), LetGo(k)
  PROVE  LetGo(n)
<1> DEFINE m == k.commands  m2 == n.commands
<1> SUFFICES ASSUME n.up, ~Authenticated(n.dispatcher) PROVE Has(m2, Q!Disconnect)
  BY DEF LetGo
<1>1. k.up /\ Has(m, Q!Disconnect)
  BY SaidSo DEF LetGo
<1>2. CASE m2 = m
  BY <1>1, <1>2
<1>3. CASE Took(k, n)
  <2>1. m # <<>> /\ m2 = Tail(m) /\ Head(m) # Q!Disconnect
    BY <1>3 DEF Took, Q!Connect, Q!Disconnect
  <2>2. m \in Seq(Q!Command)
    BY DEF Stepped, IsLink
  <2> HIDE DEF m, m2
  <2>3. \A x : Has(m, x) <=> Head(m) = x \/ Has(m2, x)
    BY <2>1, <2>2, CommandTaken
  <2> QED
    BY <1>1, <2>1, <2>3
<1> QED
  BY <1>2, <1>3 DEF Stepped, Left

\* So does an attempt that is under way or sought.
LEMMA StaysSought ==
  ASSUME NEW k, NEW n, Stepped(k, n), LetGo(k), Sought(k)
  PROVE  Sought(n)
<1> DEFINE N1 == Q!News(k.dispatcher)  N2 == Q!News(n.dispatcher)
           m == k.commands  m2 == n.commands
           C == Has(m, Q!Connect)  C2 == Has(m2, Q!Connect)
<1>1. /\ N1 => N2
      /\ k.up /\ ~n.up => N2
      /\ ~k.up /\ n.up => N2
      /\ Authenticated(k.dispatcher) => N2
  <2>1. Authenticated(n.dispatcher) => N2
    BY DEF Authenticated, Q!News
  <2> QED
    BY <2>1, SaidSo
<1>2. N1 \/ C \/ (k.active /\ ~k.up)
  BY DEF Sought, Awaited
<1>3. ~k.up /\ ~N1 => (k.hung # {} => C) /\ (k.over # {} => Has(Tail(m), Q!Connect))
  BY DEF Sought, Awaited
<1>4. m \in Seq(Q!Command) /\ Reopens(m)
  BY DEF Stepped, IsLink, Sought
<1>5. ASSUME Left(k, n) PROVE Sought(n)
  <2>1. m2 = m
    BY <1>5 DEF Left
  <2>2. N2 \/ C \/ (n.active /\ ~n.up)
    <3> HIDE DEF N1, N2, C
    <3>1. CASE ~k.up /\ ~n.up /\ k.hung # {}
      BY <1>1, <1>3, <3>1
    <3>2. CASE SameUse(k, n)
      BY <1>1, <1>2, <3>2 DEF SameUse
    <3>3. CASE n.up
      BY <1>1, <1>2, <3>3
    <3> QED
      BY <1>5, <3>1, <3>2, <3>3 DEF Left, N2
  <2>3. ASSUME ~n.up, ~N2 PROVE (n.hung # {} => C) /\ (n.over # {} => Has(Tail(m), Q!Connect))
    <3>1. ~k.up /\ ~N1
      BY <1>1, <2>3
    <3>2. n.hung \subseteq k.hung /\ n.over \subseteq k.over
      BY <1>5, <3>1 DEF Left
    <3> HIDE DEF N1, C
    <3> QED
      BY <1>3, <3>1, <3>2
  <2> QED
    BY <1>4, <2>1, <2>2, <2>3 DEF Sought, Awaited
<1>6. ASSUME Took(k, n) PROVE Sought(n)
  <2>1. m # <<>> /\ m2 = Tail(m)
    BY <1>6 DEF Took
  <2>2. /\ C => Head(m) = Q!Connect \/ C2
        /\ Has(m, Q!Disconnect) => C2
        /\ Head(m) = Q!Disconnect => Has(m, Q!Disconnect)
        /\ Reopens(m2)
    <3> HIDE DEF m, m2
    <3> QED
      BY <1>4, <2>1, CommandTaken
  <2>3. k.up => N2 \/ C2
    BY <1>1, <2>2 DEF LetGo
  <2>4. N2 \/ C2 \/ (n.active /\ ~n.up)
    <3> HIDE DEF N1, N2, C, C2, m, m2
    <3>1. CASE Head(m) \notin {Q!Connect, Q!Disconnect} /\ SameUse(k, n)
      BY <1>1, <1>2, <2>2, <3>1 DEF SameUse
    <3>2. CASE k.active /\ SameUse(k, n)
      BY <2>3, <3>2 DEF SameUse
    <3>3. CASE ~n.up /\ (n.active \/ N2)
      BY <3>3
    <3>4. CASE Head(m) = Q!Disconnect
      BY <2>2, <3>4
    <3> QED
      BY <1>6, <3>1, <3>2, <3>3, <3>4 DEF Took, N2, m
  <2>5. ASSUME ~n.up, ~N2 PROVE n.hung # {} => C2
    <3>1. ~k.up /\ ~N1
      BY <1>1, <2>5
    <3>2. n.hung \subseteq k.over
      BY <1>6 DEF Took
    <3>3. k.over # {} => C2
      BY <1>3, <2>1, <3>1
    <3> QED
      BY <3>2, <3>3
  <2>6. n.over = {}
    BY <1>6 DEF Took
  <2> QED
    BY <2>2, <2>4, <2>5, <2>6 DEF Sought, Awaited
<1> QED
  BY <1>5, <1>6 DEF Stepped

-----------------------------------------------------------------------------
(***************************************************************************)
(* The steps of the whole.                                                 *)
(***************************************************************************)
\* A state of the transport.
LEMMA LinkIs ==
  /\ PartsInv => IsLink(Link)
  /\ PartsInv' => IsLink(Link)'
<1>1. PartsInv => IsLink(Link)
  BY DEF PartsInv, Q!IInv, Q!TypeOK, Link, IsLink
<1>2. PartsInv' => IsLink(Link)'
  BY DEF PartsInv, Q!IInv, Q!TypeOK, Link, IsLink
<1> QED
  BY <1>1, <1>2

\* The worker's steps, and those of the server.
LEMMA TransportProceeds ==
  ASSUME PartsInv, Q!LengthInv, WorkerRuns \/ PeerActs
  PROVE  /\ Q!Proceeds
         /\ \/ UNCHANGED <<dispatcher, connected>>
            \/ Q!Publishes
         /\ UNCHANGED <<engineVars, followUps, overrun>>
<1>1. CASE WorkerRuns
  <2>1. Q!Publishes
    BY <1>1, TransportSteps DEF Transports, Q!Hears
  <2>2. Q!WorkerStep /\ UNCHANGED <<engineVars, followUps, overrun>>
    BY <1>1, SameWorker DEF WorkerRuns
  <2>3. Q!Proceeds
    BY <2>2, IoAssumptions, Q!WorkerProceeds DEF PartsInv
  <2> QED
    BY <2>1, <2>2, <2>3
<1>2. CASE PeerActs
  <2>1. PICK c \in T!Coroutine :
          \/ \E result \in {"ok", "eof", "error"} : OperationEnds(c, result)
          \/ ServerSends(c) /\ UNCHANGED <<engineVars, followUps, overrun>>
    BY <1>2 DEF PeerActs
  <2>2. c \in Q!Coroutine
    BY SameState
  <2>3. ASSUME NEW result \in {"ok", "eof", "error"}, OperationEnds(c, result)
        PROVE  Q!Proceeds /\ Q!Publishes /\ UNCHANGED <<engineVars, followUps, overrun>>
    <3>1. Q!Publishes
      BY <2>3, TransportSteps DEF Transports, Q!Hears
    <3>2. Q!OperationEnds(c, result) /\ UNCHANGED <<engineVars, followUps, overrun>>
      BY <2>3, SameCalls DEF OperationEnds
    <3>3. Q!Proceeds
      BY <2>2, <3>2, IoAssumptions, Q!PeerProceeds DEF PartsInv
    <3> QED
      BY <3>1, <3>2, <3>3
  <2>4. ASSUME ServerSends(c), UNCHANGED <<engineVars, followUps, overrun>>
        PROVE  Q!Proceeds /\ UNCHANGED <<dispatcher, connected>>
    <3>1. PICK m \in Inbound : T!FrameArrives(c, m)
      BY <2>4 DEF ServerSends
    <3>2. UNCHANGED <<dispatcher, connected>>
      BY <2>4, <3>1, ArrivalSteps DEF Arrives
    <3>3. Q!FrameArrives(c, m)
      BY <3>1, SameCalls
    <3>4. Q!Proceeds
      BY <2>2, <3>3, IoAssumptions, Q!PeerProceeds DEF PartsInv
    <3> QED
      BY <3>2, <3>4
  <2> QED
    BY <2>1, <2>3, <2>4
<1> QED
  BY <1>1, <1>2

\* They keep what is under way.
LEMMA TransportAttempts ==
  ASSUME PartsInv, PartsInv', AttemptInv, WorkerRuns \/ PeerActs
  PROVE  AttemptInv'
<1>1. /\ Q!Proceeds
      /\ UNCHANGED <<dispatcher, connected>> \/ Q!Publishes
      /\ UNCHANGED <<engineVars, followUps, overrun>>
  BY TransportProceeds DEF AttemptInv
<1>2. PICK k, n : k = Link /\ n = Link'
  OBVIOUS
<1>3. IsLink(k) /\ IsLink(n)
  BY <1>2, LinkIs
<1>4. Left(k, n) \/ Took(k, n)
  BY <1>1, <1>2 DEF Q!Proceeds, Q!Leaves, Q!Takes, Q!SameLink, Left, Took, SameUse, Link
<1>5. Said(k, n)
  BY <1>1, <1>2 DEF Q!Publishes, Said, Link, Terminal
<1>6. Stepped(k, n)
  BY <1>3, <1>4, <1>5 DEF Stepped
<1>7. /\ Welcomed(k) => Welcomed(n)
      /\ LetGo(k) => LetGo(n)
      /\ LetGo(k) /\ Sought(k) => Sought(n)
  BY <1>6, SaidSo, StaysFreed, StaysSought
<1>8. /\ Welcomed(k) /\ EffectInv
      /\ Unlinked => LetGo(k) \/ Has(effects, E!Disconnect)
      /\ Waiting => Sought(k)
  BY <1>2 DEF AttemptInv
<1>9. /\ UNCHANGED <<effects, connectionState, followUps, overrun>>
      /\ (Unlinked' <=> Unlinked) /\ (Waiting' <=> Waiting) /\ (EffectInv' <=> EffectInv)
  BY <1>1 DEF engineVars, Unlinked, Waiting, EffectInv
<1>10. Waiting /\ EffectInv => Unlinked /\ ~Has(effects, E!Disconnect)
  BY DEF Waiting, Unlinked, EffectInv
<1>11. Q!LengthInv'
  BY <1>1 DEF Q!Proceeds
<1>12. /\ Welcomed(n) /\ EffectInv'
       /\ Unlinked' => LetGo(n) \/ Has(effects', E!Disconnect)
       /\ Waiting' => Sought(n)
  BY <1>7, <1>8, <1>9, <1>10
<1> QED
  BY <1>2, <1>11, <1>12 DEF AttemptInv

\* The transport is left alone.
LEMMA LinkRests ==
  ASSUME UNCHANGED ioVars PROVE Link' = Link /\ (Q!LengthInv' <=> Q!LengthInv)
  BY DEF ioVars, Link, Q!LengthInv, Q!HungUp, Q!Overtaken

\* A command is queued.
Queued(k, n, y) ==
  /\ n.commands = Append(k.commands, y)
  /\ n.dispatcher = k.dispatcher /\ n.up = k.up /\ n.active = k.active
  /\ n.hung = k.hung /\ n.over \subseteq k.over
  /\ k.commands = <<>> => n.over = {}

\* It gives run a place behind all the others.
LEMMA TrySendQueues ==
  ASSUME PartsInv, NEW y \in Q!Command, T!TrySend(y)
  PROVE  Queued(Link, Link', y) /\ (Q!LengthInv => Q!LengthInv')
<1>1. /\ commands' = Append(commands, y)
      /\ ready' = IF commands = <<>> THEN Append(ready, Q!Run) ELSE ready
      /\ UNCHANGED <<co, dispatcher, connected, connectionActive>>
  BY SameCalls DEF Q!TrySend, Q!stateVars
<1>2. Q!LengthInv => Q!LengthInv'
  BY <1>1 DEF Q!LengthInv
<1>3. Q!HungUp' = Q!HungUp /\ Q!HungUp \subseteq Q!Coroutine
  BY <1>1 DEF Q!HungUp
<1>4. /\ ready \in Seq(Q!Handlers) /\ Q!Run \in Q!Handlers
      /\ \A i \in DOMAIN ready : ready[i] = Q!Run => commands # <<>>
  BY DEF PartsInv, Q!IInv, Q!TypeOK, Q!ReadyInv, Q!Handlers, Q!Range
<1>5. \A c \in Q!Coroutine : c # Q!Run
  BY IoAssumptions, Q!Kinds
<1>6. ASSUME NEW c \in Q!Coroutine, Q!RunFirst(ready', c)
      PROVE  Q!RunFirst(ready, c) /\ commands # <<>>
  <2>1. Q!RunFirst(ready, c)
    <3>1. CASE commands = <<>>
      <4> DEFINE q == ready  q2 == ready'
      <4>1. q \in Seq(Q!Handlers) /\ q2 = Append(q, Q!Run) /\ Q!RunFirst(q2, c) /\ c # Q!Run
        BY <1>1, <1>4, <1>5, <1>6, <3>1
      <4> HIDE DEF q, q2
      <4>2. Q!RunFirst(q, c)
        BY <1>4, <4>1, IoAssumptions, Q!AppendedOrder
      <4> QED
        BY <4>2 DEF q
    <3>2. CASE commands # <<>>
      BY <1>1, <1>6, <3>2
    <3> QED
      BY <3>1, <3>2
  <2>2. \E i \in DOMAIN ready : ready[i] = Q!Run
    BY <2>1 DEF Q!RunFirst
  <2> QED
    BY <1>4, <2>1, <2>2
<1>7. Q!Overtaken' \subseteq Q!Overtaken /\ (commands = <<>> => Q!Overtaken' = {})
  BY <1>3, <1>6 DEF Q!Overtaken
<1> QED
  BY <1>1, <1>2, <1>3, <1>7 DEF Queued, Link

\* What that changes.
LEMMA QueuedSo ==
  ASSUME NEW k, IsLink(k), NEW n, NEW y \in Q!Command, Queued(k, n, y)
  PROVE  /\ Welcomed(k) => Welcomed(n)
         /\ LetGo(k) \/ y = Q!Disconnect => LetGo(n)
         /\ y = Q!Connect \/ (Sought(k) /\ y # Q!Disconnect) => Sought(n)
<1> DEFINE m == k.commands  m2 == n.commands
<1>1. m \in Seq(Q!Command) /\ m2 = Append(m, y)
  BY DEF IsLink, Queued
<1>2. /\ \A x : Has(m2, x) <=> Has(m, x) \/ x = y
      /\ \A x : Has(Tail(m), x) => Has(Tail(m2), x)
      /\ m # <<>> => Has(Tail(m2), y)
      /\ y = Q!Connect \/ (Reopens(m) /\ y # Q!Disconnect) => Reopens(m2)
  <2>1. Adds(m, m2, y)
    BY <1>1 DEF Adds
  <2> HIDE DEF m, m2
  <2> QED
    BY <2>1, CommandAdded
<1>3. Welcomed(k) => Welcomed(n)
  BY DEF Welcomed, Queued
<1>4. LetGo(k) \/ y = Q!Disconnect => LetGo(n)
  BY <1>2 DEF LetGo, Queued
<1>5. y = Q!Connect => Sought(n)
  BY <1>2 DEF Sought, Awaited, Queued
<1>6. Sought(k) /\ y # Q!Disconnect => Sought(n)
  BY <1>2 DEF Sought, Awaited, Queued
<1> QED
  BY <1>3, <1>4, <1>5, <1>6

\* The effects there may be: the other two are neither of these.
LEMMA EffectsDiffer ==
  ASSUME P!Inv, effects # <<>>, NEW e, e = Head(effects)
  PROVE  /\ effects \in Seq(P!Effect)
         /\ E!Connect # E!Disconnect
         /\ e = E!AcceptKey \/ e \in Frame \/ e.type = "CommitText" => e # E!Connect /\ e # E!Disconnect
  BY EffectsAre DEF E!AcceptKey, E!Connect, E!Disconnect

\* An effect is performed: what was to be done is still to be done, or done.
LEMMA ApplyAttempts ==
  ASSUME PartsInv, LinkInv, AttemptInv, Apply
  PROVE  AttemptInv'
<1>1. PICK k, n, e : k = Link /\ n = Link' /\ e = Head(effects)
  OBVIOUS
<1>2. effects # <<>> /\ effects' = Tail(effects) /\ UNCHANGED connectionState
  BY DEF Apply, EffectDone, EngineRests
<1>3. \A x : Has(effects, x) <=> e = x \/ Has(effects', x)
  <2> DEFINE q == effects  q2 == effects'
  <2>1. q \in Seq(P!Effect) /\ q # <<>> /\ q2 = Tail(q) /\ e = Head(q)
    BY <1>1, <1>2, EffectsAre DEF PartsInv
  <2> HIDE DEF q, q2
  <2>2. \A x : Has(q, x) <=> e = x \/ Has(q2, x)
    BY <2>1, CommandTaken
  <2> QED
    BY <2>2 DEF q, q2
<1>4. EffectInv'
  BY <1>2, <1>3 DEF AttemptInv, EffectInv
<1>5. /\ E!Connect # E!Disconnect
      /\ e = E!AcceptKey \/ e \in Frame \/ e.type = "CommitText" => e # E!Connect /\ e # E!Disconnect
  BY <1>1, <1>2, EffectsDiffer DEF PartsInv
<1>6. /\ Welcomed(k) /\ IsLink(k)
      /\ Unlinked => LetGo(k) \/ Has(effects, E!Disconnect)
      /\ Waiting => Sought(k)
  BY <1>1, LinkIs DEF AttemptInv
<1>7. /\ e = E!Connect => connectionState = "Connecting"
      /\ e = E!Disconnect => connectionState # "Connecting"
  BY <1>3 DEF AttemptInv, EffectInv
<1>8. ASSUME NEW y \in Q!Command, T!TrySend(y), UNCHANGED followUps, overrun' = overrun,
             e = E!Connect <=> y = Q!Connect,
             e = E!Disconnect <=> y = Q!Disconnect
      PROVE  /\ Q!LengthInv' /\ Welcomed(n)
             /\ Unlinked' => LetGo(n) \/ Has(effects', E!Disconnect)
             /\ Waiting' => Sought(n)
  <2>1. Queued(k, n, y) /\ Q!LengthInv'
    BY <1>1, <1>8, TrySendQueues DEF AttemptInv
  <2>2. /\ Welcomed(n)
        /\ LetGo(k) \/ y = Q!Disconnect => LetGo(n)
        /\ y = Q!Connect \/ (Sought(k) /\ y # Q!Disconnect) => Sought(n)
    BY <1>6, <2>1, QueuedSo
  <2>3. Unlinked' => LetGo(n) \/ Has(effects', E!Disconnect)
    BY <1>2, <1>3, <1>6, <1>8, <2>2 DEF Unlinked
  <2>4. Waiting' => Sought(n)
    BY <1>2, <1>3, <1>6, <1>7, <1>8, <2>2 DEF Waiting
  <2> QED
    BY <2>1, <2>2, <2>3, <2>4
<1>9. ASSUME UNCHANGED ioVars,
             \/ overrun'
             \/ /\ overrun' = overrun /\ (Failing(followUps') <=> Failing(followUps))
                /\ e # E!Connect /\ e # E!Disconnect
             \/ /\ overrun' = overrun /\ Failing(followUps')
                /\ LetGo(k) \/ e = E!Connect
      PROVE  /\ Q!LengthInv' /\ Welcomed(n)
             /\ Unlinked' => LetGo(n) \/ Has(effects', E!Disconnect)
             /\ Waiting' => Sought(n)
  <2>1. n = k /\ Q!LengthInv'
    BY <1>1, <1>9, LinkRests DEF AttemptInv
  <2>2. Unlinked' => LetGo(k) \/ Has(effects', E!Disconnect)
    BY <1>2, <1>3, <1>5, <1>6, <1>7, <1>9 DEF Unlinked
  <2>3. Waiting' => Sought(k)
    BY <1>2, <1>3, <1>6, <1>9 DEF Waiting
  <2> QED
    BY <1>6, <2>1, <2>2, <2>3
<1>10. /\ T!Connect = Q!Connect /\ T!Disconnect = Q!Disconnect /\ Q!Connect # Q!Disconnect
       /\ Q!Connect \in Q!Command /\ Q!Disconnect \in Q!Command
       /\ \A f \in Frame : /\ T!Send(f) = Q!Send(f) /\ Q!Send(f) \in Q!Command
                           /\ Q!Send(f) # Q!Connect /\ Q!Send(f) # Q!Disconnect
  BY DEF T!Connect, Q!Connect, T!Disconnect, Q!Disconnect, T!Send, Q!Send, Q!Command
<1>11. followUps \in Seq(Context \cup {"ConnectionFailed"})
  BY DEF LinkInv, FollowUpInv
<1>12. ASSUME NEW x \in Context \cup {"ConnectionFailed"}, followUps' = Append(followUps, x)
       PROVE  Failing(followUps') <=> Failing(followUps) \/ x = "ConnectionFailed"
  <2> DEFINE f == followUps  f2 == followUps'
  <2>1. PICK X : X = Context \cup {"ConnectionFailed"}
    OBVIOUS
  <2>2. Adds(f, f2, x)
    BY <1>11, <1>12, <2>1 DEF Adds
  <2> HIDE DEF f, f2
  <2>3. Has(f2, "ConnectionFailed") <=> Has(f, "ConnectionFailed") \/ x = "ConnectionFailed"
    BY <2>2, CommandAdded
  <2> QED
    BY <2>3 DEF f, f2, Has, Failing
<1>13. /\ Q!LengthInv' /\ Welcomed(n)
       /\ Unlinked' => LetGo(n) \/ Has(effects', E!Disconnect)
       /\ Waiting' => Sought(n)
  <2>1. CASE ApplyAcceptKey
    BY <1>1, <1>5, <1>9, <2>1 DEF ApplyAcceptKey, NoFollowUp
  <2>2. CASE ApplyConnect
    <3>1. CASE T!TrySend(T!Connect) /\ NoFollowUp
      BY <1>1, <1>5, <1>8, <1>10, <2>2, <3>1 DEF ApplyConnect, NoFollowUp
    <3>2. CASE FollowUp("ConnectionFailed")
      BY <1>1, <1>9, <1>12, <2>2, <3>2 DEF ApplyConnect, FollowUp
    <3> QED
      BY <2>2, <3>1, <3>2 DEF ApplyConnect
  <2>3. CASE ApplyDisconnect
    <3>1. CASE T!TrySend(T!Disconnect) /\ UNCHANGED overrun
      BY <1>1, <1>5, <1>8, <1>10, <2>3, <3>1 DEF ApplyDisconnect, NoFollowUp
    <3>2. CASE overrun' = TRUE /\ UNCHANGED ioVars
      BY <1>9, <3>2
    <3> QED
      BY <2>3, <3>1, <3>2 DEF ApplyDisconnect
  <2>4. CASE ApplySendEnvelope
    <3>0. e \in Frame
      BY <1>1, <2>4 DEF ApplySendEnvelope
    <3>1. CASE T!TrySend(T!Send(e)) /\ NoFollowUp /\ UNCHANGED overrun
      BY <1>5, <1>8, <1>10, <3>0, <3>1 DEF NoFollowUp
    <3>2. CASE ~connected /\ FollowUp("ConnectionFailed") /\ UNCHANGED overrun
      <4>1. LetGo(k)
        BY <1>1, <3>2 DEF LetGo, Link
      <4> QED
        BY <1>9, <1>12, <3>2, <4>1 DEF FollowUp
    <3>3. CASE FollowUp("ConnectionFailed") /\ overrun' = TRUE
      BY <1>9, <3>3 DEF FollowUp
    <3> QED
      BY <1>1, <2>4, <3>1, <3>2, <3>3 DEF ApplySendEnvelope
  <2>5. CASE ApplyCommitText
    <3>1. e.type = "CommitText" /\ e.context \in Context /\ UNCHANGED ioVars /\ overrun' = overrun
      BY <1>1, <1>2, <2>5, EffectsAre DEF ApplyCommitText, FollowUp, PartsInv
    <3>2. Failing(followUps') <=> Failing(followUps)
      <4>1. CASE UNCHANGED followUps
        BY <4>1
      <4>2. CASE followUps' = Append(followUps, e.context)
        BY <1>12, <3>1, <4>2, ContextAssumption
      <4> QED
        BY <1>1, <2>5, <4>1, <4>2 DEF ApplyCommitText, FollowUp, NoFollowUp
    <3> QED
      BY <1>5, <1>9, <3>1, <3>2
  <2> QED
    BY <2>1, <2>2, <2>3, <2>4, <2>5 DEF Apply
<1> QED
  BY <1>1, <1>4, <1>13 DEF AttemptInv

-----------------------------------------------------------------------------
(***************************************************************************)
(* The events of the engine.                                               *)
(***************************************************************************)
\* Effects that are not about the connection.
Mild(q) == ~Has(q, E!Connect) /\ ~Has(q, E!Disconnect)
OtherEffect(e) == e # E!Connect /\ e # E!Disconnect

\* The engine's effects come in these.
LEMMA EffectsOf ==
  /\ Mild(<<>>)
  /\ \A e : OtherEffect(e) => Mild(<<e>>)
  /\ \A e, g : OtherEffect(e) /\ OtherEffect(g) => Mild(Append(<<e>>, g))
  /\ Has(<<E!Disconnect>>, E!Disconnect) /\ ~Has(<<E!Disconnect>>, E!Connect)
  /\ Has(<<E!AcceptKey, E!Connect>>, E!Connect) /\ ~Has(<<E!AcceptKey, E!Connect>>, E!Disconnect)
  /\ OtherEffect(E!AcceptKey)
  /\ \A s : OtherEffect(E!StartSession(s)) /\ OtherEffect(E!InterruptSession(s))
  /\ \A c, s, i : OtherEffect(E!CommitText(c, s, i))
<1>1. Mild(<<>>)
  BY DEF Mild, Has
<1>2. \A e : OtherEffect(e) => Mild(<<e>>)
  BY DEF Mild, Has, OtherEffect
<1>3. \A e, g : OtherEffect(e) /\ OtherEffect(g) => Mild(Append(<<e>>, g))
  <2> SUFFICES ASSUME NEW e, NEW g, OtherEffect(e), OtherEffect(g) PROVE Mild(Append(<<e>>, g))
    OBVIOUS
  <2>1. PICK q : q = Append(<<e>>, g)
    OBVIOUS
  <2>2. Adds(<<e>>, q, g)
    <3>1. PICK X : X = {e, g}
      OBVIOUS
    <3>2. <<e>> \in Seq(X) /\ g \in X
      BY <3>1
    <3> QED
      BY <2>1, <3>2 DEF Adds
  <2>3. \A x : Has(q, x) <=> Has(<<e>>, x) \/ x = g
    BY <2>2, CommandAdded
  <2>4. ~Has(<<e>>, E!Connect) /\ ~Has(<<e>>, E!Disconnect)
    BY DEF OtherEffect, Has
  <2> QED
    BY <2>1, <2>3, <2>4 DEF Mild, OtherEffect
<1>4. E!Connect # E!Disconnect /\ E!AcceptKey # E!Disconnect
  BY DEF E!Connect, E!Disconnect, E!AcceptKey
<1>5. Has(<<E!Disconnect>>, E!Disconnect) /\ ~Has(<<E!Disconnect>>, E!Connect)
  BY <1>4 DEF Has
<1>6. Has(<<E!AcceptKey, E!Connect>>, E!Connect) /\ ~Has(<<E!AcceptKey, E!Connect>>, E!Disconnect)
  BY <1>4 DEF Has
<1>7. OtherEffect(E!AcceptKey)
  BY DEF OtherEffect, E!Connect, E!Disconnect, E!AcceptKey
<1>8. \A s : OtherEffect(E!StartSession(s)) /\ OtherEffect(E!InterruptSession(s))
  BY DEF OtherEffect, E!Connect, E!Disconnect, E!StartSession, E!InterruptSession
<1>9. \A c, s, i : OtherEffect(E!CommitText(c, s, i))
  BY DEF OtherEffect, E!Connect, E!Disconnect, E!CommitText
<1> QED
  BY <1>1, <1>2, <1>3, <1>5, <1>6, <1>7, <1>8, <1>9

\* What an event has to do with the connection: nothing, ...
Minds == UNCHANGED connectionState /\ Mild(effects')
\* ... a connection is given up, ...
GivesUp == connectionState' = "Disconnected" /\ ~Has(effects', E!Connect) /\ Has(effects', E!Disconnect)
Ends == connectionState' = "Disconnected" /\ Mild(effects')
\* ... asked for, ...
Seeks ==
  /\ connectionState = "Disconnected" /\ connectionState' = "Connecting"
  /\ Has(effects', E!Connect) /\ ~Has(effects', E!Disconnect)
\* ... there, or there and not wanted.
Gets == connectionState' = "Ready" /\ Mild(effects')
Refuses ==
  /\ UNCHANGED connectionState /\ connectionState # "Connecting"
  /\ ~Has(effects', E!Connect) /\ Has(effects', E!Disconnect)

\* Interrupting a session is no matter of the connection.
LEMMA InterruptIsMild == Mild(E!InterruptMessage) /\ Mild(Append(E!InterruptMessage, E!AcceptKey))
<1>1. CASE connectionState = "Ready"
  <2>1. PICK e, q : e = E!InterruptSession(session.id) /\ q = <<e>>
    OBVIOUS
  <2>2. E!InterruptMessage = q
    BY <1>1, <2>1 DEF E!InterruptMessage
  <2>3. Mild(<<e>>) /\ Mild(Append(<<e>>, E!AcceptKey))
    BY <2>1, EffectsOf
  <2> QED
    BY <2>1, <2>2, <2>3
<1>2. CASE connectionState # "Ready"
  <2>1. E!InterruptMessage = <<>> /\ Append(<<>>, E!AcceptKey) = <<E!AcceptKey>>
    BY <1>2 DEF E!InterruptMessage
  <2> QED
    BY <2>1, EffectsOf
<1> QED
  BY <1>1, <1>2

\* A pending start that becomes a session, or does not, neither.
LEMMA StartIsMild ==
  ASSUME NEW c, NEW before, before = <<>> \/ before = <<E!AcceptKey>>, E!TryStartPending(c, before)
  PROVE  Mild(effects')
<1>1. CASE effects' = before
  BY <1>1, EffectsOf
<1>2. ASSUME NEW s, effects' = Append(before, E!StartSession(s)) PROVE Mild(effects')
  <2>1. PICK e : e = E!StartSession(s)
    OBVIOUS
  <2>2. effects' = <<e>> \/ effects' = Append(<<E!AcceptKey>>, e)
    <3>1. effects' = Append(before, e) /\ Append(<<>>, e) = <<e>>
      BY <1>2, <2>1
    <3> QED
      BY <3>1
  <2>3. OtherEffect(e) /\ OtherEffect(E!AcceptKey)
    BY <2>1, EffectsOf
  <2> QED
    BY <2>2, <2>3, EffectsOf
<1> QED
  BY <1>1, <1>2 DEF E!TryStartPending

\* Keys, focus changes and configurations.
LEMMA UserMinds ==
  ASSUME UserEvent PROVE Minds \/ GivesUp \/ Seeks
<1>1. ASSUME NEW c \in Context, NEW hasFocus \in BOOLEAN, E!Toggle(c, hasFocus)
      PROVE  Minds \/ Seeks
  <2>1. CASE E!ToggleInterrupts
    BY <2>1, InterruptIsMild DEF E!ToggleInterrupts, Minds
  <2>2. CASE E!ToggleCancels(c) \/ E!ToggleIgnored(c, hasFocus)
    BY <2>2, EffectsOf DEF E!ToggleCancels, E!ToggleIgnored, Minds
  <2>3. CASE E!ToggleStarts(c, hasFocus)
    <3>1. CASE /\ connectionState = "Disconnected" /\ connectionState' = "Connecting"
               /\ effects' = <<E!AcceptKey, E!Connect>>
      BY <3>1, EffectsOf DEF Seeks
    <3>2. CASE UNCHANGED connectionState /\ effects' = <<E!AcceptKey>>
      BY <3>2, EffectsOf DEF Minds
    <3>3. CASE UNCHANGED connectionState /\ E!TryStartPending(c, <<E!AcceptKey>>)
      BY <3>3, StartIsMild DEF Minds
    <3> QED
      BY <2>3, <3>1, <3>2, <3>3 DEF E!ToggleStarts
  <2> QED
    BY <1>1, <2>1, <2>2, <2>3 DEF E!Toggle
<1>2. ASSUME NEW c \in Context, E!FocusIn(c) \/ E!FocusOut(c) \/ E!ContextDestroyed(c)
      PROVE  Minds
  <2>1. UNCHANGED connectionState /\ (effects' = E!InterruptMessage \/ effects' = <<>>)
    BY <1>2 DEF E!FocusIn, E!FocusOut, E!ContextDestroyed, E!LoseContext
  <2> QED
    BY <2>1, InterruptIsMild, EffectsOf DEF Minds
<1>3. ASSUME NEW result, E!ConnectionConfigured(result) PROVE Minds \/ GivesUp
  <2>1. \/ connectionState' = "Disconnected" /\ effects' = <<E!Disconnect>>
        \/ UNCHANGED connectionState /\ effects' = <<>>
    BY <1>3 DEF E!ConnectionConfigured, E!AbortInteraction
  <2> QED
    BY <2>1, EffectsOf DEF Minds, GivesUp
<1> QED
  BY <1>1, <1>2, <1>3 DEF UserEvent

\* The rest of a dispatch.
LEMMA FollowUpMinds ==
  ASSUME DispatchFollowUp
  PROVE  \/ Head(followUps) # "ConnectionFailed" /\ Minds
         \/ Head(followUps) = "ConnectionFailed" /\ Ends
<1>1. CASE Head(followUps) = "ConnectionFailed"
  BY <1>1, EffectsOf DEF DispatchFollowUp, E!ConnectionEnded, E!AbortInteraction, Ends
<1>2. CASE Head(followUps) # "ConnectionFailed"
  <2>1. UNCHANGED connectionState /\ (effects' = E!InterruptMessage \/ effects' = <<>>)
    BY <1>2 DEF DispatchFollowUp, E!ContextDestroyed, E!LoseContext
  <2> QED
    BY <1>2, <2>1, InterruptIsMild, EffectsOf DEF Minds
<1> QED
  BY <1>1, <1>2

\* A callback.
LEMMA CallbackMinds ==
  ASSUME Callback, NEW e, e = Head(dispatcher)
  PROVE  \/ e.type = "Inbound" /\ Minds
         \/ Terminal(e) /\ Ends
         \/ e.type = "Authenticated" /\ (Gets \/ Refuses)
<1>1. CASE e.type = "Authenticated" /\ E!ConnectionAuthenticated
  <2>1. CASE connectionState = "Connecting"
    <3>1. connectionState' = "Ready" /\ E!TryStartPending(pending, <<>>)
      BY <1>1, <2>1 DEF E!ConnectionAuthenticated
    <3>2. PICK c : c = pending
      OBVIOUS
    <3>3. E!TryStartPending(c, <<>>)
      BY <3>1, <3>2
    <3> QED
      BY <1>1, <3>1, <3>3, StartIsMild DEF Gets
  <2>2. CASE connectionState # "Connecting"
    BY <1>1, <2>2, EffectsOf DEF E!ConnectionAuthenticated, Refuses
  <2> QED
    BY <2>1, <2>2
<1>2. CASE e.type \in {"Closed", "Failed"} /\ E!ConnectionEnded
  BY <1>2, EffectsOf DEF E!ConnectionEnded, E!AbortInteraction, Ends, Terminal
<1>3. CASE e.type = "Inbound" /\ E!HandleCommitText(e.data.session, e.data.fragment)
  <2>1. /\ UNCHANGED connectionState
        /\ \/ effects' = <<>> \/ effects' = E!InterruptMessage
           \/ \E c, s, i : effects' = <<E!CommitText(c, s, i)>>
    BY <1>3 DEF E!HandleCommitText
  <2>2. (\E c, s, i : effects' = <<E!CommitText(c, s, i)>>) => Mild(effects')
    BY EffectsOf
  <2> QED
    BY <1>3, <2>1, <2>2, EffectsOf, InterruptIsMild DEF Minds
<1>4. CASE e.type = "Inbound" /\ E!SessionEnded(e.data.session)
  BY <1>4, EffectsOf DEF E!SessionEnded, Minds
<1> QED
  BY <1>1, <1>2, <1>3, <1>4 DEF Callback

\* An event of the user, or of the rest of a dispatch, over a transport at rest.
LEMMA EventAttempts ==
  ASSUME PartsInv, LinkInv, AttemptInv, UserEvent \/ DispatchFollowUp
  PROVE  AttemptInv'
<1>1. effects = <<>> /\ UNCHANGED ioVars /\ overrun' = overrun
  BY DEF UserEvent, DispatchFollowUp, DispatchReturned
<1>2. PICK k : k = Link
  OBVIOUS
<1>3. k = Link' /\ (Q!LengthInv' <=> Q!LengthInv)
  BY <1>1, <1>2, LinkRests
<1>4. ~Has(effects, E!Connect) /\ ~Has(effects, E!Disconnect)
  BY <1>1 DEF Has
<1>5. /\ Q!LengthInv /\ Welcomed(k)
      /\ Unlinked => LetGo(k)
      /\ Waiting => Sought(k)
  BY <1>2, <1>4 DEF AttemptInv
<1>6. \/ (Failing(followUps') <=> Failing(followUps)) /\ (Minds \/ GivesUp \/ Seeks)
      \/ Failing(followUps) /\ Ends
  <2>1. CASE UserEvent
    BY <2>1, UserMinds DEF UserEvent, Failing
  <2>2. CASE DispatchFollowUp
    <3> DEFINE f == followUps  f2 == followUps'
    <3>1. PICK X : X = Context \cup {"ConnectionFailed"}
      OBVIOUS
    <3>2. f \in Seq(X) /\ f # <<>> /\ f2 = Tail(f)
      BY <2>2, <3>1 DEF LinkInv, FollowUpInv, DispatchFollowUp
    <3>3. Failing(f) <=> Head(f) = "ConnectionFailed" \/ Failing(f2)
      <4> HIDE DEF f, f2
      <4>1. Has(f, "ConnectionFailed") <=> Head(f) = "ConnectionFailed" \/ Has(f2, "ConnectionFailed")
        BY <3>2, CommandTaken
      <4> QED
        BY <4>1 DEF Has, Failing
    <3> QED
      BY <2>2, <3>3, FollowUpMinds
  <2> QED
    BY <2>1, <2>2
<1>7. /\ EffectInv'
      /\ Unlinked' => LetGo(k) \/ Has(effects', E!Disconnect)
      /\ Waiting' => Sought(k)
  <2>1. CASE (Failing(followUps') <=> Failing(followUps)) /\ Minds
    BY <1>1, <1>4, <1>5, <2>1 DEF Minds, Mild, EffectInv, Unlinked, Waiting
  <2>2. CASE GivesUp
    BY <2>2 DEF GivesUp, EffectInv, Waiting
  <2>3. CASE Seeks
    BY <1>1, <1>5, <2>3 DEF Seeks, EffectInv, Unlinked, Waiting
  <2>4. CASE Failing(followUps) /\ Ends
    BY <1>1, <1>5, <2>4 DEF Ends, Mild, EffectInv, Unlinked, Waiting
  <2> QED
    BY <1>6, <2>1, <2>2, <2>3, <2>4
<1> QED
  BY <1>3, <1>5, <1>7 DEF AttemptInv

\* The oldest callback is run.
LEMMA CallbackAttempts ==
  ASSUME PartsInv, LinkInv, AttemptInv, Callback
  PROVE  AttemptInv'
<1>1. /\ effects = <<>> /\ followUps = <<>> /\ UNCHANGED <<followUps, overrun>>
      /\ dispatcher # <<>> /\ dispatcher' = Tail(dispatcher)
      /\ UNCHANGED <<commands, ready, co, connected, connectionActive>>
  BY SameCalls DEF Callback, DispatchReturned, Q!Deliver
<1>2. PICK k, n, e : k = Link /\ n = Link' /\ e = Head(dispatcher)
  OBVIOUS
<1>3. /\ n.commands = k.commands /\ n.up = k.up /\ n.active = k.active
      /\ n.hung = k.hung /\ n.over = k.over
  BY <1>1, <1>2 DEF Link, Q!HungUp, Q!Overtaken
<1>4. Q!LengthInv' <=> Q!LengthInv
  BY <1>1 DEF Q!LengthInv
<1> DEFINE d == k.dispatcher  d2 == n.dispatcher
<1>5. Takes(d, d2, e)
  <2>1. d \in Seq(Q!EventType) /\ d # <<>> /\ d2 = Tail(d) /\ e = Head(d)
    BY <1>1, <1>2, LinkIs DEF Link, IsLink
  <2> QED
    BY <2>1 DEF Takes
<1>6. /\ Q!News(d2) => Q!News(d)
      /\ Q!News(d) => Q!News(d2) \/ e.type # "Inbound"
      /\ Authenticated(d) => Authenticated(d2) \/ e.type = "Authenticated"
  <2> HIDE DEF d, d2
  <2> QED
    BY <1>5, CallbackRun
<1>11. ASSUME Welcomes(d) PROVE Welcomes(d2) /\ (Terminal(e) => Authenticated(d2))
  <2> HIDE DEF d, d2
  <2> QED
    BY <1>5, <1>11, CallbackRun
<1>7. ~Has(effects, E!Connect) /\ ~Has(effects, E!Disconnect) /\ ~Failing(followUps) /\ ~Failing(followUps')
  BY <1>1 DEF Has, Failing
<1>8. /\ Q!LengthInv /\ Welcomed(k)
      /\ Unlinked => LetGo(k)
      /\ Waiting => Sought(k)
  BY <1>2, <1>7 DEF AttemptInv
<1>9. Welcomed(n)
  BY <1>3, <1>8, <1>11 DEF Welcomed
<1>10. /\ EffectInv'
       /\ Unlinked' => LetGo(n) \/ Has(effects', E!Disconnect)
       /\ Waiting' => Sought(n)
  <2>1. CASE e.type = "Inbound" /\ Minds
    <3>1. LetGo(k) => LetGo(n)
      BY <1>3, <1>6, <2>1 DEF LetGo
    <3>2. Sought(k) => Sought(n)
      BY <1>3, <1>6, <2>1 DEF Sought, Awaited
    <3> QED
      BY <1>1, <1>7, <1>8, <2>1, <3>1, <3>2 DEF Minds, Mild, EffectInv, Unlinked, Waiting
  <2>2. CASE Terminal(e) /\ Ends
    <3>1. LetGo(n)
      BY <1>3, <1>8, <1>11, <2>2 DEF LetGo, Welcomed
    <3> QED
      BY <2>2, <3>1 DEF Ends, Mild, EffectInv, Waiting
  <2>3. CASE Gets
    BY <1>7, <2>3 DEF Gets, Mild, EffectInv, Unlinked, Waiting
  <2>4. CASE Refuses
    BY <2>4 DEF Refuses, EffectInv, Waiting
  <2> QED
    BY <1>2, <2>1, <2>2, <2>3, <2>4, CallbackMinds
<1> QED
  BY <1>2, <1>4, <1>8, <1>9, <1>10 DEF AttemptInv

-----------------------------------------------------------------------------
(***************************************************************************)
(* The property.                                                           *)
(***************************************************************************)
\* Every step keeps it.
LEMMA NextAttempt == PartsInv /\ LinkInv /\ AttemptInv /\ [Next]_vars => AttemptInv'
<1> SUFFICES ASSUME PartsInv, LinkInv, AttemptInv, [Next]_vars PROVE AttemptInv'
  OBVIOUS
<1>1. PartsInv'
  BY NextParts
<1>2. CASE UNCHANGED vars
  <2>1. UNCHANGED ioVars /\ UNCHANGED <<effects, connectionState, followUps, overrun>>
    BY <1>2 DEF vars, engineVars
  <2>2. Link' = Link /\ (Q!LengthInv' <=> Q!LengthInv)
    BY <2>1, LinkRests
  <2>3. PICK k : k = Link /\ k = Link'
    BY <2>2
  <2>4. (Unlinked' <=> Unlinked) /\ (Waiting' <=> Waiting) /\ (EffectInv' <=> EffectInv)
    BY <2>1 DEF Unlinked, Waiting, EffectInv
  <2> QED
    BY <2>1, <2>2, <2>3, <2>4 DEF AttemptInv
<1> QED
  BY <1>1, <1>2, ApplyAttempts, EventAttempts, CallbackAttempts, TransportAttempts DEF Next

\* At first nothing is sought, and there is nothing to let go of.
LEMMA InitAttempt == Init => AttemptInv
<1> SUFFICES ASSUME Init PROVE AttemptInv
  OBVIOUS
<1>1. /\ effects = <<>> /\ connectionState = "Disconnected"
      /\ ~connected /\ \A c \in Q!Coroutine : co[c].at # "length"
  BY SameState DEF Init, E!Init, Q!Init, Q!Idle, Q!Op
<1>2. Q!LengthInv /\ EffectInv /\ ~Waiting
  BY <1>1 DEF Q!LengthInv, EffectInv, Has, Waiting
<1>3. PICK k : k = Link
  OBVIOUS
<1>4. ~k.up
  BY <1>1, <1>3 DEF Link
<1>5. Welcomed(k) /\ LetGo(k)
  BY <1>4 DEF Welcomed, LetGo
<1> QED
  BY <1>2, <1>3, <1>5 DEF AttemptInv

\* A connection the engine has given up will be let go of, and one it waits for
\* is sought, or news of it is on its way: the command channel, the dispatcher and
\* the read loops together (Addon::apply, handleCommand, readLoop, closeConnection).
THEOREM AttemptInvariant == Spec => []AttemptInv
<1>1. (PartsInv /\ LinkInv /\ AttemptInv) /\ [Next]_vars => AttemptInv'
  BY NextAttempt
<1> QED
  BY <1>1, InitAttempt, PartsInvariant, PTL DEF Spec

\* An engine that is "Connecting" is waiting for something: a connect effect or
\* command, an attempt under way, or a callback.  Nothing else would get it out of
\* that state (ToggleRequested, ConnectRequested, ConnectionAuthenticated).
THEOREM ConnectingIsAttempted == Spec => []ConnectingHasAttempt
<1>1. AttemptInv => ConnectingHasAttempt
  <2> SUFFICES ASSUME AttemptInv, connectionState = "Connecting", ~overrun PROVE AttemptUnderWay
    BY DEF ConnectingHasAttempt
  <2>1. CASE Has(effects, E!Connect)
    BY <2>1 DEF AttemptUnderWay, InQueue, Has
  <2>2. CASE Failing(followUps)
    BY <2>2, EndMeans DEF AttemptUnderWay
  <2>3. CASE Waiting
    <3>1. PICK k : k = Link
      OBVIOUS
    <3>2. Awaited(k)
      BY <2>3, <3>1 DEF AttemptInv, Sought
    <3>3. Q!News(dispatcher) \/ Has(commands, Q!Connect) \/ (connectionActive /\ ~connected)
      BY <3>1, <3>2 DEF Awaited, Link
    <3>4. T!Connect = Q!Connect
      BY DEF T!Connect, Q!Connect
    <3> QED
      BY <3>3, <3>4 DEF AttemptUnderWay, InQueue, Has, Q!News
  <2> QED
    BY <2>1, <2>2, <2>3 DEF Waiting
<1> QED
  BY <1>1, AttemptInvariant, PTL
=============================================================================
