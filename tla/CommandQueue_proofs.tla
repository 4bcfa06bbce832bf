------------------------ MODULE CommandQueue_proofs ------------------------
(* The cs channel implements CommandQueue, for every set of commands, every     *)
(* batch capacity and every number of chunks.                                   *)
EXTENDS MCRequestDispatcher, RequestDispatcher_proofs, SequenceTheorems, WellFoundedInduction

-----------------------------------------------------------------------------
(* Induction over the batches of a queue *)

\* A non-empty set of naturals has a least element: what holds for none of the
\* smaller ones is shown by contradiction with it.
LEMMA LeastNatural ==
    ASSUME NEW T, T \subseteq Nat, T # {}
    PROVE  \E x \in T : \A y \in T : x <= y
<1> DEFINE R == {p \in Nat \X Nat : p[1] < p[2]}
<1>1. IsWellFoundedOn(R, Nat)
  BY NatLessThanWellFounded DEF OpToRel
<1>2. \E x \in T : \A y \in T : ~(<<y, x>> \in R)
  <2> HIDE DEF R
  <2> QED
    BY Zenon, <1>1, WFMin
<1>3. PICK x \in T : \A y \in T : ~(<<y, x>> \in R)
  BY <1>2
<1>4. \A y \in T : ~(y < x)
  BY Zenon, <1>3
<1> QED
  BY <1>4

\* Joining sequences of commands.
LEMMA JoinType ==
    ASSUME NEW s \in Seq(Cmd), NEW t \in Seq(Cmd)
    PROVE  Join(s, t) \in Seq(Cmd)
BY DEF Join

\* It is associative.
LEMMA JoinAssociative ==
    ASSUME NEW s \in Seq(Cmd), NEW t \in Seq(Cmd), NEW u \in Seq(Cmd)
    PROVE  Join(Join(s, t), u) = Join(s, Join(t, u))
BY DEF Join

\* Joining no commands.
LEMMA JoinEmpty ==
    ASSUME NEW s \in Seq(Cmd)
    PROVE  Join(s, <<>>) = s /\ Join(<<>>, s) = s
BY ConcatEmptySeq DEF Join

\* g[i] joins the commands of the first i of n batches of q.
IsJoined(g, q, n) ==
    g = [i \in 0 .. n |-> IF i = 0 THEN <<>> ELSE Join(g[i - 1], q[i].cmds)]

\* The recursive function of Queued exists.
LEMMA JoinedExists ==
    ASSUME NEW q, NEW n \in Nat
    PROVE  \E g : IsJoined(g, q, n)
<1> DEFINE T == {k \in Nat : ~\E g : IsJoined(g, q, k)}
<1>1. SUFFICES ASSUME T # {} PROVE FALSE
  OBVIOUS
<1>2. PICK k \in T : \A j \in T : k <= j
  <2> HIDE DEF T
  <2> QED
    BY Zenon, <1>1, LeastNatural DEF T
<1>3. k \in Nat /\ ~\E g : IsJoined(g, q, k)
  OBVIOUS
<1>4. k # 0
  <2>1. IsJoined([i \in 0 .. 0 |-> <<>>], q, 0)
    BY DEF IsJoined
  <2> QED
    BY <2>1, <1>3
<1>5. PICK g : IsJoined(g, q, k - 1)
  BY <1>2, <1>3, <1>4
<1> DEFINE h == [i \in 0 .. k |-> IF i = k THEN Join(g[k - 1], q[k].cmds) ELSE g[i]]
<1>6. h = [i \in 0 .. k |-> IF i = 0 THEN <<>> ELSE Join(h[i - 1], q[i].cmds)]
  <2>1. ASSUME NEW i \in 0 .. k PROVE h[i] = IF i = 0 THEN <<>> ELSE Join(h[i - 1], q[i].cmds)
    <3>1. CASE i = k
      BY <1>3, <1>4, <3>1
    <3>2. CASE i # k
      <4>1. i \in 0 .. (k - 1) /\ h[i] = g[i] /\ (i # 0 => h[i - 1] = g[i - 1])
        BY <1>3, <1>4, <3>2
      <4>2. g[i] = IF i = 0 THEN <<>> ELSE Join(g[i - 1], q[i].cmds)
        BY <1>5, <4>1 DEF IsJoined
      <4> QED
        BY <4>1, <4>2
    <3> QED
      BY <3>1, <3>2
  <2> QED
    BY <2>1
<1> QED
  BY Zenon, <1>3, <1>6 DEF IsJoined

\* One step of the recursion.
LEMMA JoinedStep ==
    ASSUME NEW g, NEW q, NEW n \in Nat, IsJoined(g, q, n)
    PROVE  /\ g[0] = <<>>
           /\ \A i \in 1 .. n : g[i] = Join(g[i - 1], q[i].cmds)
BY DEF IsJoined

\* g grows by the batches of q.
Grows(g, q, n) == \A i \in 1 .. n : g[i] = Join(g[i - 1], q[i].cmds)

\* Two recursions over the same batches agree.
LEMMA JoinedAgree ==
    ASSUME NEW q, NEW n \in Nat, NEW g, NEW h, g[0] = h[0],
           Grows(g, q, n), Grows(h, q, n)
    PROVE  g[n] = h[n]
<1> DEFINE T == {i \in 0 .. n : g[i] # h[i]}
<1>1. SUFFICES ASSUME T # {} PROVE FALSE
  OBVIOUS
<1>2. PICK i \in T : \A j \in T : i <= j
  <2>1. T \subseteq Nat
    OBVIOUS
  <2> HIDE DEF T
  <2> QED
    BY Zenon, <1>1, <2>1, LeastNatural
<1>3. i \in 1 .. n /\ g[i] # h[i]
  OBVIOUS
<1>4. i - 1 \in 0 .. n /\ i - 1 \notin T
  BY <1>2, <1>3
<1>5. g[i - 1] = h[i - 1]
  BY <1>4
<1> QED
  BY <1>3, <1>5 DEF Grows

\* Queued, as its recursion computes it.
LEMMA QueuedIs ==
    ASSUME NEW q \in Seq(Requests)
    PROVE  \E g : IsJoined(g, q, Len(q)) /\ Queued(q) = g[Len(q)]
<1> DEFINE n == Len(q)
           f == CHOOSE g : IsJoined(g, q, n)
<1>1. n \in Nat
  OBVIOUS
<1>2. IsJoined(f, q, n)
  BY <1>1, JoinedExists
<1>3. Queued(q) = f[n]
  BY DEF Queued, IsJoined
<1> QED
  BY Zenon, <1>2, <1>3

\* The commands of a batch.
LEMMA CmdsType ==
    ASSUME NEW r \in Requests
    PROVE  r.cmds \in Seq(Cmd)
BY DEF Requests

\* The joined batches are a sequence of commands.
LEMMA JoinedType ==
    ASSUME NEW q \in Seq(Requests), NEW g, IsJoined(g, q, Len(q))
    PROVE  \A i \in 0 .. Len(q) : g[i] \in Seq(Cmd)
<1> DEFINE n == Len(q)
           T == {i \in 0 .. n : g[i] \notin Seq(Cmd)}
<1>0. n \in Nat
  OBVIOUS
<1>1. SUFFICES ASSUME T # {} PROVE FALSE
  OBVIOUS
<1>2. PICK i \in T : \A j \in T : i <= j
  <2>1. T \subseteq Nat
    BY <1>0
  <2> HIDE DEF T
  <2> QED
    BY Zenon, <1>1, <2>1, LeastNatural
<1>3. i \in 0 .. n /\ g[i] \notin Seq(Cmd)
  OBVIOUS
<1>a. /\ g[0] = <<>>
      /\ \A k \in 1 .. n : g[k] = Join(g[k - 1], q[k].cmds)
  <2> HIDE DEF n
  <2> QED
    BY <1>0, JoinedStep DEF n
<1>4. i # 0
  <2>1. g[0] \in Seq(Cmd)
    BY <1>a
  <2> HIDE DEF T
  <2> QED
    BY <1>3, <2>1
<1>5. i - 1 \in 0 .. n /\ i - 1 \notin T /\ i \in 1 .. n
  BY <1>0, <1>2, <1>3, <1>4
<1>6. g[i - 1] \in Seq(Cmd)
  BY <1>5
<1>7. q[i].cmds \in Seq(Cmd)
  <2>1. q[i] \in Requests
    BY <1>5
  <2> QED
    BY <2>1, CmdsType
<1>8. Join(g[i - 1], q[i].cmds) \in Seq(Cmd)
  BY <1>6, <1>7, JoinType
<1>9. g[i] = Join(g[i - 1], q[i].cmds)
  BY <1>5, <1>a
<1> HIDE DEF T, n
<1> QED
  BY <1>3, <1>8, <1>9

\* The queued commands are a sequence of commands.
LEMMA QueuedType ==
    ASSUME NEW q \in Seq(Requests)
    PROVE  Queued(q) \in Seq(Cmd)
<1>1. PICK g : IsJoined(g, q, Len(q)) /\ Queued(q) = g[Len(q)]
  BY QueuedIs
<1>2. Len(q) \in 0 .. Len(q)
  OBVIOUS
<1> QED
  BY <1>1, <1>2, JoinedType
-----------------------------------------------------------------------------
(* What add and serverrequest do to the queued commands *)

\* A batch at the end.
LEMMA QueuedAppend ==
    ASSUME NEW q \in Seq(Requests), NEW x \in Requests
    PROVE  Queued(Append(q, x)) = Join(Queued(q), x.cmds)
<1> DEFINE r == Append(q, x)
           n == Len(q)
           k == n + 1
<1>1. n \in Nat /\ k \in Nat /\ k \in 1 .. k /\ k - 1 = n /\ n \in 0 .. n
  OBVIOUS
<1>2. r \in Seq(Requests) /\ Len(r) = k /\ r[k] = x /\ \A i \in 1 .. n : r[i] = q[i]
  OBVIOUS
<1> HIDE DEF r
<1>3. PICK g : IsJoined(g, q, n) /\ Queued(q) = g[n]
  BY QueuedIs
<1> HIDE DEF n, k
<1>4. PICK h : IsJoined(h, r, k) /\ Queued(r) = h[k]
  BY <1>2, QueuedIs
<1>5. /\ g[0] = <<>>
      /\ \A i \in 1 .. n : g[i] = Join(g[i - 1], q[i].cmds)
  BY <1>1, <1>3, JoinedStep
<1>6. /\ h[0] = <<>>
      /\ \A i \in 1 .. k : h[i] = Join(h[i - 1], r[i].cmds)
  BY <1>1, <1>4, JoinedStep
<1>7. \A i \in 1 .. n : h[i] = Join(h[i - 1], q[i].cmds)
  <2>1. \A i \in 1 .. n : i \in 1 .. k
    BY <1>1
  <2> QED
    BY <1>2, <1>6, <2>1
<1>8. g[n] = h[n]
  <2>1. Grows(g, q, n) /\ Grows(h, q, n)
    BY <1>5, <1>7 DEF Grows
  <2> QED
    BY <1>1, <1>5, <1>6, <2>1, JoinedAgree
<1>9. h[k] = Join(h[n], x.cmds)
  BY <1>1, <1>2, <1>6
<1> QED
  BY <1>3, <1>4, <1>8, <1>9 DEF r

\* A new open batch at the end adds no command.
LEMMA QueuedOpen ==
    ASSUME NEW q \in Seq(Requests)
    PROVE  Queued(Append(q, EmptyRequest)) = Queued(q)
<1>1. EmptyRequest \in Requests /\ EmptyRequest.cmds = <<>>
  BY ConstantTypes DEF EmptyRequest
<1>2. Queued(Append(q, EmptyRequest)) = Join(Queued(q), <<>>)
  BY Zenon, <1>1, QueuedAppend
<1> QED
  BY <1>2, QueuedType, JoinEmpty

\* A command added to the last batch comes after all others.
LEMMA QueuedLast ==
    ASSUME NEW q \in Seq(Requests), q # <<>>, NEW c \in Cmd
    PROVE  LET r == [q EXCEPT ![Len(q)] = RequestAdd(@, c)]
           IN  /\ r \in Seq(Requests) /\ r # <<>>
               /\ Queued(r) = Append(Queued(q), c)
<1> DEFINE k == Len(q)
           n == k - 1
           x == q[k]
           y == RequestAdd(x, c)
           r == [q EXCEPT ![k] = y]
<1>1. n \in Nat /\ k \in Nat /\ k \in 1 .. k /\ n \in 0 .. k
  OBVIOUS
<1>2. x \in Requests
  OBVIOUS
<1> HIDE DEF x
<1>3. x.cmds \in Seq(Cmd) /\ Append(x.cmds, c) \in Seq(Cmd)
  BY <1>2, CmdsType
<1>4. y \in Requests /\ y.cmds = Append(x.cmds, c)
  <2>1. y \in Requests
    BY Zenon, <1>2, <1>3 DEF RequestAdd, Requests
  <2>2. y.cmds = Append(x.cmds, c)
    BY <1>2 DEF RequestAdd, Requests
  <2> QED
    BY <2>1, <2>2
<1> HIDE DEF y
<1>5. r \in Seq(Requests) /\ r # <<>> /\ Len(r) = k /\ r[k] = y /\ \A i \in 1 .. n : r[i] = q[i]
  BY <1>4
<1> HIDE DEF r
<1>6. PICK g : IsJoined(g, q, k) /\ Queued(q) = g[k]
  BY QueuedIs
<1>7. \A i \in 0 .. k : g[i] \in Seq(Cmd)
  BY <1>6, JoinedType
<1> HIDE DEF k
<1>8. PICK h : IsJoined(h, r, k) /\ Queued(r) = h[k]
  BY <1>5, QueuedIs
<1>9. /\ g[0] = <<>>
      /\ \A i \in 1 .. k : g[i] = Join(g[i - 1], q[i].cmds)
  BY <1>1, <1>6, JoinedStep
<1>10. /\ h[0] = <<>>
       /\ \A i \in 1 .. k : h[i] = Join(h[i - 1], r[i].cmds)
  BY <1>1, <1>8, JoinedStep
<1>11. g[n] = h[n]
  <2>1. \A i \in 1 .. n : i \in 1 .. k
    BY <1>1
  <2>2. \A i \in 1 .. n : h[i] = Join(h[i - 1], q[i].cmds)
    BY <1>5, <1>10, <2>1
  <2>3. \A i \in 1 .. n : g[i] = Join(g[i - 1], q[i].cmds)
    BY <1>9, <2>1
  <2> HIDE DEF n
  <2>4. Grows(g, q, n) /\ Grows(h, q, n)
    BY <2>2, <2>3 DEF Grows
  <2> QED
    BY <1>1, <1>9, <1>10, <2>4, JoinedAgree
<1>12. g[k] = Join(g[n], x.cmds)
  BY <1>1, <1>9 DEF x
<1>13. h[k] = Join(g[n], Append(x.cmds, c))
  BY Zenon, <1>1, <1>4, <1>5, <1>10, <1>11
<1>14. Join(g[n], Append(x.cmds, c)) = Append(Join(g[n], x.cmds), c)
  <2> DEFINE a == g[n]
             b == x.cmds
  <2>1. a \in Seq(Cmd) /\ b \in Seq(Cmd)
    BY <1>1, <1>3, <1>7
  <2> HIDE DEF a, b
  <2>2. Join(a, Append(b, c)) = Append(Join(a, b), c)
    BY <2>1 DEF Join
  <2> QED
    BY <2>2 DEF a, b
<1>15. Queued(r) = Append(Queued(q), c)
  BY <1>6, <1>8, <1>12, <1>13, <1>14
<1> QED
  BY Zenon, <1>5, <1>15 DEF r, y, x, k

\* RequestDispatcher::add, whatever batches it opens, queues the command last.
LEMMA QueuedAdd ==
    ASSUME NEW q \in Seq(Requests), q # <<>>, NEW c \in Cmd
    PROVE  Queued(QueueAfterAdd(q, c)) = Append(Queued(q), c)
<1> DEFINE q1 == IF Len(q[Len(q)].cmds) >= MAX_COMMANDS THEN Append(q, EmptyRequest) ELSE q
           q2 == IF c \in BatchSeparately /\ q1[Len(q1)].cmds # <<>>
                 THEN Append(q1, EmptyRequest) ELSE q1
           q3 == [q2 EXCEPT ![Len(q2)] = RequestAdd(@, c)]
           q4 == IF c \in BatchSeparately THEN Append(q3, EmptyRequest) ELSE q3
<1>0. QueueAfterAdd(q, c) = q4
  BY DEF QueueAfterAdd
<1>1. ASSUME NEW r \in Seq(Requests), r # <<>>
      PROVE  LET s == Append(r, EmptyRequest)
             IN  s \in Seq(Requests) /\ s # <<>> /\ Queued(s) = Queued(r)
  <2>1. Append(r, EmptyRequest) \in Seq(Requests) /\ Append(r, EmptyRequest) # <<>>
    BY ConstantTypes
  <2> QED
    BY <2>1, QueuedOpen
<1>2. q1 \in Seq(Requests) /\ q1 # <<>> /\ Queued(q1) = Queued(q)
  BY <1>1
<1> HIDE DEF q1
<1>3. q2 \in Seq(Requests) /\ q2 # <<>> /\ Queued(q2) = Queued(q)
  BY <1>1, <1>2
<1> HIDE DEF q2
<1>4. q3 \in Seq(Requests) /\ q3 # <<>> /\ Queued(q3) = Append(Queued(q), c)
  BY Zenon, <1>3, QueuedLast
<1> HIDE DEF q3
<1>5. Queued(q4) = Queued(q3)
  BY <1>1, <1>4
<1> QED
  BY <1>0, <1>4, <1>5

\* A cleared queue holds no command.
LEMMA QueuedEmpty == Queued(<<EmptyRequest>>) = <<>>
<1> DEFINE e == <<>>
<1>1. e \in Seq(Requests) /\ e \in Seq(Cmd) /\ Append(e, EmptyRequest) = <<EmptyRequest>>
  OBVIOUS
<1>2. Queued(e) = <<>>
  <2> HIDE DEF e
  <2>1. PICK g : IsJoined(g, e, Len(e)) /\ Queued(e) = g[Len(e)]
    BY <1>1, QueuedIs
  <2>2. Len(e) = 0
    BY DEF e
  <2> QED
    BY <2>1, <2>2, JoinedStep
<1> HIDE DEF e
<1> QED
  BY Zenon, <1>1, <1>2, QueuedOpen

\* serverrequest takes the commands at the front.
LEMMA QueuedPop ==
    ASSUME NEW q \in Seq(Requests), q # <<>>
    PROVE  Queued(q) = Join(q[1].cmds, Queued(PopFront(q)))
<1> DEFINE n == Len(q)
           t == Tail(q)
           b == q[1].cmds
<1>1. n \in Nat /\ n # 0 /\ n \in 0 .. n /\ 1 \in 1 .. n /\ q[1] \in Requests
  OBVIOUS
<1>2. b \in Seq(Cmd)
  BY <1>1, CmdsType
<1>3. PICK g : IsJoined(g, q, n) /\ Queued(q) = g[n]
  BY QueuedIs
<1>4. \A i \in 0 .. n : g[i] \in Seq(Cmd)
  BY <1>3, JoinedType
<1>a. t \in Seq(Requests) /\ Len(t) = n - 1 /\ \A i \in 1 .. n - 1 : t[i] = q[i + 1]
  BY HeadTailProperties
<1>b. PopFront(q) = IF n = 1 THEN <<EmptyRequest>> ELSE t
  BY DEF PopFront
<1> HIDE DEF n, t, b
<1>5. /\ g[0] = <<>>
      /\ \A i \in 1 .. n : g[i] = Join(g[i - 1], q[i].cmds)
  BY <1>1, <1>3, JoinedStep
<1>6. g[1] = b
  <2>1. g[1] = Join(<<>>, b)
    <3>1. 1 - 1 = 0
      OBVIOUS
    <3> QED
      BY <1>1, <1>5, <3>1 DEF b
  <2> QED
    BY <1>2, <2>1, JoinEmpty
<1>7. CASE n = 1
  BY ZenonT(30), <1>2, <1>3, <1>6, <1>7, <1>b, QueuedEmpty, JoinEmpty DEF b
<1>8. CASE n # 1
  <2> DEFINE m == n - 1
  <2>1. m \in Nat /\ m \in 0 .. m /\ 0 \in 0 .. m /\ m + 1 = n /\ 0 + 1 = 1
    BY <1>1, <1>8
  <2>2. PICK h : IsJoined(h, t, m) /\ Queued(t) = h[m]
    BY <1>a, QueuedIs
  <2>3. \A i \in 0 .. m : h[i] \in Seq(Cmd)
    BY Zenon, <1>a, <2>2, JoinedType
  <2> HIDE DEF m
  <2>4. /\ h[0] = <<>>
        /\ \A i \in 1 .. m : h[i] = Join(h[i - 1], t[i].cmds)
    BY ZenonT(30), <2>1, <2>2, JoinedStep
  <2> DEFINE e == [i \in 0 .. m |-> Join(b, h[i])]
             f == [i \in 0 .. m |-> g[i + 1]]
  <2>5. e[0] = f[0]
    <3>1. e[0] = Join(b, <<>>) /\ f[0] = g[1]
      BY <2>1, <2>4
    <3> QED
      BY Zenon, <1>2, <1>6, <3>1, JoinEmpty
  <2>6. ASSUME NEW i \in 1 .. m PROVE f[i] = Join(f[i - 1], t[i].cmds)
    <3>1. i \in 0 .. m /\ i - 1 \in 0 .. m /\ i + 1 \in 1 .. n /\ i - 1 + 1 = i /\ i + 1 - 1 = i
          /\ i \in 1 .. n - 1
      BY <1>1, <2>1
    <3>2. g[i + 1] = Join(g[i], q[i + 1].cmds)
      BY <1>5, <3>1
    <3>3. f[i] = g[i + 1] /\ f[i - 1] = g[i] /\ t[i] = q[i + 1]
      BY Zenon, <1>a, <3>1
    <3> QED
      BY <3>2, <3>3
  <2>7. ASSUME NEW i \in 1 .. m PROVE e[i] = Join(e[i - 1], t[i].cmds)
    <3>1. i \in 0 .. m /\ i - 1 \in 0 .. m
      BY <2>1
    <3>2. e[i] = Join(b, h[i]) /\ e[i - 1] = Join(b, h[i - 1]) /\ h[i] = Join(h[i - 1], t[i].cmds)
      BY <2>4, <3>1
    <3>3. h[i - 1] \in Seq(Cmd)
      BY <2>3, <3>1
    <3>4. t[i].cmds \in Seq(Cmd)
      <4>1. t[i] \in Requests
        BY <1>a DEF m
      <4> QED
        BY <4>1, CmdsType
    <3> DEFINE x == h[i - 1]
               y == t[i].cmds
    <3>5. x \in Seq(Cmd) /\ y \in Seq(Cmd)
      BY <3>3, <3>4
    <3> HIDE DEF x, y
    <3>6. Join(Join(b, x), y) = Join(b, Join(x, y))
      BY Zenon, <1>2, <3>5, JoinAssociative
    <3> QED
      BY <3>2, <3>6 DEF x, y
  <2> HIDE DEF e, f
  <2>8. e[m] = f[m]
    <3>1. Grows(e, t, m) /\ Grows(f, t, m)
      BY <2>6, <2>7 DEF Grows
    <3> QED
      BY ZenonT(30), <2>1, <2>5, <3>1, JoinedAgree
  <2>9. e[m] = Join(b, h[m]) /\ f[m] = g[n]
    BY <2>1 DEF e, f
  <2> QED
    BY Zenon, <1>3, <1>8, <1>b, <2>2, <2>8, <2>9 DEF b
<1> QED
  BY <1>7, <1>8
-----------------------------------------------------------------------------
(* What the commands wait for *)

\* The results still to come of a batch, as they are handed out one by one.
LEMMA RestFacts ==
    ASSUME NEW s \in Seq(Cmd), NEW i \in Nat, i <= Len(s)
    PROVE  /\ Rest(s, i) \in Seq(Cmd)
           /\ i = 0 => Rest(s, i) = s
           /\ i = Len(s) => Rest(s, i) = <<>>
           /\ i < Len(s) => /\ Rest(s, i) # <<>>
                            /\ Head(Rest(s, i)) = s[i + 1]
                            /\ Tail(Rest(s, i)) = Rest(s, i + 1)
<1>1. Rest(s, i) \in Seq(Cmd) /\ Len(Rest(s, i)) = Len(s) - i
      /\ \A k \in 1 .. Len(s) - i : Rest(s, i)[k] = s[i + k]
  BY DEF Rest
<1>2. i = 0 => Rest(s, i) = s
  BY <1>1, SeqEqual
<1>3. i = Len(s) => Rest(s, i) = <<>>
  BY <1>1
<1>4. ASSUME i < Len(s)
      PROVE  Rest(s, i) # <<>> /\ Head(Rest(s, i)) = s[i + 1] /\ Tail(Rest(s, i)) = Rest(s, i + 1)
  <2>1. Rest(s, i) # <<>> /\ Head(Rest(s, i)) = s[i + 1]
    BY <1>1, <1>4
  <2>2. /\ Rest(s, i + 1) \in Seq(Cmd) /\ Len(Rest(s, i + 1)) = Len(s) - i - 1
        /\ \A k \in 1 .. Len(s) - i - 1 : Rest(s, i + 1)[k] = s[i + 1 + k]
    BY <1>4 DEF Rest
  <2> DEFINE r == Rest(s, i)
             u == Rest(s, i + 1)
             t == Tail(r)
  <2> HIDE DEF r, u
  <2>3. t \in Seq(Cmd) /\ Len(t) = Len(r) - 1 /\ \A k \in 1 .. Len(t) : t[k] = r[k + 1]
    BY Zenon, <1>1, <2>1, HeadTailProperties DEF r
  <2> HIDE DEF t
  <2>4. Len(t) = Len(s) - i - 1 /\ Len(u) = Len(s) - i - 1 /\ u \in Seq(Cmd)
    BY Zenon, <1>1, <2>2, <2>3 DEF r, u
  <2>5. ASSUME NEW k \in 1 .. Len(s) - i - 1 PROVE t[k] = u[k]
    <3>1. t[k] = r[k + 1] /\ u[k] = s[i + 1 + k]
      BY Zenon, <2>2, <2>3, <2>4 DEF u
    <3>2. k + 1 \in 1 .. Len(s) - i
      BY <1>4
    <3>3. r[k + 1] = s[i + (k + 1)]
      BY <1>1, <3>2 DEF r
    <3>4. i + (k + 1) = i + 1 + k
      OBVIOUS
    <3> QED
      BY <3>1, <3>3, <3>4
  <2>6. t = u
    BY Zenon, <2>3, <2>4, <2>5, SeqEqual
  <2> QED
    BY <2>1, <2>6 DEF t, u, r
<1> QED
  BY <1>1, <1>2, <1>3, <1>4

\* The head and the tail of joined sequences.
LEMMA JoinHead ==
    ASSUME NEW s \in Seq(Cmd), s # <<>>, NEW t \in Seq(Cmd)
    PROVE  /\ Join(s, t) # <<>>
           /\ Head(Join(s, t)) = Head(s)
           /\ Tail(Join(s, t)) = Join(Tail(s), t)
<1>1. Join(s, t) \in Seq(Cmd) /\ Len(Join(s, t)) = Len(s) + Len(t) /\ Len(s) > 0
      /\ \A i \in 1 .. Len(s) + Len(t) :
             Join(s, t)[i] = IF i <= Len(s) THEN s[i] ELSE t[i - Len(s)]
  BY DEF Join
<1>2. Join(s, t) # <<>> /\ Head(Join(s, t)) = Head(s)
  BY <1>1
<1> DEFINE j == Join(s, t)
           u == Tail(j)
           r == Tail(s)
           v == Join(r, t)
<1>3. r \in Seq(Cmd) /\ Len(r) = Len(s) - 1 /\ \A i \in 1 .. Len(r) : r[i] = s[i + 1]
  BY HeadTailProperties
<1> HIDE DEF j, r
<1>4. u \in Seq(Cmd) /\ Len(u) = Len(j) - 1 /\ \A i \in 1 .. Len(u) : u[i] = j[i + 1]
  BY <1>1, <1>2, HeadTailProperties DEF j
<1>5. v \in Seq(Cmd) /\ Len(v) = Len(r) + Len(t)
      /\ \A i \in 1 .. Len(r) + Len(t) : v[i] = IF i <= Len(r) THEN r[i] ELSE t[i - Len(r)]
  <2>1. r \in Seq(Cmd)
    BY <1>3
  <2> QED
    BY <2>1 DEF Join
<1> HIDE DEF u, v
<1>6. Len(u) = Len(v)
  BY <1>1, <1>3, <1>4, <1>5 DEF j
<1>7. ASSUME NEW i \in 1 .. Len(u) PROVE u[i] = v[i]
  <2>1. i + 1 \in 1 .. Len(s) + Len(t) /\ i \in 1 .. Len(r) + Len(t) /\ u[i] = j[i + 1]
    <3>1. Len(u) = Len(s) + Len(t) - 1 /\ Len(r) + Len(t) = Len(s) + Len(t) - 1 /\ Len(s) + Len(t) \in Nat
      BY <1>3, <1>5, <1>6
    <3>2. i + 1 \in 1 .. Len(s) + Len(t) /\ i \in 1 .. Len(r) + Len(t)
      BY <3>1
    <3> QED
      BY Zenon, <1>4, <3>2
  <2>2. CASE i <= Len(r)
    <3>1. i + 1 <= Len(s) /\ i \in 1 .. Len(r)
      BY <1>3, <2>2
    <3> QED
      BY ZenonT(30), <1>1, <1>3, <1>5, <2>1, <2>2, <3>1 DEF j
  <2>3. CASE ~(i <= Len(r))
    <3>1. ~(i + 1 <= Len(s)) /\ i + 1 - Len(s) = i - Len(r)
      BY <1>3, <2>1, <2>3
    <3>2. j[i + 1] = t[i + 1 - Len(s)]
      <4>1. \A k \in 1 .. Len(s) + Len(t) : k <= Len(s) \/ j[k] = t[k - Len(s)]
        BY <1>1 DEF j
      <4>2. i + 1 \in 1 .. Len(s) + Len(t) /\ ~(i + 1 <= Len(s))
        BY Zenon, <2>1, <3>1
      <4> QED
        BY <4>1, <4>2
    <3>3. v[i] = t[i - Len(r)]
      BY Zenon, <1>5, <2>1, <2>3
    <3> QED
      BY Zenon, <2>1, <3>1, <3>2, <3>3
  <2> QED
    BY Zenon, <2>2, <2>3
<1>8. u = v
  BY ZenonT(30), <1>4, <1>5, <1>6, <1>7, SeqEqual
<1> QED
  BY <1>2, <1>8 DEF u, v, j, r

\* Pending: the rest of the batch in flight, then the queue.
LEMMA PendingIs == Pending = Join(Rest(inflightreq.cmds, processindex), Queued(nextreqs))
BY DEF Pending

\* The same after a step.
LEMMA PendingIsNext ==
    Pending' = Join(Rest(inflightreq'.cmds, processindex'), Queued(nextreqs'))
BY DEF Pending
-----------------------------------------------------------------------------
(* The invariant *)

\* A result that reports success was computed by the API; a postponed clear()
\* stops the processing; a chunked reply answers one command; a batch that is
\* not being processed has handed out no result.
AnswerInv ==
    /\ clearWhenSafe = stopProcessing
    /\ processindex > 0 => processing \/ mCurrentSeqtag
    /\ pendingcs.in = "[" => [id |-> pendingcs.id, out |-> pendingcs.results] \in served
    /\ jsonresponse.kind = "[" => \E m \in served : m.out = jsonresponse.cmds
    /\ pendingcs.mChunked /\ inflightreq.cmds # <<>> => Len(inflightreq.cmds) = 1
    /\ pendingcs.bufpos > 0 => pendingcs.mChunked

AnswerVars == <<clearWhenSafe, stopProcessing, processindex, processing, mCurrentSeqtag,
                pendingcs, served, jsonresponse, inflightreq>>

\* Steps that touch none of its variables keep AnswerInv.
LEMMA AnswerFrame == ASSUME AnswerInv, UNCHANGED AnswerVars PROVE AnswerInv'
BY DEF AnswerInv, AnswerVars

\* A deleted HTTP request carries no reply.
LEMMA NoHttpReqFields ==
    ASSUME NEW p, p = NoHttpReq
    PROVE  p.in # "[" /\ ~p.mChunked /\ ~(p.bufpos > 0)
<1>1. p.in # "["
  BY DEF NoHttpReq
<1>2. ~p.mChunked
  BY DEF NoHttpReq
<1>3. ~(p.bufpos > 0)
  <2>1. p.bufpos = 0
    BY DEF NoHttpReq
  <2> QED
    BY <2>1
<1> QED
  BY ZenonT(30), <1>1, <1>2, <1>3

\* Nothing is left to answer once the batch in flight is wiped.
LEMMA AnswerReset ==
    ASSUME clearWhenSafe' = FALSE, stopProcessing' = FALSE, processindex' = 0,
           jsonresponse'.kind # "[", inflightreq'.cmds = <<>>,
           pendingcs'.in = "[" => [id |-> pendingcs'.id, out |-> pendingcs'.results] \in served',
           pendingcs'.bufpos > 0 => pendingcs'.mChunked
    PROVE  AnswerInv'
<1>1. clearWhenSafe' = stopProcessing'
  BY ZenonT(30)
<1>2. ~(processindex' > 0)
  OBVIOUS
<1> QED
  BY <1>1, <1>2 DEF AnswerInv

\* Every step of the dispatcher, the HTTP layer and the API keeps AnswerInv.
LEMMA AnswerStep == ASSUME IInv, AnswerInv, Next PROVE AnswerInv'
<1>0. TypeOK /\ PhaseInv
  BY DEF IInv
<1>a. /\ pendingcs \in HttpReqs /\ inflightreq \in Requests /\ jsonresponse \in Responses
      /\ stopProcessing \in BOOLEAN /\ clearWhenSafe \in BOOLEAN /\ processindex \in Nat
      /\ served \subseteq Messages
  BY <1>0 DEF TypeOK
<1>r. ASSUME ResetRequest
      PROVE  /\ inflightreq'.cmds = <<>> /\ jsonresponse'.kind = "none"
             /\ processindex' = 0 /\ stopProcessing' = FALSE
  BY <1>0, <1>r, ResetRequestType DEF NoResponse
<1>1. ASSUME NEW c \in Cmd, Add(c) PROVE AnswerInv'
  BY <1>1, AnswerFrame DEF Add, AnswerVars, request, flags
<1>2. ASSUME NEW m \in wire, ApiExecutes(m) PROVE AnswerInv'
  <2>1. served \subseteq served' /\ UNCHANGED <<dispatcher, pendingcs>>
    BY <1>2 DEF ApiExecutes
  <2> QED
    BY <2>1 DEF AnswerInv, dispatcher, request, flags
<1>3. ASSUME NEW m \in served, ApiReplies(m) PROVE AnswerInv'
  <2>1. m \in Messages /\ m = [id |-> m.id, out |-> m.out]
    BY <1>a DEF Messages
  <2>2. /\ pendingcs'.id = m.id /\ pendingcs'.results = m.out
        /\ pendingcs'.mChunked = pendingcs.mChunked /\ pendingcs'.bufpos = pendingcs.bufpos
    BY <1>3, <1>a DEF ApiReplies, HttpReqs
  <2>3. UNCHANGED <<served, dispatcher>>
    BY <1>3 DEF ApiReplies
  <2> QED
    BY ZenonT(30), <2>1, <2>2, <2>3 DEF AnswerInv, dispatcher, request, flags
<1>4. ASSUME NEW e \in {"-3", "-4", "error"}, ApiRefuses(e) PROVE AnswerInv'
  <2>1. /\ pendingcs'.in = e
        /\ pendingcs'.mChunked = pendingcs.mChunked /\ pendingcs'.bufpos = pendingcs.bufpos
    BY <1>4, <1>a DEF ApiRefuses, HttpReqs
  <2>2. UNCHANGED <<served, dispatcher>>
    BY Zenon, <1>4 DEF ApiRefuses
  <2> QED
    BY <2>1, <2>2 DEF AnswerInv, dispatcher, request, flags
<1>5. ASSUME NEW why \in {"network", "ssl"}, HttpFails(why) PROVE AnswerInv'
  <2>1. /\ pendingcs'.in = why
        /\ pendingcs'.mChunked = pendingcs.mChunked /\ pendingcs'.bufpos = pendingcs.bufpos
    BY <1>5, <1>a DEF HttpFails, HttpReqs
  <2>2. UNCHANGED <<served, dispatcher>>
    BY Zenon, <1>5 DEF HttpFails
  <2> QED
    BY <2>1, <2>2 DEF AnswerInv, dispatcher, request, flags
<1>6. CASE ChunkArrives
  <2>1. /\ pendingcs.mChunked /\ pendingcs'.mChunked = pendingcs.mChunked
        /\ pendingcs'.in = pendingcs.in /\ pendingcs'.id = pendingcs.id
        /\ pendingcs'.results = pendingcs.results
    BY <1>6, <1>a DEF ChunkArrives, HttpReqs
  <2>2. UNCHANGED <<served, dispatcher>>
    BY <1>6 DEF ChunkArrives
  <2> QED
    BY <2>1, <2>2 DEF AnswerInv, dispatcher, request, flags
<1>7. CASE ServerRequest
  <2>1. /\ pendingcs'.in = "" /\ pendingcs'.bufpos = 0
        /\ pendingcs'.mChunked = IsFetchNodes(inflightreq')
        /\ UNCHANGED <<request, flags, served>>
    BY <1>7 DEF ServerRequest, NoHttpReq
  <2>2. pendingcs'.in # "["
    BY <2>1
  <2>3. ~(pendingcs'.bufpos > 0)
    <3>1. pendingcs'.bufpos = 0
      BY <2>1
    <3> QED
      BY <3>1
  <2>4. pendingcs'.mChunked => Len(inflightreq'.cmds) = 1
    BY <2>1 DEF IsFetchNodes
  <2> QED
    BY ZenonT(30), <2>1, <2>2, <2>3, <2>4 DEF AnswerInv, request, flags
<1>8. CASE BackoffExpires
  BY ZenonT(30), <1>8, AnswerFrame DEF BackoffExpires, AnswerVars, request, flags
<1>9. CASE ServerResponse
  <2>1. /\ processing' = TRUE /\ jsonresponse' = [kind |-> "[", cmds |-> pendingcs.results]
        /\ pendingcs.in = "[" /\ pendingcs' = NoHttpReq
        /\ UNCHANGED <<inflightreq, processindex, stopProcessing, clearWhenSafe, served>>
    BY <1>9 DEF ServerResponse
  <2>2. [id |-> pendingcs.id, out |-> pendingcs.results] \in served
    BY <2>1 DEF AnswerInv
  <2>3. pendingcs'.in # "[" /\ ~pendingcs'.mChunked /\ ~(pendingcs'.bufpos > 0)
    BY Zenon, <2>1, NoHttpReqFields
  <2> QED
    BY ZenonT(30), <2>1, <2>2, <2>3 DEF AnswerInv
<1>10. CASE ServerError
  <2>1. pendingcs' = NoHttpReq
    BY <1>10 DEF ServerError
  <2>2. pendingcs'.in # "[" /\ ~pendingcs'.mChunked /\ ~(pendingcs'.bufpos > 0)
    BY ZenonT(30), <2>1, NoHttpReqFields
  <2> QED
    BY ZenonT(30), <1>10, <2>2 DEF ServerError, AnswerInv
<1>11. CASE ExecFailure \/ HeartbeatTimeout
  <2>1. pendingcs' = NoHttpReq /\ UNCHANGED <<inflightreq, request, flags, served>>
    BY <1>11 DEF ExecFailure, HeartbeatTimeout, InflightFailure
  <2>2. pendingcs'.in # "[" /\ ~pendingcs'.mChunked /\ ~(pendingcs'.bufpos > 0)
    BY <2>1, NoHttpReqFields
  <2> QED
    BY <2>1, <2>2 DEF AnswerInv, request, flags
<1>12. CASE ServerChunk \/ LastServerChunk
  <2>1. /\ ProcessChunk /\ pendingcs.status # "null" /\ ~processing
        /\ UNCHANGED <<mCurrentSeqtag, flags, served>>
    BY <1>12 DEF ServerChunk, LastServerChunk
  <2>2. /\ pendingcs'.in = "[" => /\ pendingcs.in = "[" /\ pendingcs'.id = pendingcs.id
                                  /\ pendingcs'.results = pendingcs.results
        /\ pendingcs'.mChunked => pendingcs.mChunked
        /\ pendingcs'.bufpos > 0 => pendingcs.bufpos > 0 /\ (pendingcs.mChunked => pendingcs'.mChunked)
    <3>1. CASE pendingcs' = NoHttpReq
      <4>1. pendingcs'.in # "[" /\ ~pendingcs'.mChunked /\ ~(pendingcs'.bufpos > 0)
        BY <3>1, NoHttpReqFields
      <4> QED
        BY <4>1
    <3>2. CASE pendingcs' = [pendingcs EXCEPT !.notifiedbufpos = pendingcs.bufpos]
      BY <3>2, <1>a DEF HttpReqs
    <3> QED
      BY ZenonT(30), <1>12, <3>1, <3>2 DEF ServerChunk, LastServerChunk
  <2>3. ResetRequest \/ UNCHANGED <<inflightreq, jsonresponse, processindex, stopProcessing>>
    BY Zenon, <2>1, ProcessChunkType
  <2>4. stopProcessing = FALSE /\ clearWhenSafe = FALSE
    BY Zenon, <1>0, <1>a, <2>1 DEF PhaseInv, AnswerInv
  <2>5. CASE ResetRequest
    <3>1. inflightreq'.cmds = <<>> /\ jsonresponse'.kind # "[" /\ processindex' = 0
          /\ stopProcessing' = FALSE
      BY <1>r, <2>5
    <3>2. clearWhenSafe' = FALSE
      BY <2>1, <2>4 DEF flags
    <3>3. pendingcs'.in = "[" => [id |-> pendingcs'.id, out |-> pendingcs'.results] \in served'
      BY <2>1, <2>2 DEF AnswerInv
    <3>4. pendingcs'.bufpos > 0 => pendingcs'.mChunked
      BY Zenon, <2>2 DEF AnswerInv
    <3> QED
      BY Zenon, <3>1, <3>2, <3>3, <3>4, AnswerReset
  <2>6. CASE UNCHANGED <<inflightreq, jsonresponse, processindex, stopProcessing>>
    BY ZenonT(30), <2>1, <2>2, <2>6 DEF AnswerInv, flags
  <2> QED
    BY ZenonT(30), <2>3, <2>5, <2>6
<1>13. CASE PauseForSeqTag \/ ContinueProcessing
  BY Zenon, <1>13 DEF PauseForSeqTag, ContinueProcessing, AnswerInv, request
<1>14. CASE EndProcessing \/ LocalLogout
  <2>1. /\ ResetRequest /\ served' = served /\ (pendingcs' = pendingcs \/ pendingcs' = NoHttpReq)
        /\ clearWhenSafe' = FALSE
    BY <1>14, <1>a DEF EndProcessing, LeaveProcessing, LocalLogout, DispatcherClear
  <2>r. inflightreq'.cmds = <<>> /\ jsonresponse'.kind # "[" /\ processindex' = 0
        /\ stopProcessing' = FALSE
    BY Zenon, <1>r, <2>1
  <2>2. CASE pendingcs' = pendingcs
    <3>1. pendingcs'.in = "[" => [id |-> pendingcs'.id, out |-> pendingcs'.results] \in served'
      BY <2>1, <2>2 DEF AnswerInv
    <3>2. pendingcs'.bufpos > 0 => pendingcs'.mChunked
      BY <2>1, <2>2 DEF AnswerInv
    <3> QED
      BY Zenon, <2>1, <2>r, <3>1, <3>2, AnswerReset
  <2>3. CASE pendingcs' = NoHttpReq
    <3>1. pendingcs'.in # "[" /\ ~pendingcs'.mChunked /\ ~(pendingcs'.bufpos > 0)
      BY <2>3, NoHttpReqFields
    <3> QED
      BY Zenon, <2>1, <2>r, <3>1, AnswerReset
  <2> QED
    BY ZenonT(30), <2>1, <2>2, <2>3
<1>15. ASSUME NEW logout \in BOOLEAN, ProcResult(logout) PROVE AnswerInv'
  <2>1. processing
    BY <1>15 DEF ProcResult, Unfinished
  <2> QED
    BY <1>15, <2>1 DEF ProcResult, AnswerInv
<1> QED
  BY <1>1, <1>2, <1>3, <1>4, <1>5, <1>6, <1>7, <1>8, <1>9, <1>10, <1>11, <1>12, <1>13, <1>14,
     <1>15 DEF Next, ApiStep, ExecStep
-----------------------------------------------------------------------------
(* The steps *)

\* Cardinality, for the two sets that matter.
LEMMA CardinalityFacts ==
    ASSUME NEW m
    PROVE  Cardinality({}) = 0 /\ Cardinality({m}) = 1
<1> DEFINE IsCard(g, S) ==
               g = [T \in SUBSET S |-> IF T = {} THEN 0 ELSE 1 + g[T \ {CHOOSE x : x \in T}]]
<1>1. Cardinality({}) = 0
  <2> DEFINE f == CHOOSE g : IsCard(g, {})
  <2>1. IsCard([T \in SUBSET {} |-> 0], {})
    OBVIOUS
  <2>2. IsCard(f, {})
    BY <2>1
  <2>3. Cardinality({}) = f[{}]
    BY DEF Cardinality
  <2> QED
    BY Zenon, <2>2, <2>3
<1>2. Cardinality({m}) = 1
  <2> DEFINE f == CHOOSE g : IsCard(g, {m})
             h == [T \in SUBSET {m} |-> IF T = {} THEN 0 ELSE 1]
  <2>0. \A T \in SUBSET {m} : T # {} => T = {m}
    OBVIOUS
  <2>a. {m} \ {CHOOSE x : x \in {m}} = {}
    OBVIOUS
  <2>1. IsCard(h, {m})
    <3>1. ASSUME NEW T \in SUBSET {m}
          PROVE  h[T] = IF T = {} THEN 0 ELSE 1 + h[T \ {CHOOSE x : x \in T}]
      BY <2>0, <2>a
    <3> QED
      BY <3>1
  <2> HIDE DEF h
  <2>2. IsCard(f, {m})
    BY Zenon, <2>1
  <2>3. Cardinality({m}) = f[{m}]
    BY DEF Cardinality
  <2>4. f[{}] = 0
    BY Zenon, <2>2
  <2>5. f[{m}] = 1 + f[{}]
    BY Zenon, <2>2, <2>a
  <2> QED
    BY <2>3, <2>4, <2>5
<1> QED
  BY Zenon, <1>1, <1>2

\* The API has executed a command never or once.
LEMMA CountIs ==
    ASSUME IInv, NEW c \in Cmd
    PROVE  /\ Counts[c] \in {0, 1}
           /\ Counts[c] = 0 <=> Executions(c) = {}
<1>1. \A m, n \in Executions(c) : m = n
  <2> SUFFICES ASSUME NEW m \in Executions(c), NEW n \in Executions(c), m # n PROVE FALSE
    OBVIOUS
  <2>1. m \in Msgs /\ n \in Msgs /\ c \in Commands(m.out) /\ c \in Commands(n.out)
    BY DEF Executions, Msgs
  <2> QED
    BY <2>1 DEF IInv, MsgInv
<1>2. CASE Executions(c) = {}
  BY Zenon, <1>2, CardinalityFacts DEF Counts
<1>3. ASSUME NEW m \in Executions(c) PROVE Counts[c] = 1
  <2>1. Executions(c) = {m}
    BY <1>1
  <2> QED
    BY <2>1, CardinalityFacts DEF Counts
<1> QED
  BY <1>2, <1>3

\* Only the API executes commands.
LEMMA CountsFrame == ASSUME served' = served PROVE Counts' = Counts
BY DEF Counts, Executions

\* A step that leaves the queue, the results and the API alone is invisible.
LEMMA Stutters ==
    ASSUME UNCHANGED <<fresh, Pending, completed, served, clearWhenSafe>>
    PROVE  UNCHANGED Queue!vars
BY CountsFrame DEF Queue!vars, Counts

\* None of the variables the queue is read from changes.
Same == UNCHANGED <<fresh, nextreqs, inflightreq, processindex, completed, served, clearWhenSafe>>

\* So is one that leaves the dispatcher's own variables alone.
LEMMA SameStutters == ASSUME Same PROVE UNCHANGED Queue!vars
BY Stutters DEF Same, Pending

\* An empty batch in flight contributes no command.
LEMMA EmptyFacts ==
    /\ Rest(<<>>, 0) = <<>>
    /\ Join(<<>>, <<>>) = <<>>
    /\ \A t \in Seq(Cmd) : Join(<<>>, t) = t
<1> DEFINE e == <<>>
<1>1. e \in Seq(Cmd) /\ Len(e) = 0 /\ 0 \in Nat /\ 0 <= Len(e)
  OBVIOUS
<1> HIDE DEF e
<1>2. Rest(e, 0) = e
  BY Zenon, <1>1, RestFacts
<1>3. ASSUME NEW t \in Seq(Cmd) PROVE Join(<<>>, t) = t
  BY JoinEmpty
<1>4. Join(<<>>, e) = e
  BY ZenonT(30), <1>1, <1>3
<1> QED
  BY Zenon, <1>2, <1>3, <1>4 DEF e

\* What IInv says of the variables behind Pending.
LEMMA Facts ==
    ASSUME IInv
    PROVE  /\ inflightreq \in Requests /\ inflightreq.cmds \in Seq(Cmd)
           /\ Len(inflightreq.cmds) \in Nat
           /\ nextreqs \in Seq(Requests) /\ nextreqs # <<>>
           /\ processindex \in Nat /\ processindex <= Len(inflightreq.cmds)
           /\ fresh \subseteq Cmd /\ clearWhenSafe \in BOOLEAN
           /\ Queued(nextreqs) \in Seq(Cmd)
           /\ Rest(inflightreq.cmds, processindex) \in Seq(Cmd)
<1>1. /\ inflightreq \in Requests
      /\ nextreqs \in Seq(Requests) /\ nextreqs # <<>>
      /\ processindex \in Nat /\ processindex <= Len(inflightreq.cmds)
      /\ fresh \subseteq Cmd /\ clearWhenSafe \in BOOLEAN
  BY DEF IInv, TypeOK, PhaseInv
<1>2. inflightreq.cmds \in Seq(Cmd)
  BY <1>1 DEF Requests
<1>3. Len(inflightreq.cmds) \in Nat
  BY <1>2
<1> QED
  BY <1>1, <1>2, <1>3, QueuedType, RestFacts

\* queueCommand enqueues the command at the end.
LEMMA AddRefines ==
    ASSUME IInv, NEW c \in Cmd, Add(c) PROVE Queue!Enqueue(c)
<1>1. /\ c \in fresh /\ fresh' = fresh \ {c} /\ nextreqs' = QueueAfterAdd(nextreqs, c)
      /\ UNCHANGED <<inflightreq, processindex, completed, served, clearWhenSafe>>
  BY DEF Add, request, flags
<1>2. Queued(nextreqs') = Append(Queued(nextreqs), c)
  BY ZenonT(30), <1>1, Facts, QueuedAdd
<1>3. Pending' = Append(Pending, c)
  <2> DEFINE r == Rest(inflightreq.cmds, processindex)
             t == Queued(nextreqs)
  <2>1. r \in Seq(Cmd) /\ t \in Seq(Cmd)
    BY Zenon, Facts
  <2>2. Pending = Join(r, t) /\ Pending' = Join(r, Append(t, c))
    BY ZenonT(30), <1>1, <1>2, PendingIs, PendingIsNext
  <2> HIDE DEF r, t
  <2>3. Join(r, Append(t, c)) = Append(Join(r, t), c)
    BY <2>1 DEF Join
  <2> QED
    BY Zenon, <2>2, <2>3
<1> QED
  BY ZenonT(30), <1>1, <1>3, CountsFrame DEF Queue!Enqueue, Counts

\* serverrequest moves commands from the queue into the batch in flight, or posts
\* the same batch again: the queue as a whole is unchanged.
LEMMA ServerRequestRefines ==
    ASSUME IInv, ServerRequest PROVE UNCHANGED Queue!vars
<1>1. UNCHANGED <<processindex, completed, served, clearWhenSafe, fresh>>
  BY DEF ServerRequest, request, flags
<1>2. \/ inflightreq' = inflightreq /\ nextreqs' = nextreqs
      \/ /\ inflightreq.cmds = <<>>
         /\ inflightreq'.cmds = nextreqs[1].cmds
         /\ nextreqs' = PopFront(nextreqs)
  BY ServerRequestSends
<1>3. CASE inflightreq' = inflightreq /\ nextreqs' = nextreqs
  BY Zenon, <1>1, <1>3, SameStutters DEF Same
<1>4. CASE /\ inflightreq.cmds = <<>>
           /\ inflightreq'.cmds = nextreqs[1].cmds
           /\ nextreqs' = PopFront(nextreqs)
  <2>1. processindex = 0
    BY <1>4, Facts
  <2>2. nextreqs[1].cmds \in Seq(Cmd)
    <3>1. nextreqs[1] \in Requests
      BY Facts
    <3> QED
      BY <3>1 DEF Requests
  <2>3. Pending' = Join(nextreqs[1].cmds, Queued(PopFront(nextreqs)))
    <3>1. Rest(nextreqs[1].cmds, 0) = nextreqs[1].cmds
      BY <2>2, RestFacts
    <3> QED
      BY ZenonT(30), <1>1, <1>4, <2>1, <3>1, PendingIsNext
  <2>4. Pending = Queued(nextreqs)
    <3>1. Rest(inflightreq.cmds, processindex) = <<>>
      BY Zenon, <1>4, <2>1, Facts, RestFacts
    <3>2. Join(<<>>, Queued(nextreqs)) = Queued(nextreqs)
      BY Zenon, Facts, JoinEmpty
    <3> QED
      BY Zenon, <3>1, <3>2, PendingIs
  <2>5. Queued(nextreqs) = Join(nextreqs[1].cmds, Queued(PopFront(nextreqs)))
    BY Facts, QueuedPop
  <2> QED
    BY ZenonT(30), <1>1, <2>3, <2>4, <2>5, Stutters
<1> QED
  BY ZenonT(30), <1>2, <1>3, <1>4

\* The API executes the commands of a batch for the first time, or knows its id.
LEMMA ExecutesRefines ==
    ASSUME IInv, IInv', NEW m \in wire, ApiExecutes(m)
    PROVE  (\E batch \in SUBSET Cmd : Queue!Execute(batch)) \/ UNCHANGED Queue!vars
<1>1. /\ UNCHANGED <<dispatcher, fresh, completed>>
      /\ served' = IF Executed(m.id) THEN served ELSE served \cup {m}
  BY DEF ApiExecutes
<1>2. UNCHANGED <<inflightreq, nextreqs, processindex, clearWhenSafe>>
  BY <1>1 DEF dispatcher, request, flags
<1>p. UNCHANGED Pending
  BY Zenon, <1>2 DEF Pending
<1>3. CASE Executed(m.id)
  BY Zenon, <1>1, <1>2, <1>3, SameStutters DEF Same
<1>4. CASE ~Executed(m.id)
  <2> DEFINE batch == Commands(m.out)
  <2>1. served' = served \cup {m} /\ m \notin served
    BY <1>1, <1>4 DEF Executed
  <2>2. batch \subseteq Cmd
    <3>1. m \in Messages
      BY DEF IInv, TypeOK
    <3>2. m.out \in Seq(Cmd)
      BY Zenon, <3>1 DEF Messages
    <3> QED
      BY <3>2 DEF Commands
  <2>3. batch \cap fresh = {}
    BY ZenonT(30) DEF IInv, MsgInv, Unsent, Msgs
  <2>4. ASSUME NEW c \in batch PROVE Executions(c) = {}
    <3> SUFFICES ASSUME NEW n \in Executions(c) PROVE FALSE
      OBVIOUS
    <3>1. n \in served /\ c \in Commands(n.out)
      BY DEF Executions
    <3>2. n # m /\ n \in Msgs /\ m \in Msgs
      BY <2>1, <3>1 DEF Msgs
    <3> QED
      BY Zenon, <3>1, <3>2 DEF IInv, MsgInv
  <2>5. ASSUME NEW c \in Cmd PROVE Executions(c)' = IF c \in batch THEN Executions(c) \cup {m} ELSE Executions(c)
    BY <2>1 DEF Executions
  <2> HIDE DEF batch
  <2>6. \A c \in batch : Counts[c] = 0
    BY ZenonT(30), <2>2, <2>4, CountIs
  <2>7. Counts' = [c \in Cmd |-> IF c \in batch THEN 1 ELSE Counts[c]]
    <3>1. ASSUME NEW c \in Cmd PROVE Cardinality(Executions(c)') = IF c \in batch THEN 1 ELSE Counts[c]
      <4>1. CASE c \in batch
        <5>1. Executions(c)' = {m}
          BY ZenonT(30), <2>4, <2>5, <4>1
        <5> QED
          BY ZenonT(30), <4>1, <5>1, CardinalityFacts
      <4>2. CASE c \notin batch
        BY Zenon, <2>5, <4>2 DEF Counts
      <4> QED
        BY Zenon, <4>1, <4>2
    <3>2. Counts' = [c \in Cmd |-> Cardinality(Executions(c)')]
      BY Zenon DEF Counts
    <3> QED
      BY Zenon, <3>1, <3>2
  <2>8. Queue!Execute(batch)
    BY ZenonT(30), <1>1, <1>2, <1>p, <2>3, <2>6, <2>7 DEF Queue!Execute, Counts
  <2> QED
    BY Zenon, <2>2, <2>8
<1> QED
  BY Zenon, <1>3, <1>4

\* A batch with a result to come waits at the head of the queue.
LEMMA HeadIs ==
    ASSUME IInv, processindex < Len(inflightreq.cmds)
    PROVE  /\ Pending # <<>>
           /\ Head(Pending) = inflightreq.cmds[processindex + 1]
           /\ Tail(Pending) = Join(Rest(inflightreq.cmds, processindex + 1), Queued(nextreqs))
<1> DEFINE r == Rest(inflightreq.cmds, processindex)
           t == Queued(nextreqs)
<1>1. r \in Seq(Cmd) /\ t \in Seq(Cmd) /\ Pending = Join(r, t)
  BY Facts, PendingIs
<1>2. r # <<>> /\ Head(r) = inflightreq.cmds[processindex + 1]
      /\ Tail(r) = Rest(inflightreq.cmds, processindex + 1)
  BY Zenon, Facts, RestFacts
<1> HIDE DEF r, t
<1>3. Pending # <<>> /\ Head(Pending) = Head(r) /\ Tail(Pending) = Join(Tail(r), t)
  BY ZenonT(30), <1>1, <1>2, JoinHead
<1> QED
  BY Zenon, <1>2, <1>3 DEF t

\* A command of a batch that was executed counts as executed.
LEMMA ExecutedCount ==
    ASSUME IInv, NEW m \in served, m.out = inflightreq.cmds,
           NEW i \in 1 .. Len(inflightreq.cmds)
    PROVE  Counts[inflightreq.cmds[i]] = 1
<1> DEFINE c == inflightreq.cmds[i]
<1>1. c \in Cmd /\ c \in Commands(inflightreq.cmds)
  <2> DEFINE s == inflightreq.cmds
  <2>1. s \in Seq(Cmd) /\ i \in 1 .. Len(s)
    BY Facts
  <2> HIDE DEF s
  <2>2. s[i] \in Cmd /\ s[i] \in Commands(s)
    BY <2>1 DEF Commands
  <2> QED
    BY <2>2 DEF s
<1>2. m \in Executions(c)
  BY Zenon, <1>1 DEF Executions
<1> HIDE DEF c
<1>3. Counts[c] \in {0, 1} /\ (Counts[c] = 0 <=> Executions(c) = {})
  BY <1>1, CountIs
<1>4. Executions(c) # {}
  BY Zenon, <1>2
<1> QED
  BY <1>3, <1>4 DEF c

\* The result of the command at the head of the queue.
LEMMA AnswerRefines ==
    ASSUME IInv, processindex < Len(inflightreq.cmds), ~clearWhenSafe,
           clearWhenSafe' \in BOOLEAN, UNCHANGED <<fresh, served>>,
           NEW outcome \in {"[", "error", "EINTERNAL"},
           outcome = "[" => \E m \in served : m.out = inflightreq.cmds,
           completed' = Append(completed, [cmd |-> inflightreq.cmds[processindex + 1],
                                           from |-> inflightreq.cmds[processindex + 1],
                                           outcome |-> outcome]),
           Pending' = Join(Rest(inflightreq.cmds, processindex + 1), Queued(nextreqs))
    PROVE  Queue!Answer(outcome)
<1>1. /\ Pending # <<>>
      /\ Head(Pending) = inflightreq.cmds[processindex + 1]
      /\ Tail(Pending) = Join(Rest(inflightreq.cmds, processindex + 1), Queued(nextreqs))
  BY Zenon, HeadIs
<1>2. processindex + 1 \in 1 .. Len(inflightreq.cmds)
  BY Facts
<1>3. outcome = "[" => Counts[Head(Pending)] = 1
  BY ZenonT(30), <1>1, <1>2, ExecutedCount
<1>4. Counts' = Counts
  BY Zenon, CountsFrame
<1>5. Pending' = Tail(Pending)
  BY ZenonT(30), <1>1
<1>6. completed' = Append(completed, [cmd |-> Head(Pending), from |-> Head(Pending),
                                      outcome |-> outcome])
  BY Zenon, <1>1
<1> QED
  BY ZenonT(30), <1>1, <1>3, <1>4, <1>5, <1>6 DEF Queue!Answer, Counts

\* Request::process hands the command at the head of the queue its result.
LEMMA ProcResultRefines ==
    ASSUME IInv, AnswerInv, IInv', NEW logout \in BOOLEAN, ProcResult(logout)
    PROVE  \E outcome \in {"[", "error", "EINTERNAL"} : Queue!Answer(outcome)
<1> DEFINE kind == jsonresponse.kind
<1>1. /\ processing /\ processindex < Len(inflightreq.cmds) /\ ~stopProcessing
      /\ completed' = Append(completed, [cmd |-> inflightreq.cmds[processindex + 1],
                                         from |-> jsonresponse.cmds[processindex + 1],
                                         outcome |-> kind])
      /\ processindex' = processindex + 1
      /\ UNCHANGED <<inflightreq, nextreqs, fresh, served>>
  BY DEF ProcResult, Unfinished, Result, CurrentCommand
<1>2. kind \in {"[", "error"}
  <2>1. jsonresponse \in Responses /\ kind # "none"
    BY Zenon, <1>1 DEF IInv, TypeOK, PhaseInv
  <2> QED
    BY Zenon, <2>1 DEF Responses
<1>3. inflightreq.cmds # <<>>
  BY <1>1, Facts
<1>4. jsonresponse.cmds = inflightreq.cmds
  BY Zenon, <1>2, <1>3 DEF IInv, ReplyInv
<1>5. kind = "[" => \E m \in served : m.out = inflightreq.cmds
  BY Zenon, <1>4 DEF AnswerInv
<1>6. ~clearWhenSafe /\ clearWhenSafe' \in BOOLEAN
  BY Zenon, <1>1 DEF AnswerInv, IInv, TypeOK
<1>7. Pending' = Join(Rest(inflightreq.cmds, processindex + 1), Queued(nextreqs))
  BY Zenon, <1>1, PendingIsNext
<1>8. completed' = Append(completed, [cmd |-> inflightreq.cmds[processindex + 1],
                                      from |-> inflightreq.cmds[processindex + 1],
                                      outcome |-> kind])
  BY ZenonT(30), <1>1, <1>4
<1> HIDE DEF kind
<1>9. kind \in {"[", "error", "EINTERNAL"}
  BY Zenon, <1>2
<1>10. Queue!Answer(kind)
  BY ZenonT(30), <1>1, <1>5, <1>6, <1>7, <1>8, <1>9, AnswerRefines
<1> QED
  BY ZenonT(30), <1>9, <1>10

\* serverChunk: the chunk is consumed, or ends in the result of the one command
\* in flight.
LEMMA ChunkRefines ==
    ASSUME IInv, AnswerInv, IInv', ServerChunk \/ LastServerChunk
    PROVE  \/ \E outcome \in {"[", "error", "EINTERNAL"} : Queue!Answer(outcome)
           \/ UNCHANGED Queue!vars
<1>1. /\ ProcessChunk /\ ~processing /\ pendingcs.status # "null"
      /\ UNCHANGED <<nextreqs, mCurrentSeqtag, flags, served, fresh>>
  BY DEF ServerChunk, LastServerChunk
<1>2. processindex = 0 /\ ~clearWhenSafe /\ clearWhenSafe' = clearWhenSafe
  <2>1. ~mCurrentSeqtag /\ ~stopProcessing
    BY Zenon, <1>1 DEF IInv, PhaseInv
  <2>2. ~(processindex > 0) /\ ~clearWhenSafe
    BY Zenon, <1>1, <2>1 DEF AnswerInv
  <2>3. processindex = 0
    BY <2>2, Facts
  <2> QED
    BY Zenon, <1>1, <2>2, <2>3 DEF flags
<1>3. pendingcs.mChunked
  <2>1. CASE ServerChunk
    <3>1. pendingcs.bufpos > pendingcs.notifiedbufpos
      BY <2>1 DEF ServerChunk
    <3>2. pendingcs.bufpos \in Nat /\ pendingcs.notifiedbufpos \in Nat
      <4>1. pendingcs \in HttpReqs
        BY DEF IInv, TypeOK
      <4>2. pendingcs.bufpos \in 0 .. Chunks /\ pendingcs.notifiedbufpos \in 0 .. Chunks
        BY <4>1 DEF HttpReqs
      <4> QED
        BY <4>2, RequestDispatcherAssumption
    <3>3. pendingcs.bufpos > 0
      BY <3>1, <3>2
    <3> QED
      BY <3>3 DEF AnswerInv
  <2>2. CASE LastServerChunk
    BY <2>2 DEF LastServerChunk
  <2> QED
    BY Zenon, <2>1, <2>2
<1>r. ASSUME ResetRequest PROVE inflightreq'.cmds = <<>> /\ processindex' = 0
  BY Zenon, <1>r, ResetRequestType DEF IInv
<1>e. /\ Rest(<<>>, 0) = <<>>
      /\ Join(<<>>, Queued(nextreqs)) = Queued(nextreqs)
  BY Zenon, Facts, EmptyFacts
<1>4. CASE Len(inflightreq.cmds) # 1
  <2>1. ResetRequest /\ UNCHANGED completed
    BY Zenon, <1>1, <1>4 DEF ProcessChunk
  <2>2. inflightreq.cmds = <<>>
    BY Zenon, <1>3, <1>4 DEF AnswerInv
  <2>3. Pending' = Pending
    BY Zenon, <1>1, <1>2, <1>r, <2>1, <2>2, PendingIs, PendingIsNext
  <2> QED
    BY Zenon, <1>1, <1>2, <2>1, <2>3, Stutters
<1>5. CASE Len(inflightreq.cmds) = 1
  <2>1. processindex < Len(inflightreq.cmds) /\ processindex + 1 = 1
        /\ Rest(inflightreq.cmds, 1) = <<>>
    <3> DEFINE s == inflightreq.cmds
    <3>1. s \in Seq(Cmd) /\ Len(s) = 1 /\ 1 \in Nat /\ 1 <= Len(s)
      BY <1>5, Facts
    <3> HIDE DEF s
    <3>2. Rest(s, 1) = <<>>
      BY ZenonT(30), <3>1, RestFacts
    <3> QED
      BY <1>2, <1>5, <3>2 DEF s
  <2>2. ASSUME ResetRequest, NEW outcome \in {"[", "error", "EINTERNAL"},
               outcome = "[" => \E m \in served : m.out = inflightreq.cmds,
               completed' = Append(completed, [cmd |-> inflightreq.cmds[1],
                                               from |-> inflightreq.cmds[1],
                                               outcome |-> outcome])
        PROVE  Queue!Answer(outcome)
    <3>1. Pending' = Join(Rest(inflightreq.cmds, processindex + 1), Queued(nextreqs))
      BY ZenonT(30), <1>1, <1>r, <1>e, <2>1, <2>2, PendingIsNext
    <3>2. clearWhenSafe' \in BOOLEAN
      BY Zenon DEF IInv, TypeOK
    <3>3. completed' = Append(completed, [cmd |-> inflightreq.cmds[processindex + 1],
                                          from |-> inflightreq.cmds[processindex + 1],
                                          outcome |-> outcome])
      BY Zenon, <2>1, <2>2
    <3> QED
      BY Zenon, <1>1, <1>2, <2>1, <2>2, <3>1, <3>2, <3>3, AnswerRefines
  <2>3. CASE ChunkConsumed
    BY Zenon, <1>1, <1>2, <2>3, SameStutters DEF ChunkConsumed, Same
  <2>4. CASE ChunkFinishes
    <3>1. inflightreq.cmds # <<>>
      BY <1>5
    <3>2. pendingcs.in = "[" /\ pendingcs.results = inflightreq.cmds
      BY Zenon, <1>1, <2>4, <3>1 DEF ChunkFinishes, ChunkContinues, IInv, ReplyInv
    <3>3. [id |-> pendingcs.id, out |-> inflightreq.cmds] \in served
      BY Zenon, <3>2 DEF AnswerInv
    <3>4. \E m \in served : m.out = inflightreq.cmds
      BY Zenon, <3>3
    <3>5. ResetRequest /\ completed' = Append(completed, [cmd |-> inflightreq.cmds[1],
                                                          from |-> inflightreq.cmds[1],
                                                          outcome |-> "["])
      BY Zenon, <2>4, <3>2 DEF ChunkFinishes
    <3>6. Queue!Answer("[")
      BY Zenon, <2>2, <3>4, <3>5
    <3> QED
      BY <3>6
  <2>5. CASE ChunkMisparsed
    <3>1. CASE /\ ResetRequest
               /\ completed' = Append(completed, [cmd |-> inflightreq.cmds[1],
                                                  from |-> inflightreq.cmds[1],
                                                  outcome |-> "EINTERNAL"])
      <4>1. Queue!Answer("EINTERNAL")
        BY Zenon, <2>2, <3>1
      <4> QED
        BY Zenon, <4>1
    <3>2. CASE UNCHANGED <<inflightreq, jsonresponse, processindex, stopProcessing, completed>>
      BY ZenonT(30), <1>1, <1>2, <3>2, SameStutters DEF Same
    <3> QED
      BY Zenon, <2>5, <3>1, <3>2 DEF ChunkMisparsed
  <2> QED
    BY Zenon, <1>1, <1>5, <2>3, <2>4, <2>5 DEF ProcessChunk
<1> QED
  BY <1>4, <1>5

\* A clear() empties the queue and forgets the results.
LEMMA ClearRefines ==
    ASSUME IInv, DispatcherClear, UNCHANGED <<fresh, served>>
    PROVE  Queue!Clear
<1>1. /\ nextreqs' = <<EmptyRequest>> /\ completed' = <<>> /\ clearWhenSafe' = FALSE
      /\ inflightreq'.cmds = <<>> /\ processindex' = 0
  BY Zenon, ResetRequestType DEF DispatcherClear, IInv
<1>2. Pending' = <<>>
  BY Zenon, <1>1, EmptyFacts, QueuedEmpty, PendingIsNext
<1> QED
  BY Zenon, <1>1, <1>2, CountsFrame DEF Queue!Clear, Counts

\* The end of a batch: a postponed clear() takes place, or nothing is left of it.
LEMMA EndRefines ==
    ASSUME IInv, AnswerInv, EndProcessing
    PROVE  Queue!Clear \/ UNCHANGED Queue!vars
<1>1. LeaveProcessing /\ UNCHANGED <<fresh, served>>
      /\ (processindex = Len(inflightreq.cmds) \/ stopProcessing)
  BY DEF EndProcessing
<1>2. CASE clearWhenSafe
  BY Zenon, <1>1, <1>2, ClearRefines DEF LeaveProcessing
<1>3. CASE ~clearWhenSafe
  <2>1. ResetRequest /\ UNCHANGED <<nextreqs, clearWhenSafe, completed>>
    BY Zenon, <1>1, <1>3 DEF LeaveProcessing
  <2>2. inflightreq'.cmds = <<>> /\ processindex' = 0
    BY Zenon, <2>1, ResetRequestType DEF IInv
  <2>3. processindex = Len(inflightreq.cmds)
    BY Zenon, <1>1, <1>3 DEF AnswerInv
  <2>4. Rest(inflightreq.cmds, processindex) = <<>>
    BY Zenon, <2>3, Facts, RestFacts
  <2>5. Pending' = Pending
    BY ZenonT(30), <2>1, <2>2, <2>4, EmptyFacts, PendingIs, PendingIsNext
  <2> QED
    BY Zenon, <1>1, <2>1, <2>5, Stutters
<1> QED
  BY Zenon, <1>2, <1>3

\* Every step of the cs channel is a step of CommandQueue or invisible to it.
LEMMA StepRefines ==
    ASSUME IInv, AnswerInv, IInv', Next PROVE Queue!Next \/ UNCHANGED Queue!vars
<1>1. ASSUME NEW c \in Cmd, Add(c) PROVE Queue!Next
  BY Zenon, <1>1, AddRefines DEF Queue!Next
<1>2. ASSUME NEW m \in wire, ApiExecutes(m) PROVE Queue!Next \/ UNCHANGED Queue!vars
  BY <1>2, ExecutesRefines DEF Queue!Next
<1>3. CASE ServerRequest
  BY Zenon, <1>3, ServerRequestRefines
<1>4. ASSUME NEW logout \in BOOLEAN, ProcResult(logout) PROVE Queue!Next
  BY Zenon, <1>4, ProcResultRefines DEF Queue!Next
<1>5. CASE ServerChunk \/ LastServerChunk
  BY Zenon, <1>5, ChunkRefines DEF Queue!Next
<1>6. CASE EndProcessing
  BY Zenon, <1>6, EndRefines DEF Queue!Next
<1>7. CASE LocalLogout
  BY Zenon, <1>7, ClearRefines DEF LocalLogout, Queue!Next
<1>8. ASSUME NEW m \in served, ApiReplies(m) PROVE UNCHANGED Queue!vars
  BY Zenon, <1>8, SameStutters DEF ApiReplies, dispatcher, request, flags, Same
<1>9. ASSUME NEW e \in {"-3", "-4", "error"}, ApiRefuses(e) PROVE UNCHANGED Queue!vars
  BY Zenon, <1>9, SameStutters DEF ApiRefuses, dispatcher, request, flags, Same
<1>10. ASSUME NEW why \in {"network", "ssl"}, HttpFails(why) PROVE UNCHANGED Queue!vars
  BY Zenon, <1>10, SameStutters DEF HttpFails, dispatcher, request, flags, Same
<1>11. CASE ChunkArrives \/ BackoffExpires
  BY Zenon, <1>11, SameStutters DEF ChunkArrives, BackoffExpires, dispatcher, request, flags, Same
<1>12. CASE ServerResponse \/ ServerError \/ PauseForSeqTag \/ ContinueProcessing
  BY Zenon, <1>12, SameStutters
     DEF ServerResponse, ServerError, PauseForSeqTag, ContinueProcessing, request, flags, Same
<1>13. CASE ExecFailure \/ HeartbeatTimeout
  BY ZenonT(30), <1>13, SameStutters
     DEF ExecFailure, HeartbeatTimeout, InflightFailure, request, flags, Same
<1> QED
  BY ZenonT(30), <1>1, <1>2, <1>3, <1>4, <1>5, <1>6, <1>7, <1>8, <1>9, <1>10, <1>11, <1>12, <1>13
     DEF Next, ApiStep, ExecStep

\* The initial states correspond.
LEMMA InitRefines == ASSUME Init PROVE Queue!Init /\ AnswerInv
<1>2. Pending = <<>>
  <2>1. inflightreq.cmds = <<>> /\ processindex = 0 /\ nextreqs = <<EmptyRequest>>
    BY DEF Init, EmptyRequest
  <2> QED
    BY ZenonT(30), <2>1, QueuedEmpty, EmptyFacts, PendingIs
<1>3. ASSUME NEW c \in Cmd PROVE Cardinality(Executions(c)) = 0
  <2>1. Executions(c) = {}
    BY DEF Init, Executions
  <2> QED
    BY ZenonT(30), <2>1, CardinalityFacts
<1>4. AnswerInv
  <2>1. ~(processindex > 0) /\ inflightreq.cmds = <<>>
    BY DEF Init, EmptyRequest
  <2>2. pendingcs.in # "[" /\ ~pendingcs.mChunked /\ ~(pendingcs.bufpos > 0)
    BY Zenon, NoHttpReqFields DEF Init
  <2>3. jsonresponse.kind # "["
    BY DEF Init, NoResponse
  <2>4. clearWhenSafe = stopProcessing
    BY Zenon DEF Init
  <2> QED
    BY <2>1, <2>2, <2>3, <2>4 DEF AnswerInv
<1> QED
  BY ZenonT(30), <1>2, <1>3, <1>4 DEF Queue!Init, Init, Counts

\* The cs channel is an ordered queue of commands: every command is executed at most
\* once and answered in order, exactly once, and with success only if the API executed
\* it, unless the whole queue is cleared.  Retries, lost replies, chunked replies and
\* paused batches stay invisible.
THEOREM CommandQueueImplemented == Spec => ImplementsCommandQueue
<1>1. Init => Queue!Init /\ AnswerInv
  BY InitRefines
<1>2. ASSUME IInv, AnswerInv, [Next]_vars PROVE AnswerInv'
  <2>1. CASE Next
    BY Zenon, <1>2, <2>1, AnswerStep
  <2>2. CASE UNCHANGED vars
    BY Zenon, <1>2, <2>2, AnswerFrame DEF vars, AnswerVars, request, flags
  <2> QED
    BY <1>2, <2>1, <2>2
<1>3. ASSUME IInv, IInv', AnswerInv, [Next]_vars PROVE [Queue!Next]_(Queue!vars)
  <2>1. CASE Next
    BY ZenonT(30), <1>3, <2>1, StepRefines
  <2>2. CASE UNCHANGED vars
    BY <2>2, SameStutters DEF vars, Same, request, flags
  <2> QED
    BY Zenon, <1>3, <2>1, <2>2
<1> QED
  BY <1>1, <1>2, <1>3, Inductive, PTL DEF Spec, ImplementsCommandQueue, Queue!Spec
=============================================================================
