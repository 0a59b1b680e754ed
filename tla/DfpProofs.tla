----------------------------- MODULE DfpProofs -----------------------------
(***************************************************************************)
(* What the pops, the pushes and the node bodies of Dfp keep: lemmas the   *)
(* proofs about either engine rest on.                                     *)
(***************************************************************************)
EXTENDS KahnEquations, NaturalsInduction, WellFoundedInduction, TLAPS

\* Popping from edges that hold something leaves sequences of tokens.
LEMMA PopType ==
  ASSUME NEW q \in [Edge -> Seq(Token)], NEW E, \A e \in E : q[e] # <<>>
  PROVE  Pop(q, E) \in [Edge -> Seq(Token)]
BY DEF Pop

\* So does pushing tokens, at any set of edges.
LEMMA PushType ==
  ASSUME NEW q \in [Edge -> Seq(Token)], NEW E, NEW s \in Seq(Token)
  PROVE  Push(q, E, s) \in [Edge -> Seq(Token)]
BY DEF Push

\* Pushing nothing, or pushing or popping nowhere, changes nothing.
LEMMA NoPush ==
  ASSUME NEW q \in [Edge -> Seq(Token)], NEW E, NEW s
  PROVE  Push(q, E, <<>>) = q /\ Push(q, {}, s) = q /\ Pop(q, {}) = q
<1>1. Push(q, E, <<>>) = q
  BY DEF Push
<1>2. Push(q, {}, s) = q /\ Pop(q, {}) = q
  BY DEF Push, Pop
<1> QED
  BY <1>1, <1>2

\* What a body hands back is a sequence of tokens; one of them, unless the
\* node is a queuedout or a sink.
LEMMA EmissionType ==
  ASSUME NEW n \in Node, NEW t \in Token
  PROVE  /\ Emission(n, t) \in Seq(Token)
         /\ Category[n] # "queuedout" => Len(Emission(n, t)) <= 1
<1>1. CASE Category[n] = "queuedout"
  <2>1. \A i \in 1 .. Copies[n] : t \cup {<<n, i>>} \in Token
    BY DfpAssumption DEF Token, Item
  <2>2. Copies[n] \in Nat
    BY DfpAssumption
  <2>3. ASSUME NEW k \in Nat, NEW f \in [1 .. k -> Token]
        PROVE  f \in Seq(Token)
    OBVIOUS
  <2>4. [i \in 1 .. Copies[n] |-> t \cup {<<n, i>>}] \in Seq(Token)
    BY <2>1, <2>2, <2>3
  <2> QED
    BY <1>1, <2>4 DEF Emission
<1>2. CASE Category[n] # "queuedout"
  BY <1>2 DEF Emission
<1> QED
  BY <1>1, <1>2

-----------------------------------------------------------------------------
(* Kahn's equations and an execution that keeps to them.                   *)

\* What a call adds to the edges is a sequence of tokens.
LEMMA AnswerType ==
  ASSUME NEW n \in Node, NEW t \in Token
  PROVE  Answer(n, t) \in Seq(Token)
BY EmissionType DEF Answer

\* x is the stretch of s after its first v objects, up to its first u.
Stretch(x, s, v, u) == /\ x \in Seq(Token) /\ Len(x) = u - v
                       /\ \A i \in 1 .. Len(x) : x[i] = s[v + i]

\* Of a wiring with solution K, f[n] says how often each node has fired when the
\* edges hold q, the sources have l left, and the sinks have got g.
Progress(ie, oe, K, f, q, l, g) ==
  /\ f \in [Node -> Nat]
  /\ \A n \in Node : f[n] <= Len(K.calls[n])
  /\ \A n \in Node : Category[n] = "source" => l[n] = Length[n] - f[n]
  /\ \A n \in Sinks : /\ g[n] \in Seq(Token) /\ Len(g[n]) = f[n]
                      /\ \A i \in 1 .. f[n] : g[n][i] = K.calls[n][i]
  /\ \A p \in OutPort, r \in InPort :
       oe[p] = ie[r] /\ oe[p] # NoEdge =>
         Stretch(q[oe[p]], K.stream[oe[p]], f[r[1]], K.upto[p[1]][f[p[1]]])

\* Before anything has fired.
LEMMA ProgressStart ==
  ASSUME NEW ie, NEW oe, NEW K, Solves(ie, oe, K)
  PROVE  Progress(ie, oe, K, [n \in Node |-> 0], [e \in Edge |-> <<>>], Length,
                  [n \in Node |-> <<>>])
<1> DEFINE f == [n \in Node |-> 0]
<1>1. \A n \in Node : K.calls[n] \in Seq(Token)
  BY DEF Solves
<1>2. ASSUME NEW p \in OutPort, oe[p] # NoEdge
      PROVE  oe[p] \in Edge /\ p[1] \in Node /\ K.upto[p[1]][f[p[1]]] = 0
  <2>1. p[1] \in Node /\ oe[p] \in Edge \cup {NoEdge}
    BY <1>2, DfpAssumption DEF OutPort, Solves, Joins
  <2> QED BY <1>2, <2>1 DEF Solves, Answered
<1>3. \A r \in InPort : r[1] \in Node
  BY DfpAssumption DEF InPort
<1>4. \A n \in Sinks : n \in Node
  BY DEF Sinks
<1> DEFINE q == [e \in Edge |-> <<>>]
           g == [n \in Node |-> <<>>]
<1>5. \A n \in Node : f[n] = 0 /\ f[n] <= Len(K.calls[n]) /\ Length[n] = Length[n] - f[n]
  BY <1>1, DfpAssumption
<1>6. \A n \in Sinks : g[n] \in Seq(Token) /\ Len(g[n]) = f[n] /\ 1 .. f[n] = {}
  BY <1>4, <1>5
<1>7. ASSUME NEW p \in OutPort, NEW r \in InPort, oe[p] = ie[r], oe[p] # NoEdge
      PROVE  Stretch(q[oe[p]], K.stream[oe[p]], f[r[1]], K.upto[p[1]][f[p[1]]])
  BY <1>2, <1>3, <1>5, <1>7 DEF Stretch
<1>8. f \in [Node -> Nat]
  OBVIOUS
<1> HIDE DEF f, q, g
<1>9. Progress(ie, oe, K, f, q, Length, g)
  BY <1>5, <1>6, <1>7, <1>8 DEF Progress
<1> QED BY <1>9 DEF f, q, g

\* What an edge that joins port p to port r holds has come from one and is for
\* the other.
LEMMA PortNodes ==
  /\ \A p \in InPort : p[1] \in Node /\ p \in Ports(p[1], NumIn[p[1]])
  /\ \A p \in OutPort : p[1] \in Node /\ p \in Ports(p[1], NumOut[p[1]])
  /\ \A n \in Node : \A p \in Ports(n, NumIn[n]) : p \in InPort /\ p[1] = n
  /\ \A n \in Node : \A p \in Ports(n, NumOut[n]) : p \in OutPort /\ p[1] = n
<1>1. ASSUME NEW C \in [Node -> Nat], NEW p \in UNION {{n} \X (0 .. C[n] - 1) : n \in Node}
      PROVE  p[1] \in Node /\ p \in Ports(p[1], C[p[1]])
  <2>1. PICK n \in Node : p \in {n} \X (0 .. C[n] - 1)
    BY <1>1
  <2>2. p = <<n, p[2]>> /\ p[2] \in 0 .. C[n] - 1 /\ p[1] = n
    BY <2>1
  <2> QED BY <2>2 DEF Ports
<1>2. ASSUME NEW C \in [Node -> Nat], NEW n \in Node, NEW p \in Ports(n, C[n])
      PROVE  p \in UNION {{m} \X (0 .. C[m] - 1) : m \in Node} /\ p[1] = n
  <2>1. PICK i \in 0 .. C[n] - 1 : p = <<n, i>>
    BY DEF Ports
  <2> QED BY <2>1
<1> QED BY <1>1, <1>2, DfpAssumption DEF InPort, OutPort

\* The output port at the other end of an input port's edge.
LEMMA Feeder ==
  ASSUME NEW ie, NEW oe, Joins(ie, oe), NEW r \in InPort, ie[r] # NoEdge
  PROVE  ie[r] \in Edge /\ \E p \in OutPort : oe[p] = ie[r]
<1>1. ie[r] \in Edge /\ ie[r] \in EdgesAt(ie, InPort)
  BY DEF Joins, EdgesAt
<1>2. ie[r] \in EdgesAt(oe, OutPort)
  BY <1>1 DEF Joins
<1> QED BY <1>1, <1>2 DEF EdgesAt

\* What the tail of an edge has put on it so far.
LEMMA PutSoFar ==
  ASSUME NEW ie, NEW oe, NEW K, Solves(ie, oe, K),
         NEW f, NEW q, NEW l, NEW g, Progress(ie, oe, K, f, q, l, g),
         NEW p \in OutPort, oe[p] # NoEdge
  PROVE  /\ p[1] \in Node /\ oe[p] \in Edge
         /\ K.stream[oe[p]] \in Seq(Token)
         /\ K.upto[p[1]][f[p[1]]] \in 0 .. Len(K.stream[oe[p]])
<1>1. p[1] \in Node
  BY PortNodes
<1>2. oe[p] \in Edge /\ K.stream[oe[p]] \in Seq(Token) /\ K.calls[p[1]] \in Seq(Token)
  BY <1>1 DEF Solves, Joins
<1>3. f[p[1]] \in 0 .. Len(K.calls[p[1]])
  BY <1>1, <1>2 DEF Progress
<1>4. Answered(p[1], K.calls[p[1]], K.stream[oe[p]], K.upto[p[1]])
  BY DEF Solves
<1> QED BY <1>1, <1>2, <1>3, <1>4 DEF Answered

\* Node n has an object at every input, and more to give if it is a source; and what
\* its body is given then.
Ready(ie, q, l, n) ==
  /\ \A p \in Ports(n, NumIn[n]) : Contents(ie, q, p) # <<>>
  /\ Category[n] = "source" => l[n] > 0
Offered(ie, q, l, n) ==
  IF Category[n] = "source" THEN Fresh(n, l[n]) ELSE Heads(ie, q, Ports(n, NumIn[n]))

\* The next call of a node that has an object at every input, and more to give if
\* it is a source, is the next of its calls.
ToCome(K, f, n, t) == f[n] < Len(K.calls[n]) /\ t = K.calls[n][f[n] + 1]

LEMMA NextCall ==
  ASSUME NEW ie, NEW oe, NEW K, Solves(ie, oe, K),
         NEW f, NEW q \in [Edge -> Seq(Token)], NEW l \in [Node -> Nat], NEW g,
         Progress(ie, oe, K, f, q, l, g),
         NEW n \in Node, Ready(ie, q, l, n)
  PROVE  ToCome(K, f, n, Offered(ie, q, l, n))
<1>1. f[n] \in Nat /\ K.calls[n] \in Seq(Token) /\ Called(n, K.calls[n], ie, K.stream)
  BY DEF Progress, Solves
<1>2. CASE Category[n] = "source"
  <2>1. /\ K.calls[n] = [k \in 1 .. Length[n] |-> {<<n, k>>}]
        /\ l[n] = Length[n] - f[n] /\ Length[n] \in Nat
    BY <1>1, <1>2, DfpAssumption DEF Called, Progress
  <2>2. Len(K.calls[n]) = Length[n]
    BY <2>1
  <2>3. Length[n] - l[n] + 1 = f[n] + 1 /\ f[n] + 1 \in 1 .. Length[n]
    BY <1>1, <1>2, <2>1 DEF Ready
  <2>4. K.calls[n][f[n] + 1] = {<<n, f[n] + 1>>}
    BY <2>1, <2>3
  <2> QED BY <1>1, <1>2, <2>2, <2>3, <2>4 DEF Fresh, Offered, ToCome
<1>3. CASE Category[n] # "source"
  <2> DEFINE P == Ports(n, NumIn[n])
  <2>1. ASSUME NEW r \in P
        PROVE  /\ K.stream[ie[r]] \in Seq(Token) /\ f[n] < Len(K.stream[ie[r]])
               /\ Head(q[ie[r]]) = K.stream[ie[r]][f[n] + 1]
    <3>1. r \in InPort /\ r[1] = n
      BY PortNodes
    <3>2. ie[r] # NoEdge /\ q[ie[r]] # <<>>
      BY DEF Contents, Ready
    <3>3. PICK p \in OutPort : oe[p] = ie[r]
      BY <3>1, <3>2, Feeder DEF Solves
    <3> DEFINE e == oe[p]
               u == K.upto[p[1]][f[p[1]]]
    <3>4. /\ e \in Edge /\ K.stream[e] \in Seq(Token) /\ u \in 0 .. Len(K.stream[e])
      BY <3>2, <3>3, PutSoFar
    <3>5. Len(q[e]) = u - f[n] /\ \A i \in 1 .. Len(q[e]) : q[e][i] = K.stream[e][f[n] + i]
      BY <3>1, <3>2, <3>3 DEF Progress, Stretch
    <3>6. Len(q[e]) > 0 /\ Head(q[e]) = q[e][1]
      BY <3>2, <3>3, <3>4
    <3> HIDE DEF e, u
    <3>7. f[n] < u /\ q[e][1] = K.stream[e][f[n] + 1]
      BY <1>1, <3>4, <3>5, <3>6
    <3>8. K.stream[e] \in Seq(Token) /\ f[n] < Len(K.stream[e]) /\ Head(q[e]) = K.stream[e][f[n] + 1]
      BY <1>1, <3>4, <3>6, <3>7
    <3> QED BY <3>3, <3>8 DEF e
  <2>2. PICK r \in P : Len(K.calls[n]) = Len(K.stream[ie[r]])
    BY <1>1, <1>3 DEF Called
  <2>3. f[n] < Len(K.calls[n])
    BY <2>1, <2>2
  <2>4. K.calls[n][f[n] + 1] = UNION {K.stream[ie[x]][f[n] + 1] : x \in P}
    <3>1. f[n] + 1 \in DOMAIN K.calls[n]
      BY <1>1, <2>3
    <3> QED BY <1>1, <1>3, <3>1 DEF Called
  <2>5. {K.stream[ie[x]][f[n] + 1] : x \in P} = {Head(q[ie[x]]) : x \in P}
    BY <2>1
  <2> QED BY <1>3, <2>3, <2>4, <2>5 DEF Heads, Offered, ToCome
<1> QED BY <1>2, <1>3


\* A queue that holds a stretch of s still does when it gives its head away, and
\* when it takes the next stretch in.
LEMMA StretchTail ==
  ASSUME NEW x, NEW s, NEW u \in Nat, NEW v \in Nat, Stretch(x, s, v, u), x # <<>>
  PROVE  Stretch(Tail(x), s, v + 1, u)
<1>1. x \in Seq(Token) /\ Len(x) = u - v /\ \A i \in 1 .. Len(x) : x[i] = s[v + i]
  BY DEF Stretch
<1> DEFINE b == Tail(x)
<1>2. /\ b \in Seq(Token) /\ Len(b) = Len(x) - 1 /\ Len(x) \in Nat /\ Len(b) \in Nat
      /\ \A i \in 1 .. Len(b) : b[i] = x[i + 1]
  BY <1>1
<1> HIDE DEF b
<1>3. ASSUME NEW i \in 1 .. Len(b) PROVE b[i] = s[v + 1 + i]
  <2>1. i + 1 \in 1 .. Len(x) /\ v + (i + 1) = v + 1 + i
    BY <1>2
  <2> QED BY <1>1, <1>2, <2>1
<1>4. Len(b) = u - (v + 1)
  BY <1>1, <1>2
<1>5. Stretch(b, s, v + 1, u)
  BY <1>2, <1>3, <1>4 DEF Stretch
<1> QED BY <1>5 DEF b

LEMMA StretchConcat ==
  ASSUME NEW b, NEW c, NEW s, NEW u \in Nat, NEW v \in Nat, NEW w \in Nat,
         Stretch(b, s, v, u), Stretch(c, s, u, w)
  PROVE  Stretch(b \o c, s, v, w)
<1>1. /\ b \in Seq(Token) /\ Len(b) = u - v /\ \A i \in 1 .. Len(b) : b[i] = s[v + i]
      /\ c \in Seq(Token) /\ Len(c) = w - u /\ \A i \in 1 .. Len(c) : c[i] = s[u + i]
  BY DEF Stretch
<1> DEFINE y == b \o c
<1>2. /\ y \in Seq(Token) /\ Len(y) = Len(b) + Len(c) /\ Len(b) \in Nat /\ Len(c) \in Nat
      /\ \A i \in 1 .. Len(b) + Len(c) : y[i] = IF i <= Len(b) THEN b[i] ELSE c[i - Len(b)]
  <2>1. b \in Seq(Token) /\ c \in Seq(Token)
    BY <1>1
  <2> QED BY <2>1
<1> HIDE DEF y
<1>3. ASSUME NEW i \in 1 .. Len(y) PROVE y[i] = s[v + i]
  <2>1. CASE i <= Len(b)
    BY <1>1, <1>2, <2>1
  <2>2. CASE i > Len(b)
    <3>1. i - Len(b) \in 1 .. Len(c) /\ u + (i - Len(b)) = v + i
      BY <1>1, <1>2, <2>2
    <3>2. y[i] = c[i - Len(b)]
      BY <1>2, <2>2
    <3>3. c[i - Len(b)] = s[u + (i - Len(b))]
      BY <1>1, <3>1
    <3> QED BY <3>1, <3>2, <3>3
  <2> QED BY <1>2, <2>1, <2>2
<1>4. Len(y) = w - v
  BY <1>1, <1>2
<1>5. Stretch(y, s, v, w)
  BY <1>2, <1>3, <1>4 DEF Stretch
<1> QED BY <1>5 DEF y

LEMMA Successor ==
  ASSUME NEW x \in Nat, NEW y, y = x + 1
  PROVE  y - 1 = x /\ y \in Nat
OBVIOUS

\* What an edge holds after a firing.
LEMMA EdgeStep ==
  ASSUME NEW ie, NEW oe, NEW K, Solves(ie, oe, K),
         NEW f, NEW q \in [Edge -> Seq(Token)], NEW l, NEW g,
         Progress(ie, oe, K, f, q, l, g),
         NEW n \in Node, Ready(ie, q, l, n), f[n] < Len(K.calls[n]),
         NEW f2, f2 = [f EXCEPT ![n] = @ + 1],
         NEW a, a = Answer(n, K.calls[n][f[n] + 1]),
         NEW p \in OutPort, NEW r \in InPort, oe[p] = ie[r], oe[p] # NoEdge,
         NEW q2, q2 = Push(Pop(q, EdgesAt(ie, Ports(n, NumIn[n]))),
                           EdgesAt(oe, Ports(n, NumOut[n])), a)
  PROVE  Stretch(q2[oe[p]], K.stream[oe[p]], f2[r[1]], K.upto[p[1]][f2[p[1]]])
<1> DEFINE e == oe[p]
           s == K.stream[e]
           m == p[1]
           h == r[1]
           k == f[n] + 1
           u == K.upto[m][f[m]]
           u2 == K.upto[m][f2[m]]
           InE == EdgesAt(ie, Ports(n, NumIn[n]))
           OutE == EdgesAt(oe, Ports(n, NumOut[n]))
           b == Pop(q, InE)[e]
<1>1. e \in Edge /\ m \in Node /\ h \in Node /\ s \in Seq(Token) /\ u \in 0 .. Len(s)
  BY PutSoFar, PortNodes
<1>2. e \in InE <=> h = n
  <2>1. ASSUME NEW x \in Ports(n, NumIn[n]), ie[x] = e PROVE h = n
    BY <2>1, PortNodes DEF Solves, Joins
  <2>2. ASSUME h = n PROVE r \in Ports(n, NumIn[n])
    BY <2>2, PortNodes
  <2> QED BY <2>1, <2>2 DEF EdgesAt
<1>3. e \in OutE <=> m = n
  <2>1. ASSUME NEW x \in Ports(n, NumOut[n]), oe[x] = e PROVE m = n
    BY <2>1, PortNodes DEF Solves, Joins
  <2>2. ASSUME m = n PROVE p \in Ports(n, NumOut[n])
    BY <2>2, PortNodes
  <2> QED BY <2>1, <2>2 DEF EdgesAt
<1>4. f \in [Node -> Nat] /\ Stretch(q[e], s, f[h], u)
  BY DEF Progress
<1>5. k \in DOMAIN K.calls[n] /\ k - 1 = f[n] /\ k \in Nat /\ a \in Seq(Token)
  <2>1. K.calls[n] \in Seq(Token) /\ f[n] \in Nat
    BY <1>4 DEF Solves
  <2> HIDE DEF e, s, m, h, u, u2, InE, OutE, b
  <2>2. k \in DOMAIN K.calls[n]
    BY <2>1
  <2>3. k - 1 = f[n] /\ k \in Nat
    <3>1. k = f[n] + 1
      OBVIOUS
    <3> HIDE DEF k
    <3> QED BY <2>1, <3>1, Successor, Zenon
  <2> HIDE DEF k
  <2>4. K.calls[n][k] \in Token
    BY <2>1, <2>2
  <2>5. a = Answer(n, K.calls[n][k])
    BY DEF k
  <2> QED BY <2>2, <2>3, <2>4, <2>5, AnswerType
<1>6. h = n => q[e] # <<>>
  <2>1. h = n => Contents(ie, q, r) # <<>>
    BY PortNodes DEF Ready
  <2> QED BY <1>1, <2>1 DEF Contents
<1>7. f2[h] \in Nat /\ u \in Nat /\ Stretch(b, s, f2[h], u) /\ b \in Seq(Token)
  <2>1. b = (IF h = n THEN Tail(q[e]) ELSE q[e]) /\ f2[h] = (IF h = n THEN f[h] + 1 ELSE f[h])
    BY <1>1, <1>2, <1>4 DEF Pop
  <2>2. f[h] \in Nat /\ f2[h] \in Nat /\ u \in Nat
    BY <1>1, <1>4, <2>1
  <2> HIDE DEF b, s, h, u, e
  <2>3. Stretch(b, s, f2[h], u)
    BY <1>4, <1>6, <2>1, <2>2, StretchTail
  <2> QED BY <2>2, <2>3 DEF Stretch
<1>8. q2[e] = IF m = n THEN b \o a ELSE b
  BY <1>1, <1>3 DEF Push, Pop
<1>9. ASSUME m = n
      PROVE  u2 \in Nat /\ Stretch(a, s, u, u2)
  <2>1. Answered(n, K.calls[n], s, K.upto[n])
    BY <1>9 DEF Solves
  <2>2. u = K.upto[n][k - 1] /\ u2 = K.upto[n][k]
    BY <1>1, <1>4, <1>5, <1>9
  <2>3. a = Answer(n, K.calls[n][k]) /\ K.calls[n] \in Seq(Token)
    BY DEF Solves
  <2> HIDE DEF k, s, u, u2, e, m
  <2>4. /\ K.upto[n][k] = K.upto[n][k - 1] + Len(a)
        /\ \A i \in DOMAIN a : s[K.upto[n][k - 1] + i] = a[i]
    BY <1>5, <2>1, <2>3 DEF Answered
  <2>5. u2 = u + Len(a) /\ \A i \in 1 .. Len(a) : s[u + i] = a[i]
    <3>1. DOMAIN a = 1 .. Len(a)
      BY <1>5
    <3> QED BY <2>2, <2>4, <3>1
  <2>6. u2 \in Nat /\ Len(a) = u2 - u
    BY <1>5, <1>7, <2>5
  <2> QED BY <1>5, <2>5, <2>6 DEF Stretch
<1>10. m # n => u2 = u
  BY <1>1, <1>4
<1> HIDE DEF e, s, m, h, u, u2, b
<1>11. Stretch(q2[e], s, f2[h], u2)
  BY <1>7, <1>8, <1>9, <1>10, StretchConcat
<1> QED BY <1>11 DEF e, s, m, h, u2

\* A firing is one call more.
LEMMA ProgressStep ==
  ASSUME NEW ie, NEW oe, NEW K, Solves(ie, oe, K),
         NEW f, NEW q \in [Edge -> Seq(Token)], NEW l \in [Node -> Nat],
         NEW g \in [Node -> Seq(Token)],
         Progress(ie, oe, K, f, q, l, g),
         NEW n \in Node, Ready(ie, q, l, n),
         NEW t, t = Offered(ie, q, l, n),
         NEW q2, q2 = Push(Pop(q, EdgesAt(ie, Ports(n, NumIn[n]))),
                           EdgesAt(oe, Ports(n, NumOut[n])), Answer(n, t)),
         NEW l2, l2 = IF Category[n] = "source" THEN [l EXCEPT ![n] = @ - 1] ELSE l,
         NEW g2, g2 = IF Category[n] = "sink" THEN [g EXCEPT ![n] = Append(@, t)] ELSE g
  PROVE  Progress(ie, oe, K, [f EXCEPT ![n] = @ + 1], q2, l2, g2)
<1> DEFINE f2 == [f EXCEPT ![n] = @ + 1]
<1>1. f[n] < Len(K.calls[n]) /\ t = K.calls[n][f[n] + 1]
  <2>1. ToCome(K, f, n, Offered(ie, q, l, n))
    <3> HIDE DEF f2
    <3> QED BY NextCall, ZenonT(60)
  <2> QED BY <2>1 DEF ToCome
<1>2. /\ f \in [Node -> Nat]
      /\ \A m \in Node : K.calls[m] \in Seq(Token) /\ f[m] <= Len(K.calls[m])
  BY DEF Progress, Solves
<1>3. t \in Token /\ Answer(n, t) \in Seq(Token) /\ f[n] + 1 \in DOMAIN K.calls[n]
  BY <1>1, <1>2, AnswerType
<1>4. f2 \in [Node -> Nat] /\ \A m \in Node : f2[m] = IF m = n THEN f[m] + 1 ELSE f[m]
  BY <1>2
<1> HIDE DEF f2
<1>5. ASSUME NEW m \in Node PROVE f2[m] <= Len(K.calls[m])
  <2>1. Len(K.calls[m]) \in Nat /\ f[m] \in Nat /\ f[m] <= Len(K.calls[m])
    BY <1>2
  <2>2. f2[m] = IF m = n THEN f[m] + 1 ELSE f[m]
    BY <1>4
  <2> QED BY <1>1, <2>1, <2>2
<1>6. ASSUME NEW m \in Node, Category[m] = "source" PROVE l2[m] = Length[m] - f2[m]
  <2>1. l[m] = Length[m] - f[m] /\ l[m] \in Nat /\ Length[m] \in Nat
    BY <1>6, DfpAssumption DEF Progress
  <2>2. l2[m] = IF m = n THEN l[m] - 1 ELSE l[m]
    BY <1>6
  <2>3. f[m] \in Nat /\ f2[m] = IF m = n THEN f[m] + 1 ELSE f[m]
    BY <1>2, <1>4
  <2> QED BY <2>1, <2>2, <2>3
<1>7. ASSUME NEW m \in Sinks
      PROVE  /\ g2[m] \in Seq(Token) /\ Len(g2[m]) = f2[m]
             /\ \A i \in 1 .. f2[m] : g2[m][i] = K.calls[m][i]
  <2>1. /\ m \in Node /\ Category[m] = "sink" /\ g[m] \in Seq(Token) /\ Len(g[m]) = f[m]
        /\ \A i \in 1 .. f[m] : g[m][i] = K.calls[m][i]
    BY DEF Progress, Sinks
  <2>2. CASE m = n
    <3>1. g2[m] = Append(g[m], t) /\ f2[m] = f[m] + 1
      BY <1>4, <2>1, <2>2
    <3>2. Len(g2[m]) = f[m] + 1 /\ g2[m][f[m] + 1] = t /\ \A i \in 1 .. f[m] : g2[m][i] = g[m][i]
      BY <1>3, <2>1, <3>1
    <3> QED BY <1>1, <1>2, <1>3, <2>1, <2>2, <3>1, <3>2
  <2>3. CASE m # n
    <3>1. g2[m] = g[m] /\ f2[m] = f[m]
      BY <1>4, <2>1, <2>3
    <3> QED BY <2>1, <3>1
  <2> QED BY <2>2, <2>3
<1>8. ASSUME NEW p \in OutPort, NEW r \in InPort, oe[p] = ie[r], oe[p] # NoEdge
      PROVE  Stretch(q2[oe[p]], K.stream[oe[p]], f2[r[1]], K.upto[p[1]][f2[p[1]]])
  <2>1. f2 = [f EXCEPT ![n] = @ + 1] /\ Answer(n, t) = Answer(n, K.calls[n][f[n] + 1])
    BY <1>1 DEF f2
  <2> QED BY <1>1, <1>8, <2>1, EdgeStep, ZenonT(60)
<1>9. Progress(ie, oe, K, f2, q2, l2, g2)
  BY <1>4, <1>5, <1>6, <1>7, <1>8 DEF Progress
<1> QED BY <1>9 DEF f2

\* Any nonempty set of natural numbers has a least one.
LEMMA LeastNatural ==
  ASSUME NEW S, S \subseteq Nat, S # {}
  PROVE  \E m \in S : \A k \in S : m <= k
<1> DEFINE R == {ss \in Nat \X Nat : ss[1] < ss[2]}
<1>1. IsWellFoundedOn(R, Nat)
  BY NatLessThanWellFounded DEF OpToRel
<1> HIDE DEF R
<1>2. PICK m \in S : \A k \in S : <<k, m>> \notin R
  BY <1>1, WFMin
<1>3. ASSUME NEW k \in S PROVE m <= k
  <2>1. ~(k < m)
    BY <1>2 DEF R
  <2> QED BY <2>1
<1> QED BY <1>3

\* Induction over the natural numbers, for a set of them.
LEMMA AllNaturals ==
  ASSUME NEW S, 0 \in S, \A k \in Nat : k \in S => k + 1 \in S
  PROVE  Nat \subseteq S
<1> SUFFICES ASSUME Nat \ S # {} PROVE FALSE
  OBVIOUS
<1>1. PICK m \in Nat \ S : \A k \in Nat \ S : m <= k
  BY LeastNatural
<1>2. m # 0 /\ m - 1 \in Nat
  BY <1>1
<1>3. m - 1 \in S
  BY <1>1, <1>2
<1> QED BY <1>1, <1>2, <1>3

\* Each node of S is fed by one of S.
FedWithin(ie, oe, S) ==
  \A n \in S : \E p \in OutPort, r \in InPort :
    oe[p] = ie[r] /\ oe[p] # NoEdge /\ r[1] = n /\ p[1] \in S

\* Edges lead upwards, so there are no such nodes.
LEMMA NoDescent ==
  ASSUME NEW ie, NEW oe, NEW depth, Climbs(ie, oe, depth), NEW S \in SUBSET Node,
         FedWithin(ie, oe, S)
  PROVE  S = {}
<1> SUFFICES ASSUME S # {} PROVE FALSE
  OBVIOUS
<1>1. \A n \in S : depth[n] \in Nat
  BY DEF Climbs
<1>2. PICK n \in S : \A m \in S : depth[n] <= depth[m]
  <2> DEFINE D == {depth[m] : m \in S}
  <2>1. D \subseteq Nat /\ D # {}
    BY <1>1
  <2> HIDE DEF D
  <2>2. PICK k \in D : \A j \in D : k <= j
    BY <2>1, LeastNatural
  <2> QED BY <2>2 DEF D
<1>3. PICK p \in OutPort, r \in InPort :
        oe[p] = ie[r] /\ oe[p] # NoEdge /\ r[1] = n /\ p[1] \in S
  BY DEF FedWithin
<1>4. depth[p[1]] < depth[n]
  BY <1>3 DEF Climbs
<1>5. depth[n] <= depth[p[1]]
  BY <1>2, <1>3
<1> QED BY <1>1, <1>3, <1>4, <1>5

\* Node n has calls to come.
Lags(K, f, n) == f[n] < Len(K.calls[n])

\* Its edge from port p to port r is empty, and the node of port p has calls to come.
Starves(ie, oe, K, f, q, n) ==
  \E p \in OutPort, r \in InPort :
    /\ oe[p] = ie[r] /\ oe[p] # NoEdge /\ r[1] = n
    /\ q[oe[p]] = <<>> /\ Lags(K, f, p[1])

\* If it cannot be called yet, it waits for another node's call.
LEMMA Starved ==
  ASSUME NEW ie, NEW oe, NEW K, Solves(ie, oe, K),
         NEW f, NEW q \in [Edge -> Seq(Token)], NEW l, NEW g,
         Progress(ie, oe, K, f, q, l, g),
         NEW n \in Node, Lags(K, f, n), ~Ready(ie, q, l, n)
  PROVE  Starves(ie, oe, K, f, q, n)
<1>1. f[n] \in Nat /\ K.calls[n] \in Seq(Token) /\ Called(n, K.calls[n], ie, K.stream)
  BY DEF Progress, Solves
<1>2. Category[n] # "source"
  <2> SUFFICES ASSUME Category[n] = "source" PROVE FALSE
    OBVIOUS
  <2>1. /\ K.calls[n] = [k \in 1 .. Length[n] |-> {<<n, k>>}]
        /\ l[n] = Length[n] - f[n] /\ Length[n] \in Nat
    BY <1>1, DfpAssumption DEF Called, Progress
  <2>2. Len(K.calls[n]) = Length[n]
    BY <2>1
  <2>3. l[n] > 0
    BY <1>1, <2>1, <2>2 DEF Lags
  <2>4. Ports(n, NumIn[n]) = {}
    BY DfpAssumption DEF Ports
  <2> QED BY <2>3, <2>4 DEF Ready
<1>3. PICK r \in Ports(n, NumIn[n]) : Contents(ie, q, r) = <<>>
  BY <1>2 DEF Ready
<1>4. r \in InPort /\ r[1] = n /\ Len(K.calls[n]) <= Len(K.stream[ie[r]])
  BY <1>1, <1>2, PortNodes DEF Called
<1>5. ie[r] # NoEdge
  <2>1. ie[r] = NoEdge => Len(K.stream[ie[r]]) = 0
    BY DEF Solves
  <2> QED BY <1>1, <1>4, <2>1 DEF Lags
<1>6. PICK p \in OutPort : oe[p] = ie[r]
  BY <1>4, <1>5, Feeder DEF Solves
<1> DEFINE m == p[1]
           s == K.stream[oe[p]]
<1>7. /\ q[oe[p]] = <<>> /\ oe[p] # NoEdge /\ Len(K.calls[n]) <= Len(s) /\ Len(s) \in Nat
      /\ K.upto[m][f[m]] \in 0 .. Len(s)
  BY <1>3, <1>4, <1>5, <1>6, PutSoFar DEF Contents
<1>8. K.upto[m][f[m]] = f[n]
  <2>1. Stretch(q[oe[p]], s, f[n], K.upto[m][f[m]])
    BY <1>4, <1>6, <1>7 DEF Progress
  <2>2. 0 = K.upto[m][f[m]] - f[n]
    BY <1>7, <2>1 DEF Stretch
  <2> HIDE DEF s, m
  <2> QED BY <1>1, <1>7, <2>2
<1>9. K.upto[m][Len(K.calls[m])] = Len(s)
  BY <1>7 DEF Solves, Answered
<1>10. f[m] \in Nat /\ Len(K.calls[m]) \in Nat /\ f[m] <= Len(K.calls[m])
  BY PortNodes DEF Progress, Solves
<1>11. f[n] < Len(s)
  <2> HIDE DEF s
  <2> QED BY <1>1, <1>7 DEF Lags
<1>12. f[m] # Len(K.calls[m])
  <2> HIDE DEF s, m
  <2> QED BY <1>1, <1>7, <1>8, <1>9, <1>11
<1>13. Lags(K, f, m)
  <2> HIDE DEF s, m
  <2> QED BY <1>10, <1>12 DEF Lags
<1> QED BY <1>4, <1>6, <1>7, <1>13 DEF Starves

\* The sinks have got beginnings of their streams, and all of them in the end.
LEMMA SinksInStep ==
  ASSUME NEW ie, NEW oe, NEW K, Solves(ie, oe, K),
         NEW f, NEW q, NEW l, NEW g, Progress(ie, oe, K, f, q, l, g),
         NEW n \in Sinks
  PROVE  IsPrefix(g[n], K.calls[n])
<1>1. /\ n \in Node /\ g[n] \in Seq(Token) /\ Len(g[n]) = f[n]
      /\ \A i \in 1 .. f[n] : g[n][i] = K.calls[n][i]
      /\ K.calls[n] \in Seq(Token) /\ f[n] \in Nat /\ f[n] <= Len(K.calls[n])
  BY DEF Progress, Solves, Sinks
<1> QED BY <1>1 DEF IsPrefix

LEMMA SinksDone ==
  ASSUME NEW ie, NEW oe, NEW K, Solves(ie, oe, K),
         NEW f, NEW q, NEW l, NEW g, Progress(ie, oe, K, f, q, l, g),
         NEW n \in Sinks, ~Lags(K, f, n)
  PROVE  g[n] = K.calls[n]
<1>1. /\ n \in Node /\ g[n] \in Seq(Token) /\ Len(g[n]) = f[n]
      /\ \A i \in 1 .. f[n] : g[n][i] = K.calls[n][i]
      /\ K.calls[n] \in Seq(Token) /\ f[n] \in Nat /\ f[n] <= Len(K.calls[n])
  BY DEF Progress, Solves, Sinks
<1>2. Len(K.calls[n]) = f[n]
  BY <1>1 DEF Lags
<1> QED BY <1>1, <1>2

\* If no node can be called, all have had all of their calls: the scheduling has
\* left no trace.
LEMMA AtRest ==
  ASSUME NEW ie, NEW oe, NEW K, Solves(ie, oe, K),
         NEW f, NEW q \in [Edge -> Seq(Token)], NEW l, NEW g,
         Progress(ie, oe, K, f, q, l, g),
         \A n \in Node : ~Ready(ie, q, l, n)
  PROVE  \A n \in Node : ~Lags(K, f, n)
<1> DEFINE S == {n \in Node : Lags(K, f, n)}
<1>1. ASSUME NEW n \in S
      PROVE  \E p \in OutPort, r \in InPort :
               oe[p] = ie[r] /\ oe[p] # NoEdge /\ r[1] = n /\ p[1] \in S
  <2>1. n \in Node /\ Lags(K, f, n) /\ ~Ready(ie, q, l, n)
    OBVIOUS
  <2> HIDE DEF S
  <2>2. Starves(ie, oe, K, f, q, n)
    BY <2>1, Starved, ZenonT(60)
  <2>3. PICK p \in OutPort, r \in InPort :
           /\ oe[p] = ie[r] /\ oe[p] # NoEdge /\ r[1] = n /\ Lags(K, f, p[1])
    BY <2>2 DEF Starves
  <2> QED BY <2>3, PortNodes DEF S
<1>2. Climbs(ie, oe, K.depth) /\ S \in SUBSET Node
  BY DEF Solves
<1> HIDE DEF S
<1>3. FedWithin(ie, oe, S)
  BY <1>1 DEF FedWithin
<1>4. S = {}
  BY <1>2, <1>3, NoDescent
<1> QED BY <1>4 DEF S
-----------------------------------------------------------------------------
(* The equations of a wiring have no more than one solution.               *)

\* The answers to some calls, one after another, are one sequence.
LEMMA OneAnswer ==
  ASSUME NEW n \in Node, NEW calls \in Seq(Token),
         NEW s \in Seq(Token), NEW t \in Seq(Token), NEW u, NEW v,
         Answered(n, calls, s, u), Answered(n, calls, t, v)
  PROVE  s = t
<1> DEFINE Same(k) == u[k] = v[k] /\ \A i \in 1 .. u[k] : s[i] = t[i]
           S == {k \in Nat : k <= Len(calls) => Same(k)}
<1>1. Len(calls) \in Nat /\ Len(s) \in Nat /\ Len(t) \in Nat /\ DOMAIN calls = 1 .. Len(calls)
  OBVIOUS
<1>2. 0 \in S
  BY DEF Answered
<1>3. ASSUME NEW k \in Nat, k \in S PROVE k + 1 \in S
  <2> SUFFICES ASSUME k + 1 <= Len(calls) PROVE Same(k + 1)
    OBVIOUS
  <2> DEFINE j == k + 1
             a == Answer(n, calls[j])
  <2>1. j \in DOMAIN calls /\ j - 1 = k /\ k \in 0 .. Len(calls) /\ j \in 0 .. Len(calls)
    BY <1>1
  <2>2. a \in Seq(Token)
    BY <2>1, AnswerType
  <2>3. /\ u[k] \in Nat /\ u[j] = u[k] + Len(a) /\ \A i \in DOMAIN a : s[u[k] + i] = a[i]
        /\ v[j] = v[k] + Len(a) /\ \A i \in DOMAIN a : t[v[k] + i] = a[i]
    <3> HIDE DEF a, j
    <3>1. j \in DOMAIN calls /\ u[j - 1] = u[k] /\ v[j - 1] = v[k] /\ a = Answer(n, calls[j])
      BY <2>1 DEF a
    <3>2. u \in [0 .. Len(calls) -> 0 .. Len(s)]
      BY DEF Answered
    <3>3. u[k] \in Nat
      BY <2>1, <3>2
    <3>4. u[j] = u[j - 1] + Len(a) /\ \A i \in DOMAIN a : s[u[j - 1] + i] = a[i]
      BY <3>1 DEF Answered
    <3>5. v[j] = v[j - 1] + Len(a) /\ \A i \in DOMAIN a : t[v[j - 1] + i] = a[i]
      BY <3>1 DEF Answered
    <3> QED BY <3>1, <3>3, <3>4, <3>5
  <2>4. u[k] = v[k] /\ \A i \in 1 .. u[k] : s[i] = t[i]
    BY <1>3, <2>1
  <2>5. DOMAIN a = 1 .. Len(a) /\ Len(a) \in Nat
    BY <2>2
  <2> HIDE DEF a, j, S
  <2>6. u[j] = v[j]
    BY <2>3, <2>4
  <2>7. ASSUME NEW i \in 1 .. u[j] PROVE s[i] = t[i]
    <3>1. CASE i <= u[k]
      BY <2>3, <2>4, <3>1
    <3>2. CASE i > u[k]
      <4> DEFINE d == i - u[k]
      <4>1. d \in DOMAIN a /\ u[k] + d = i
        BY <2>3, <2>5, <3>2
      <4> HIDE DEF d
      <4>2. s[u[k] + d] = a[d] /\ t[v[k] + d] = a[d]
        BY <2>3, <4>1
      <4> QED BY <2>4, <4>1, <4>2
    <3> QED BY <2>3, <3>1, <3>2
  <2> QED BY <2>6, <2>7 DEF j
<1> HIDE DEF S
<1>4. Len(calls) \in S
  BY <1>1, <1>2, <1>3, AllNaturals
<1>5. Same(Len(calls))
  BY <1>1, <1>4 DEF S
<1>6. u[Len(calls)] = Len(s) /\ v[Len(calls)] = Len(t)
  BY DEF Answered
<1>7. Len(s) = Len(t) /\ \A i \in 1 .. Len(s) : s[i] = t[i]
  BY <1>5, <1>6
<1> HIDE DEF Same
<1> QED BY <1>7

\* The same streams make the same calls.
LEMMA OneCalling ==
  ASSUME NEW n \in Node, NEW c \in Seq(Token), NEW d \in Seq(Token),
         NEW ie, NEW x, NEW y, Called(n, c, ie, x), Called(n, d, ie, y),
         \A p \in Ports(n, NumIn[n]) : x[ie[p]] = y[ie[p]] /\ x[ie[p]] \in Seq(Token)
  PROVE  c = d
<1>1. CASE Category[n] = "source"
  BY <1>1 DEF Called
<1>2. CASE Category[n] # "source"
  <2> DEFINE P == Ports(n, NumIn[n])
  <2>1. /\ \A p \in P : Len(c) <= Len(x[ie[p]]) /\ Len(d) <= Len(x[ie[p]])
        /\ \E p \in P : Len(c) = Len(x[ie[p]])
        /\ \E p \in P : Len(d) = Len(x[ie[p]])
    BY <1>2 DEF Called
  <2>2. Len(c) \in Nat /\ Len(d) \in Nat
    OBVIOUS
  <2>3. Len(c) = Len(d)
    BY <2>1, <2>2
  <2>4. ASSUME NEW k \in 1 .. Len(c) PROVE c[k] = d[k]
    <3>1. /\ c[k] = UNION {x[ie[p]][k] : p \in P}
          /\ d[k] = UNION {y[ie[p]][k] : p \in P}
      BY <1>2, <2>3 DEF Called
    <3>2. {x[ie[p]][k] : p \in P} = {y[ie[p]][k] : p \in P}
      OBVIOUS
    <3> QED BY <3>1, <3>2
  <2> QED BY <2>3, <2>4
<1> QED BY <1>1, <1>2

\* What an acyclic graph means is fixed by its wiring and its bodies alone: there
\* are no two ways to solve its equations that a node could tell apart.
THEOREM OneMeaning ==
  ASSUME NEW ie, NEW oe, NEW K, NEW L, Solves(ie, oe, K), Solves(ie, oe, L)
  PROVE  /\ K.calls = L.calls
         /\ \A e \in EdgesAt(oe, OutPort) : K.stream[e] = L.stream[e]
<1> DEFINE S == {n \in Node : K.calls[n] # L.calls[n]}
<1>1. /\ K.calls \in [Node -> Seq(Token)] /\ L.calls \in [Node -> Seq(Token)]
      /\ K.stream \in [Edge \cup {NoEdge} -> Seq(Token)] /\ K.stream[NoEdge] = <<>>
      /\ L.stream \in [Edge \cup {NoEdge} -> Seq(Token)] /\ L.stream[NoEdge] = <<>>
      /\ Joins(ie, oe)
  BY DEF Solves
<1>2. ASSUME NEW p \in OutPort, oe[p] # NoEdge, p[1] \notin S
      PROVE  K.stream[oe[p]] = L.stream[oe[p]]
  <2>1. /\ p[1] \in Node /\ oe[p] \in Edge
        /\ K.calls[p[1]] = L.calls[p[1]] /\ K.calls[p[1]] \in Seq(Token)
        /\ K.stream[oe[p]] \in Seq(Token) /\ L.stream[oe[p]] \in Seq(Token)
    BY <1>1, <1>2, PortNodes DEF Joins
  <2>2. /\ Answered(p[1], K.calls[p[1]], K.stream[oe[p]], K.upto[p[1]])
        /\ Answered(p[1], K.calls[p[1]], L.stream[oe[p]], L.upto[p[1]])
    BY <1>2, <2>1 DEF Solves
  <2> QED BY <2>1, <2>2, OneAnswer, ZenonT(60)
<1>3. ASSUME NEW n \in S
      PROVE  \E p \in OutPort, r \in InPort :
               oe[p] = ie[r] /\ oe[p] # NoEdge /\ r[1] = n /\ p[1] \in S
  <2>1. /\ n \in Node /\ K.calls[n] # L.calls[n]
        /\ K.calls[n] \in Seq(Token) /\ L.calls[n] \in Seq(Token)
        /\ Called(n, K.calls[n], ie, K.stream) /\ Called(n, L.calls[n], ie, L.stream)
    BY <1>1 DEF Solves
  <2>2. \A p \in Ports(n, NumIn[n]) : K.stream[ie[p]] \in Seq(Token)
    BY <1>1, <2>1, PortNodes DEF Joins
  <2> HIDE DEF S
  <2>3. PICK r \in Ports(n, NumIn[n]) : K.stream[ie[r]] # L.stream[ie[r]]
    <3> SUFFICES ASSUME \A r \in Ports(n, NumIn[n]) : K.stream[ie[r]] = L.stream[ie[r]]
                 PROVE  FALSE
      OBVIOUS
    <3> DEFINE c == K.calls[n]
               d == L.calls[n]
               x == K.stream
               y == L.stream
    <3>1. /\ n \in Node /\ c \in Seq(Token) /\ d \in Seq(Token)
          /\ Called(n, c, ie, x) /\ Called(n, d, ie, y)
          /\ \A p \in Ports(n, NumIn[n]) : x[ie[p]] = y[ie[p]] /\ x[ie[p]] \in Seq(Token)
      BY <2>1, <2>2
    <3>2. c # d
      BY <2>1
    <3> HIDE DEF c, d, x, y
    <3> QED BY <3>1, <3>2, OneCalling
  <2>4. r \in InPort /\ r[1] = n /\ ie[r] # NoEdge
    BY <1>1, <2>1, <2>3, PortNodes
  <2>5. PICK p \in OutPort : oe[p] = ie[r]
    BY <1>1, <2>4, Feeder
  <2>6. p[1] \in S
    BY <1>2, <2>3, <2>4, <2>5
  <2> QED BY <2>4, <2>5, <2>6
<1>4. Climbs(ie, oe, K.depth) /\ S \in SUBSET Node
  BY DEF Solves
<1>5. S = {}
  <2> HIDE DEF S
  <2>1. FedWithin(ie, oe, S)
    BY <1>3 DEF FedWithin
  <2> QED BY <1>4, <2>1, NoDescent
<1>6. K.calls = L.calls
  BY <1>1, <1>5
<1>7. ASSUME NEW e \in EdgesAt(oe, OutPort) PROVE K.stream[e] = L.stream[e]
  <2>1. PICK p \in OutPort : e = oe[p] /\ oe[p] # NoEdge
    BY DEF EdgesAt
  <2> QED BY <1>2, <1>5, <2>1
<1> QED BY <1>6, <1>7
=============================================================================
