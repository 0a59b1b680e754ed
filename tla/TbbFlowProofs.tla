--------------------------- MODULE TbbFlowProofs ---------------------------
(***************************************************************************)
(* Theorems about the multi threaded engine, for every graph, any number   *)
(* of threads and every behaviour of the node bodies.                      *)
(***************************************************************************)
EXTENDS TbbFlow, DfpProofs, FiniteSetTheorems, SequenceTheorems

-----------------------------------------------------------------------------
(* Type correctness.                                                       *)

\* What some body is given by one call.
Call == UNION {[0 .. NumIn[n] - 1 -> Token] : n \in Node}

\* TypeOK, that a source has never more left than it began with, and that what is
\* kept by node or by port is kept for each of them.
Typed ==
  /\ TypeOK
  /\ \A n \in Node : left[n] <= Length[n]
  /\ body \in [Node -> Seq(Call)]
  /\ flight \in [OutPort -> SUBSET Message] /\ held \in [OutPort -> SUBSET Message]

\* A node's ports are ports, and a port is one of a node.
LEMMA NodePorts ==
  /\ \A n \in Node : Inputs(n) \subseteq InPort /\ Outputs(n) \subseteq OutPort
  /\ \A p \in InPort : p[1] \in Node /\ p[2] \in 0 .. NumIn[p[1]] - 1
  /\ \A p \in OutPort : p[1] \in Node /\ p[2] \in 0 .. NumOut[p[1]] - 1
  /\ \A n \in Node : \A i \in 0 .. NumIn[n] - 1 : <<n, i>> \in Inputs(n) /\ <<n, i>> \in InPort
BY DfpAssumption DEF Inputs, Outputs, Ports, InPort, OutPort

\* A sequence of at most one element that is not empty has that one.
LEMMA Singleton ==
  ASSUME NEW C, NEW s \in Seq(C), s # <<>>, Len(s) <= 1
  PROVE  Len(s) = 1 /\ s[1] \in C
<1>1. Len(s) \in Nat \ {0}
  BY EmptySeq
<1>2. \A k \in Nat \ {0} : k <= 1 => k = 1
  OBVIOUS
<1>3. Len(s) = 1
  BY <1>1, <1>2
<1> QED BY <1>3

\* A body that runs is given a token at each of its ports.
LEMMA Given ==
  ASSUME Typed, NEW n \in Running
  PROVE  /\ n \in Node /\ Len(body[n]) = 1
         /\ Ins(n) \in [0 .. NumIn[n] - 1 -> Token]
         /\ Seen(n) \in Token
<1>1. n \in Node /\ body[n] # <<>> /\ body[n] \in Seq([0 .. NumIn[n] - 1 -> Token])
  BY DEF Running, Typed, TypeOK
<1>4. Len(body[n]) <= 1
  BY <1>1 DEF Typed, TypeOK
<1>2. Len(body[n]) = 1 /\ Ins(n) \in [0 .. NumIn[n] - 1 -> Token]
  <2> DEFINE C == [0 .. NumIn[n] - 1 -> Token]
  <2> HIDE DEF C
  <2>1. body[n] \in Seq(C) /\ body[n] # <<>> /\ Len(body[n]) <= 1
    BY <1>1, <1>4 DEF C
  <2>2. Len(body[n]) = 1 /\ body[n][1] \in C
    BY <2>1, Singleton
  <2> QED BY <2>2 DEF C, Ins
<1>3. Seen(n) \in Token
  BY <1>2 DEF Seen, Token
<1> QED BY <1>1, <1>2, <1>3

\* A call leaves a sequence of tokens in the queue of a queuedout body.
LEMMA QueuedType ==
  ASSUME Typed, NEW n \in Running
  PROVE  Queued(n) \in Seq(Token)
BY Given, EmissionType DEF Queued, Answer

\* At most one call of each body.
BodyTyped(b) ==
  /\ b \in [Node -> Seq(Call)]
  /\ \A n \in Node : b[n] \in Seq([0 .. NumIn[n] - 1 -> Token]) /\ Len(b[n]) <= 1

LEMMA NoCall ==
  ASSUME NEW n \in Node
  PROVE  <<>> \in Seq([0 .. NumIn[n] - 1 -> Token]) /\ Len(<<>>) <= 1
OBVIOUS

LEMMA OneCall ==
  ASSUME NEW n \in Node, NEW ins \in [0 .. NumIn[n] - 1 -> Token]
  PROVE  <<ins>> \in Seq([0 .. NumIn[n] - 1 -> Token]) /\ Len(<<ins>>) <= 1
<1> DEFINE C == [0 .. NumIn[n] - 1 -> Token]
<1>1. ins \in C
  OBVIOUS
<1> HIDE DEF C
<1>2. <<ins>> \in Seq(C) /\ Len(<<ins>>) <= 1
  BY <1>1
<1> QED BY <1>2 DEF C

\* A call that begins or ends leaves the other bodies as they are.
LEMMA BodyKept ==
  ASSUME BodyTyped(body), NEW n \in Node,
         NEW s \in Seq([0 .. NumIn[n] - 1 -> Token]), Len(s) <= 1,
         body' = [body EXCEPT ![n] = s]
  PROVE  BodyTyped(body')
<1>1. s \in Seq(Call)
  <2> DEFINE C == [0 .. NumIn[n] - 1 -> Token]
  <2>1. C \subseteq Call /\ s \in Seq(C)
    BY DEF Call
  <2> HIDE DEF C
  <2> QED BY <2>1
<1>2. \A m \in Node : body'[m] = IF m = n THEN s ELSE body[m]
  BY DEF BodyTyped
<1>3. body' \in [Node -> Seq(Call)]
  BY <1>1 DEF BodyTyped
<1>4. ASSUME NEW m \in Node
      PROVE  body'[m] \in Seq([0 .. NumIn[m] - 1 -> Token]) /\ Len(body'[m]) <= 1
  BY <1>2 DEF BodyTyped
<1> QED BY <1>3, <1>4 DEF BodyTyped

\* A node that starts takes a token from each of its ports.
LEMMA StartType ==
  ASSUME Typed, NEW n \in Node, Start(n)
  PROVE  Typed'
<1>1. ASSUME NEW i \in 0 .. NumIn[n] - 1
      PROVE  Head(inbox[iedge[<<n, i>>]]) \in Token
  <2>1. <<n, i>> \in Inputs(n) /\ <<n, i>> \in InPort
    BY NodePorts
  <2>2. iedge[<<n, i>>] \in Edge /\ inbox[iedge[<<n, i>>]] # <<>>
    BY <2>1 DEF Start, Contents, Typed, TypeOK
  <2> QED BY <2>2 DEF Typed, TypeOK
<1>2. [i \in 0 .. NumIn[n] - 1 |-> Head(inbox[iedge[<<n, i>>]])]
        \in [0 .. NumIn[n] - 1 -> Token]
  BY <1>1
<1>3. BodyTyped(body')
  <2> DEFINE ins == [i \in 0 .. NumIn[n] - 1 |-> Head(inbox[iedge[<<n, i>>]])]
  <2>1. ins \in [0 .. NumIn[n] - 1 -> Token] /\ body' = [body EXCEPT ![n] = <<ins>>]
    BY <1>2 DEF Start
  <2> HIDE DEF ins
  <2> QED BY <2>1, BodyKept, OneCall DEF Typed, TypeOK, BodyTyped
<1>4. \A e \in EdgesAt(iedge, Inputs(n)) : inbox[e] # <<>>
  BY DEF Start, EdgesAt, Contents
<1>5. inbox' \in [Edge -> Seq(Token)]
  BY <1>4, PopType DEF Start, Typed, TypeOK
<1> QED BY <1>3, <1>5 DEF Start, Typed, TypeOK, BodyTyped, wires

\* No call of one node's body, of any category, breaks the types.
LEMMA NodeType ==
  ASSUME Typed, NEW n \in Node, NodeStep(n)
  PROVE  Typed'
<1>1. CASE Generate(n)
  <2>1. left[n] \in Nat \ {0} /\ Length[n] \in Nat /\ left[n] <= Length[n]
    <3>1. left[n] \in Nat /\ left[n] > 0 /\ left[n] <= Length[n]
      BY <1>1 DEF Generate, HasMore, Typed, TypeOK
    <3>2. Length[n] \in Nat
      BY DfpAssumption
    <3> QED BY <3>1, <3>2
  <2>2. Length[n] - left[n] + 1 \in Nat
    BY <2>1
  <2>3. Fresh(n, left[n]) \in Token
    BY <2>2 DEF Fresh, Token, Item
  <2>4. <<Fresh(n, left[n])>> \in Seq(Token)
    BY <2>3
  <2>5. inbox' \in [Edge -> Seq(Token)]
    BY <1>1, <2>4, PushType DEF Generate, Typed, TypeOK
  <2>6. left' \in [Node -> Nat] /\ \A m \in Node : left'[m] <= Length[m]
    <3>1. /\ left' = [left EXCEPT ![n] = left[n] - 1]
          /\ left \in [Node -> Nat] /\ \A m \in Node : left[m] <= Length[m]
      BY <1>1 DEF Generate, Typed, TypeOK
    <3>2. left[n] - 1 \in Nat /\ left[n] - 1 <= Length[n]
      BY <2>1
    <3> QED BY <3>1, <3>2
  <2>7. seqno' \in [Node -> Nat]
    BY <1>1 DEF Generate, Typed, TypeOK
  <2> QED BY <1>1, <2>5, <2>6, <2>7 DEF Generate, Typed, TypeOK, BodyTyped, wires
<1>2. CASE Start(n)
  BY <1>2, StartType
<1>3. Return(n) => n \in Running /\ BodyTyped(body')
  BY BodyKept, NoCall DEF Return, Typed, TypeOK, BodyTyped
<1>4. CASE Throw(n)
  BY <1>3, <1>4 DEF Throw, Typed, TypeOK, BodyTyped, wires
<1>5. CASE FinishSink(n)
  <2>1. Seen(n) \in Token /\ got[n] \in Seq(Token) /\ got' = [got EXCEPT ![n] = Append(@, Seen(n))]
    BY <1>3, <1>5, Given DEF FinishSink, Typed, TypeOK
  <2>2. got' \in [Node -> Seq(Token)]
    BY <2>1 DEF Typed, TypeOK
  <2> QED BY <1>3, <1>5, <2>2 DEF FinishSink, Typed, TypeOK, BodyTyped, wires
<1>6. CASE FinishFunction(n)
  <2>1. Numbers(n) = 1 /\ Seen(n) \in Token /\ Void \in Token
    BY <1>3, <1>6, Given DEF FinishFunction, Numbers, Void, Token
  <2>2. seqno' \in [Node -> Nat]
    BY <1>6, <2>1 DEF FinishFunction, Typed, TypeOK
  <2>3. seqno[n] \in Nat
    BY DEF Typed, TypeOK
  <2>4. flight' \in [OutPort -> SUBSET Message]
    <3> DEFINE out == IF Refuses(n, Seen(n)) THEN Void ELSE Seen(n)
    <3>1. <<seqno[n], out>> \in Message
      BY <2>1, <2>3 DEF Message
    <3> HIDE DEF out
    <3>2. CASE flight' = [p \in OutPort |-> IF p[1] = n THEN flight[p] \cup {<<seqno[n], out>>}
                                            ELSE flight[p]]
      BY <3>1, <3>2 DEF Typed
    <3>3. CASE UNCHANGED flight
      BY <3>3 DEF Typed
    <3> QED BY <1>6, <3>2, <3>3 DEF FinishFunction, out
  <2>5. status' \in {"run", "threw", "asserted"}
    BY <1>6 DEF FinishFunction, Typed, TypeOK
  <2> QED BY <1>3, <1>6, <2>2, <2>4, <2>5 DEF FinishFunction, Typed, TypeOK, BodyTyped, wires
<1>7. CASE FinishQueuedout(n)
  <2> DEFINE outq == Queued(n)
  <2>1. outq \in Seq(Token) /\ seqno[n] \in Nat
    BY <1>3, <1>7, QueuedType DEF FinishQueuedout, Typed, TypeOK
  <2>2. Numbers(n) \in Nat
    BY <2>1 DEF Numbers
  <2>3. seqno' \in [Node -> Nat]
    BY <1>7, <2>1, <2>2 DEF FinishQueuedout, Typed, TypeOK
  <2> HIDE DEF outq
  <2>4. {<<seqno[n] + i - 1, outq[i]>> : i \in DOMAIN outq} \subseteq Message
    BY <2>1 DEF Message
  <2>5. held' = [p \in OutPort |->
                   IF p[1] = n THEN held[p] \cup {<<seqno[n] + i - 1, outq[i]>> : i \in DOMAIN outq}
                   ELSE held[p]]
    BY <1>7 DEF FinishQueuedout, outq
  <2>6. held' \in [OutPort -> SUBSET Message]
    BY <2>4, <2>5 DEF Typed
  <2> QED BY <1>3, <1>7, <2>3, <2>6 DEF FinishQueuedout, Typed, TypeOK, BodyTyped, wires
<1> QED BY <1>1, <1>2, <1>4, <1>5, <1>6, <1>7 DEF NodeStep

\* Nor does the way of a result through the sequencer.
LEMMA PortType ==
  ASSUME Typed, NEW p \in OutPort, PortStep(p)
  PROVE  Typed'
<1>1. CASE PutResult(p)
  <2>1. \A m \in flight[p] : m \in Message
    BY DEF Typed
  <2>2. flight' \in [OutPort -> SUBSET Message] /\ held' \in [OutPort -> SUBSET Message]
    BY <1>1, <2>1 DEF PutResult, Typed
  <2> QED BY <1>1, <2>2 DEF PutResult, Typed, TypeOK, wires
<1>2. CASE Forward(p)
  <2>1. oedge[p] \in Edge
    BY <1>2 DEF Forward, Typed, TypeOK
  <2>2. \A m \in Due(p) : m \in Message /\ m[2] \in Token
    BY DEF Due, Typed, Message
  <2>3. inbox' \in [Edge -> Seq(Token)]
    BY <1>2, <2>1, <2>2 DEF Forward, Typed, TypeOK
  <2>4. held' \in [OutPort -> SUBSET Message]
    BY <1>2 DEF Forward, Typed
  <2>5. nextno' \in [OutPort -> Nat]
    BY <1>2 DEF Forward, Typed, TypeOK
  <2> QED BY <1>2, <2>3, <2>4, <2>5 DEF Forward, Typed, TypeOK, BodyTyped, wires
<1> QED BY <1>1, <1>2 DEF PortStep

LEMMA TypedStep == Typed /\ [Next]_vars => Typed'
<1>1. Typed /\ UNCHANGED vars => Typed'
  BY DEF Typed, TypeOK, vars, wires
<1> QED BY <1>1, NodeType, PortType DEF Next, Work, Returned

LEMMA TypedStart == Init => Typed
<1> SUFFICES ASSUME Init PROVE Typed
  OBVIOUS
<1>1. TypeOK
  BY DfpAssumption DEF Init, Quiet, TypeOK
<1>2. flight \in [OutPort -> SUBSET Message] /\ held \in [OutPort -> SUBSET Message]
  BY DEF Init, Quiet
<1>3. body \in [Node -> Seq(Call)] /\ \A n \in Node : left[n] <= Length[n]
  BY DfpAssumption DEF Init, Quiet
<1> QED BY <1>1, <1>2, <1>3 DEF Typed

\* The tasks of the engine keep every type, whatever is plugged where and however
\* they interleave: no body is entered twice and no counter is negative.
THEOREM TbbTypeCorrect == Spec => []TypeOK
<1>1. Typed => TypeOK
  BY DEF Typed
<1> QED BY <1>1, TypedStart, TypedStep, PTL DEF Spec

-----------------------------------------------------------------------------
(* The sequencers.                                                         *)

\* The messages F on the way to a sequencer and those H it keeps are numbered
\* from lo on, up to but without hi: what NoGap says of a port.
Gapless(F, H, lo, hi) ==
  /\ F \cap H = {}
  /\ \A m \in F \cup H : m[1] \in lo .. hi - 1
  /\ \A k \in lo .. hi - 1 : \E m \in F \cup H : m[1] = k
  /\ \A m1, m2 \in F \cup H : m1[1] = m2[1] => m1 = m2

\* NoGap, and no sequencer waits for a number beyond the next to be given out.
Sequenced ==
  \A p \in OutPort : Category[p[1]] # "source" /\ status = "run" =>
    /\ nextno[p] <= seqno[p[1]]
    /\ Gapless(flight[p], held[p], nextno[p], seqno[p[1]])

\* A message that arrives is still one of them.
LEMMA GaplessPut ==
  ASSUME NEW F, NEW H, NEW lo \in Nat, NEW hi \in Nat, Gapless(F, H, lo, hi), NEW m \in F
  PROVE  Gapless(F \ {m}, H \cup {m}, lo, hi)
<1>1. (F \ {m}) \cup (H \cup {m}) = F \cup H
  OBVIOUS
<1>2. (F \ {m}) \cap (H \cup {m}) = {}
  BY DEF Gapless
<1> QED BY <1>1, <1>2 DEF Gapless

\* The message the sequencer waits for leaves room for those after it.
LEMMA GaplessForward ==
  ASSUME NEW F, NEW H, NEW lo \in Nat, NEW hi \in Nat, Gapless(F, H, lo, hi),
         NEW m \in H, m[1] = lo
  PROVE  lo + 1 <= hi /\ Gapless(F, H \ {m}, lo + 1, hi)
<1>1. m \notin F /\ m[1] \in lo .. hi - 1
  BY DEF Gapless
<1>2. F \cup (H \ {m}) = (F \cup H) \ {m}
  BY <1>1
<1>3. lo + 1 <= hi
  BY <1>1
<1>4. ASSUME NEW x \in (F \cup H) \ {m} PROVE x[1] \in lo + 1 .. hi - 1
  <2>1. x[1] \in lo .. hi - 1 /\ x[1] # lo
    BY DEF Gapless
  <2> QED BY <2>1
<1>5. ASSUME NEW k \in lo + 1 .. hi - 1 PROVE \E x \in (F \cup H) \ {m} : x[1] = k
  <2>1. k \in lo .. hi - 1 /\ k # lo
    OBVIOUS
  <2>2. PICK x \in F \cup H : x[1] = k
    BY <2>1 DEF Gapless
  <2> QED BY <2>1, <2>2
<1> QED BY <1>2, <1>3, <1>4, <1>5 DEF Gapless

\* Results, k of them, numbered from hi on.
Results(hi, k, s) == {<<hi + i - 1, s[i]>> : i \in 1 .. k}

\* Results that take the next numbers, wherever they are.
LEMMA GaplessAdd ==
  ASSUME NEW F, NEW H, NEW lo \in Nat, NEW hi \in Nat, lo <= hi, Gapless(F, H, lo, hi),
         NEW k \in Nat, NEW s, NEW N, N = Results(hi, k, s),
         NEW F2, NEW H2, F2 \cap H2 = {}, F2 \cup H2 = (F \cup H) \cup N,
         NEW top, top = hi + k
  PROVE  Gapless(F2, H2, lo, top)
<1> DEFINE M == F \cup H
<1>1. \A m \in M : m[1] \in lo .. hi - 1
  BY DEF Gapless
<1>2. \A m \in N : m[1] \in hi .. hi + k - 1 /\ m = <<m[1], s[m[1] - hi + 1]>>
  BY DEF Results
<1>3. \A j \in hi .. hi + k - 1 : \E m \in N : m[1] = j
  <2> SUFFICES ASSUME NEW j \in hi .. hi + k - 1 PROVE \E m \in N : m[1] = j
    OBVIOUS
  <2>1. j - hi + 1 \in 1 .. k /\ hi + (j - hi + 1) - 1 = j
    OBVIOUS
  <2>2. <<hi + (j - hi + 1) - 1, s[j - hi + 1]>> \in N
    BY <2>1 DEF Results
  <2> QED BY <2>1, <2>2
<1>4. \A m1, m2 \in N : m1[1] = m2[1] => m1 = m2
  BY <1>2
<1>5. \A j \in lo .. hi - 1 : \E m \in M : m[1] = j
  BY DEF Gapless
<1>6. \A m1, m2 \in M : m1[1] = m2[1] => m1 = m2
  BY DEF Gapless
<1>7. F2 \cup H2 = M \cup N
  OBVIOUS
<1> HIDE DEF M
<1>8. \A m \in M \cup N : m[1] \in lo .. (hi + k) - 1
  BY <1>1, <1>2
<1>9. \A j \in lo .. (hi + k) - 1 : \E m \in M \cup N : m[1] = j
  <2> SUFFICES ASSUME NEW j \in lo .. (hi + k) - 1 PROVE \E m \in M \cup N : m[1] = j
    OBVIOUS
  <2>1. j \in lo .. hi - 1 \/ j \in hi .. hi + k - 1
    OBVIOUS
  <2> QED BY <2>1, <1>3, <1>5
<1>10. \A m1 \in M, m2 \in N : m1[1] # m2[1]
  BY <1>1, <1>2
<1>11. \A m1, m2 \in M \cup N : m1[1] = m2[1] => m1 = m2
  BY <1>4, <1>6, <1>10
<1> QED BY <1>7, <1>8, <1>9, <1>11 DEF Gapless

\* The end of a function, a fan-in or a fan-out gives out one number, also when
\* the body has returned false.
LEMMA FunctionSequenced ==
  ASSUME Typed, Sequenced, NEW n \in Node, FinishFunction(n), status = "run"
  PROVE  Sequenced'
<1> SUFFICES ASSUME NEW p \in OutPort, Category[p[1]] # "source", status' = "run"
             PROVE  /\ nextno'[p] <= seqno'[p[1]]
                    /\ Gapless(flight'[p], held'[p], nextno'[p], seqno'[p[1]])
  BY DEF Sequenced
<1> DEFINE out == IF Refuses(n, Seen(n)) THEN Void ELSE Seen(n)
<1>1. /\ nextno[p] \in Nat /\ seqno[p[1]] \in Nat /\ seqno[n] \in Nat
      /\ nextno[p] <= seqno[p[1]]
      /\ Gapless(flight[p], held[p], nextno[p], seqno[p[1]])
  BY NodePorts DEF Typed, TypeOK, Sequenced
<1>2. Numbers(n) = 1
  BY DEF FinishFunction, Numbers
<1>3. flight' = [r \in OutPort |-> IF r[1] = n THEN flight[r] \cup {<<seqno[n], out>>} ELSE flight[r]]
  BY DEF FinishFunction
<1> HIDE DEF out
<1>4. /\ seqno' = [seqno EXCEPT ![n] = @ + 1]
      /\ held' = held /\ nextno' = nextno
  BY <1>2 DEF FinishFunction
<1>5. seqno'[p[1]] = IF p[1] = n THEN seqno[n] + 1 ELSE seqno[p[1]]
  BY <1>4, NodePorts DEF Typed, TypeOK
<1>6. CASE p[1] = n
  <2> DEFINE s == <<out>>
  <2>1. DOMAIN s = 1 .. 1 /\ {<<seqno[n] + i - 1, s[i]>> : i \in 1 .. 1} = {<<seqno[n], out>>}
    BY <1>1
  <2>2. flight'[p] = flight[p] \cup {<<seqno[n], out>>}
    BY <1>3, <1>6
  <2> HIDE DEF s
  <2>3. \A m \in held[p] : m[1] \in nextno[p] .. seqno[n] - 1
    BY <1>1, <1>6 DEF Gapless
  <2>4. flight'[p] \cap held[p] = {}
    BY <1>1, <2>2, <2>3 DEF Gapless
  <2> DEFINE N == {<<seqno[n], out>>}
  <2>6. /\ N = Results(seqno[n], 1, s)
        /\ flight'[p] \cup held[p] = (flight[p] \cup held[p]) \cup N
    BY <2>1, <2>2 DEF Results
  <2> HIDE DEF N
  <2>7. Gapless(flight[p], held[p], nextno[p], seqno[n]) /\ nextno[p] <= seqno[n]
    BY <1>1, <1>6
  <2>5. Gapless(flight'[p], held[p], nextno[p], seqno[n] + 1)
    BY <1>1, <2>4, <2>6, <2>7, GaplessAdd
  <2> QED BY <1>1, <1>4, <1>5, <1>6, <2>5
<1>7. CASE p[1] # n
  BY <1>1, <1>3, <1>4, <1>5, <1>7
<1> QED BY <1>6, <1>7

\* The end of a queuedout gives out one number for each object.
LEMMA QueuedoutSequenced ==
  ASSUME Typed, Sequenced, NEW n \in Node, FinishQueuedout(n), status = "run"
  PROVE  Sequenced'
<1> SUFFICES ASSUME NEW p \in OutPort, Category[p[1]] # "source", status' = "run"
             PROVE  /\ nextno'[p] <= seqno'[p[1]]
                    /\ Gapless(flight'[p], held'[p], nextno'[p], seqno'[p[1]])
  BY DEF Sequenced
<1> DEFINE outq == Queued(n)
           k == Len(outq)
           N == {<<seqno[n] + i - 1, outq[i]>> : i \in DOMAIN outq}
<1>1. /\ nextno[p] \in Nat /\ seqno[p[1]] \in Nat /\ seqno[n] \in Nat
      /\ nextno[p] <= seqno[p[1]]
      /\ Gapless(flight[p], held[p], nextno[p], seqno[p[1]])
  BY NodePorts DEF Typed, TypeOK, Sequenced
<1>2. outq \in Seq(Token) /\ k \in Nat /\ DOMAIN outq = 1 .. k
  BY QueuedType DEF FinishQueuedout, Return
<1>3. held' = [r \in OutPort |-> IF r[1] = n THEN held[r] \cup N ELSE held[r]]
  BY DEF FinishQueuedout
<1>4. /\ seqno' = [seqno EXCEPT ![n] = @ + k]
      /\ flight' = flight /\ nextno' = nextno
  BY DEF FinishQueuedout, Numbers
<1> HIDE DEF outq, k
<1>5. seqno'[p[1]] = IF p[1] = n THEN seqno[n] + k ELSE seqno[p[1]]
  BY <1>4, NodePorts DEF Typed, TypeOK
<1>6. CASE p[1] = n
  <2>1. N = {<<seqno[n] + i - 1, outq[i]>> : i \in 1 .. k}
    BY <1>2
  <2>2. held'[p] = held[p] \cup N
    BY <1>3, <1>6
  <2>3. \A m \in flight[p] : m[1] \in nextno[p] .. seqno[n] - 1
    BY <1>1, <1>6 DEF Gapless
  <2>4. \A m \in N : m[1] \in Int /\ m[1] >= seqno[n]
    <3>1. ASSUME NEW i \in 1 .. k, NEW m, m = <<seqno[n] + i - 1, outq[i]>>
          PROVE  m[1] \in Int /\ m[1] >= seqno[n]
      <4>1. m[1] = seqno[n] + i - 1
        BY <3>1
      <4> QED BY <1>1, <1>2, <4>1
    <3> QED BY <2>1, <3>1
  <2> HIDE DEF N
  <2>5. flight[p] \cap held'[p] = {}
    <3>1. flight[p] \cap N = {}
      BY <1>1, <2>3, <2>4
    <3> QED BY <3>1, <1>1, <2>2 DEF Gapless
  <2>6. Gapless(flight[p], held'[p], nextno[p], seqno[n] + k)
    <3>1. flight[p] \cup held'[p] = (flight[p] \cup held[p]) \cup N
      BY <2>2
    <3>2. Gapless(flight[p], held[p], nextno[p], seqno[n]) /\ nextno[p] <= seqno[n]
      BY <1>1, <1>6
    <3>3. N = Results(seqno[n], k, outq) /\ k \in Nat
      BY <1>2, <2>1 DEF Results
    <3> QED BY <1>1, <2>5, <3>1, <3>2, <3>3, GaplessAdd
  <2> QED BY <1>1, <1>2, <1>4, <1>5, <1>6, <2>6
<1>7. CASE p[1] # n
  BY <1>1, <1>3, <1>4, <1>5, <1>7
<1> QED BY <1>6, <1>7

LEMMA PortSequenced ==
  ASSUME Typed, Sequenced, NEW r \in OutPort, PortStep(r), status = "run"
  PROVE  Sequenced'
<1> SUFFICES ASSUME NEW p \in OutPort, Category[p[1]] # "source", status' = "run"
             PROVE  /\ nextno'[p] <= seqno'[p[1]]
                    /\ Gapless(flight'[p], held'[p], nextno'[p], seqno'[p[1]])
  BY DEF Sequenced
<1>1. /\ nextno[p] \in Nat /\ seqno[p[1]] \in Nat
      /\ nextno[p] <= seqno[p[1]]
      /\ Gapless(flight[p], held[p], nextno[p], seqno[p[1]])
  BY NodePorts DEF Typed, TypeOK, Sequenced
<1>2. CASE PutResult(r)
  <2>1. PICK m \in flight[r] : /\ flight' = [flight EXCEPT ![r] = @ \ {m}]
                               /\ held' = [held EXCEPT ![r] = @ \cup {m}]
    BY <1>2 DEF PutResult
  <2>2. UNCHANGED <<nextno, seqno>>
    BY <1>2 DEF PutResult
  <2>3. CASE p = r
    <3>1. flight'[p] = flight[p] \ {m} /\ held'[p] = held[p] \cup {m}
      BY <2>1, <2>3 DEF Typed
    <3> QED BY <1>1, <2>1, <2>2, <2>3, <3>1, GaplessPut
  <2>4. CASE p # r
    BY <1>1, <2>1, <2>2, <2>4 DEF Typed
  <2> QED BY <2>3, <2>4
<1>3. CASE Forward(r)
  <2>1. PICK m \in Due(r) : held' = [held EXCEPT ![r] = @ \ {m}]
    BY <1>3 DEF Forward
  <2>2. UNCHANGED <<flight, seqno>> /\ nextno' = [nextno EXCEPT ![r] = @ + 1]
    BY <1>3 DEF Forward
  <2>3. CASE p = r
    <3>1. held'[p] = held[p] \ {m} /\ nextno'[p] = nextno[p] + 1
      BY <2>1, <2>2, <2>3 DEF Typed, TypeOK
    <3>2. m \in held[p] /\ m[1] = nextno[p]
      BY <2>1, <2>3 DEF Due
    <3>3. nextno[p] + 1 <= seqno[p[1]] /\ Gapless(flight[p], held[p] \ {m}, nextno[p] + 1, seqno[p[1]])
      BY <1>1, <3>2, GaplessForward
    <3> QED BY <2>2, <3>1, <3>3
  <2>4. CASE p # r
    BY <1>1, <2>1, <2>2, <2>4 DEF Typed, TypeOK
  <2> QED BY <2>3, <2>4
<1> QED BY <1>2, <1>3 DEF PortStep

LEMMA SequencedStep == Typed /\ Sequenced /\ [Next]_vars => Sequenced'
<1> SUFFICES ASSUME Typed, Sequenced, [Next]_vars PROVE Sequenced'
  OBVIOUS
<1>1. CASE UNCHANGED vars
  BY <1>1 DEF vars, Sequenced
<1>2. ASSUME NEW n \in Node, Generate(n) PROVE Sequenced'
  <2>1. /\ UNCHANGED <<flight, held, nextno, status>>
        /\ \A m \in Node : m # n => seqno'[m] = seqno[m]
    BY <1>2 DEF Generate, Typed, TypeOK
  <2>2. Category[n] = "source"
    BY <1>2 DEF Generate, HasMore
  <2>3. \A p \in OutPort : Category[p[1]] # "source" => seqno'[p[1]] = seqno[p[1]]
    BY <2>1, <2>2, NodePorts
  <2> QED BY <2>1, <2>3 DEF Sequenced
<1>3. ASSUME NEW n \in Node, Start(n) \/ FinishSink(n) PROVE Sequenced'
  <2>1. UNCHANGED <<flight, held, nextno, seqno, status>>
    BY <1>3 DEF Start, FinishSink
  <2> QED BY <2>1 DEF Sequenced
<1>4. ASSUME NEW n \in Node, Throw(n) PROVE Sequenced'
  BY <1>4 DEF Throw, Sequenced
<1>5. CASE Work
  BY <1>2, <1>3, <1>4, <1>5, FunctionSequenced, QueuedoutSequenced, PortSequenced DEF Work, NodeStep
<1> QED BY <1>1, <1>5 DEF Next, Returned

\* Before anything runs every number is still to be given out.
LEMMA SequencedStart == Init => Sequenced
<1> SUFFICES ASSUME Init, NEW p \in OutPort
             PROVE  nextno[p] <= seqno[p[1]] /\ Gapless(flight[p], held[p], nextno[p], seqno[p[1]])
  BY DEF Sequenced
<1>1. /\ flight[p] = {} /\ held[p] = {} /\ nextno[p] = 0 /\ seqno[p[1]] = 0
  BY NodePorts DEF Init, Quiet
<1> QED BY <1>1 DEF Gapless

\* No sequencer ever waits for a number that will not come, and no number is on
\* its way to it twice, for every graph, with any number of threads, also when
\* bodies return false.
THEOREM SequencersNeverStall == Spec => []NoGap
<1>1. Sequenced => NoGap
  BY DEF Sequenced, Gapless, NoGap
<1> QED BY <1>1, SequencedStart, TypedStart, TypedStep, SequencedStep, PTL DEF Spec

-----------------------------------------------------------------------------
(* What runs, and what has a sequencer.                                    *)

\* A body runs on what edges brought to it, which a source has none of; nor has a
\* source a sequencer.
Tidy ==
  /\ \A n \in Running : /\ Category[n] # "source"
                        /\ \A i \in 0 .. NumIn[n] - 1 : iedge[<<n, i>>] # NoEdge
  /\ \A p \in OutPort : Category[p[1]] = "source" => flight[p] \cup held[p] = {}

LEMMA TidyStart == Init => Tidy
<1> SUFFICES ASSUME Init PROVE Tidy
  OBVIOUS
<1>1. Running = {} /\ \A p \in OutPort : flight[p] \cup held[p] = {}
  BY DEF Init, Quiet, Running
<1> QED BY <1>1 DEF Tidy

\* Calls that end leave the others as they are.
LEMMA RunningAfterReturn ==
  ASSUME Typed, NEW n \in Node, Return(n)
  PROVE  /\ Running' = Running \ {n}
         /\ \A m \in Running' : m \in Running /\ Ins(m)' = Ins(m)
<1>1. \A m \in Node : body'[m] = IF m = n THEN <<>> ELSE body[m]
  BY DEF Return, Typed
<1> QED BY <1>1 DEF Running, Ins

LEMMA TidyStep == Typed /\ Tidy /\ [Next]_vars => Tidy'
<1> SUFFICES ASSUME Typed, Tidy, [Next]_vars PROVE Tidy'
  OBVIOUS
<1>1. ASSUME UNCHANGED iedge, Running' \subseteq Running,
             \A p \in OutPort : Category[p[1]] = "source" =>
               flight'[p] \cup held'[p] \subseteq flight[p] \cup held[p]
      PROVE  Tidy'
  BY <1>1 DEF Tidy
<1>2. CASE UNCHANGED vars
  <2>1. UNCHANGED <<iedge, flight, held>> /\ Running' = Running
    BY <1>2 DEF vars, wires, Running
  <2> QED BY <1>1, <2>1
<1>3. ASSUME NEW n \in Node, NodeStep(n) PROVE Tidy'
  <2>1. CASE Generate(n)
    <3>1. UNCHANGED <<iedge, flight, held>> /\ Running' = Running
      BY <2>1 DEF Generate, wires, Running
    <3> QED BY <1>1, <3>1
  <2>2. CASE Start(n)
    <3>1. UNCHANGED <<iedge, flight, held>> /\ Category[n] # "source"
      BY <2>2 DEF Start, wires
    <3>2. Running' \subseteq Running \cup {n}
      BY <2>2 DEF Start, Running, Typed
    <3>3. \A i \in 0 .. NumIn[n] - 1 : iedge[<<n, i>>] # NoEdge
      <4>1. \A p \in Inputs(n) : iedge[p] # NoEdge
        BY <2>2 DEF Start, Contents
      <4> QED BY <4>1, NodePorts
    <3> QED BY <3>1, <3>2, <3>3 DEF Tidy
  <2>3. ASSUME Return(n), UNCHANGED iedge,
               \A p \in OutPort : p[1] # n => flight'[p] \cup held'[p] = flight[p] \cup held[p]
        PROVE  Tidy'
    <3>1. Running' \subseteq Running /\ Category[n] # "source"
      BY <2>3, RunningAfterReturn DEF Tidy, Return
    <3> QED BY <1>1, <2>3, <3>1
  <2>4. CASE Throw(n) \/ FinishSink(n)
    BY <2>3, <2>4 DEF Throw, FinishSink, wires
  <2>5. CASE FinishFunction(n)
    <3>1. \A p \in OutPort : p[1] # n => flight'[p] = flight[p]
      BY <2>5 DEF FinishFunction
    <3> QED BY <2>3, <2>5, <3>1 DEF FinishFunction, wires
  <2>6. CASE FinishQueuedout(n)
    <3>1. \A p \in OutPort : p[1] # n => held'[p] = held[p]
      BY <2>6 DEF FinishQueuedout
    <3> QED BY <2>3, <2>6, <3>1 DEF FinishQueuedout, wires
  <2> QED BY <1>3, <2>1, <2>2, <2>4, <2>5, <2>6 DEF NodeStep
<1>4. ASSUME NEW p \in OutPort, PortStep(p) PROVE Tidy'
  <2>1. UNCHANGED <<iedge, body>> /\ Running' = Running
    BY <1>4 DEF PortStep, PutResult, Forward, wires, Running
  <2>2. \A r \in OutPort : flight'[r] \cup held'[r] \subseteq flight[r] \cup held[r]
    <3>1. CASE PutResult(p)
      BY <3>1 DEF PutResult, Typed
    <3>2. CASE Forward(p)
      BY <3>2 DEF Forward, Typed
    <3> QED BY <1>4, <3>1, <3>2 DEF PortStep
  <2> QED BY <1>1, <2>1, <2>2
<1> QED BY <1>2, <1>3, <1>4 DEF Next, Work, Returned

-----------------------------------------------------------------------------
(* Empty objects.                                                          *)

\* The bodies whose false the wrappers have no answer to never return it.
NoneRefuses ==
  \A n \in Node : Category[n] \in {"function", "fanin", "fanout"} => Refused[n] = {}

Full == Token \ {Void}

\* No empty object is anywhere and the run goes on; a body runs on what edges
\* brought to it; a source has no sequencer.
Regular ==
  /\ status = "run"
  /\ inbox \in [Edge -> Seq(Full)]
  /\ \A n \in Running :
       /\ Category[n] # "source"
       /\ \A i \in 0 .. NumIn[n] - 1 : iedge[<<n, i>>] # NoEdge /\ Ins(n)[i] # Void
  /\ \A p \in OutPort :
       /\ \A m \in flight[p] \cup held[p] : m[2] # Void
       /\ Category[p[1]] = "source" => flight[p] \cup held[p] = {}

\* What one of at least one full objects is in is full.
LEMMA SeenFull ==
  ASSUME Typed, Regular, NEW n \in Running, NumIn[n] > 0
  PROVE  Seen(n) \in Full
<1>1. NumIn[n] \in Nat /\ n \in Node
  BY DfpAssumption DEF Running
<1>2. 0 \in 0 .. NumIn[n] - 1
  BY <1>1
<1>3. Ins(n)[0] # Void /\ DOMAIN Ins(n) = 0 .. NumIn[n] - 1 /\ Seen(n) \in Token
  BY <1>2, Given DEF Regular
<1>4. PICK x : x \in Ins(n)[0]
  BY <1>3 DEF Void
<1>5. x \in Seen(n)
  BY <1>2, <1>3, <1>4 DEF Seen
<1> QED BY <1>3, <1>5 DEF Full, Void

\* A queuedout body queues full objects.
LEMMA QueuedFull ==
  ASSUME Typed, NEW n \in Running, Category[n] = "queuedout"
  PROVE  \A i \in DOMAIN Queued(n) : Queued(n)[i] # Void
<1>1. \/ Queued(n) = <<>>
      \/ Queued(n) = [i \in 1 .. Copies[n] |-> Seen(n) \cup {<<n, i>>}]
  BY DEF Queued, Answer, Emission
<1>2. \A i : Seen(n) \cup {<<n, i>>} # Void
  BY DEF Void
<1>3. DOMAIN <<>> = {}
  OBVIOUS
<1> QED BY <1>1, <1>2, <1>3

LEMMA RegularNode ==
  ASSUME NoneRefuses, Typed, Regular, NEW n \in Node, NodeStep(n)
  PROVE  Regular'
<1>1. CASE Generate(n)
  <2>1. <<Fresh(n, left[n])>> \in Seq(Full)
    <3>1. left[n] \in Nat \ {0} /\ left[n] <= Length[n] /\ Length[n] \in Nat
      <4>1. left[n] \in Nat /\ left[n] > 0 /\ left[n] <= Length[n]
        BY <1>1 DEF Generate, HasMore, Typed, TypeOK
      <4>2. Length[n] \in Nat
        BY DfpAssumption
      <4> QED BY <4>1, <4>2
    <3>2. Length[n] - left[n] + 1 \in Nat
      BY <3>1
    <3>3. Fresh(n, left[n]) \in Full
      BY <3>2 DEF Fresh, Full, Token, Item, Void
    <3> QED BY <3>3
  <2>2. inbox' \in [Edge -> Seq(Full)]
    BY <1>1, <2>1 DEF Generate, Push, Regular
  <2>3. UNCHANGED <<iedge, body, flight, held, status>>
    BY <1>1 DEF Generate, wires
  <2> QED BY <2>2, <2>3 DEF Regular, Running, Ins
<1>2. CASE Start(n)
  <2>1. /\ UNCHANGED <<iedge, flight, held, status>>
        /\ inbox' = Pop(inbox, EdgesAt(iedge, Inputs(n)))
        /\ body' = [body EXCEPT ![n] = <<[i \in 0 .. NumIn[n] - 1 |-> Head(inbox[iedge[<<n, i>>]])]>>]
        /\ Category[n] # "source"
    BY <1>2 DEF Start, wires
  <2>2. ASSUME NEW i \in 0 .. NumIn[n] - 1
        PROVE  iedge[<<n, i>>] # NoEdge /\ Head(inbox[iedge[<<n, i>>]]) # Void
    <3>1. <<n, i>> \in Inputs(n) /\ <<n, i>> \in InPort
      BY NodePorts
    <3>2. iedge[<<n, i>>] # NoEdge /\ iedge[<<n, i>>] \in Edge /\ inbox[iedge[<<n, i>>]] # <<>>
      BY <1>2, <3>1 DEF Start, Contents, Typed, TypeOK
    <3>3. Head(inbox[iedge[<<n, i>>]]) \in Full
      BY <3>2 DEF Regular
    <3> QED BY <3>2, <3>3 DEF Full
  <2>3. inbox' \in [Edge -> Seq(Full)]
    <3>1. \A e \in EdgesAt(iedge, Inputs(n)) : inbox[e] # <<>>
      BY <1>2 DEF Start, EdgesAt, Contents
    <3> QED BY <2>1, <3>1 DEF Pop, Regular
  <2>4. \A m \in Node : m # n => body'[m] = body[m]
    BY <2>1 DEF Typed
  <2>5. \A i \in 0 .. NumIn[n] - 1 : Ins(n)'[i] = Head(inbox[iedge[<<n, i>>]])
    BY <2>1 DEF Ins, Typed
  <2>6. ASSUME NEW m \in Running'
        PROVE  /\ Category[m] # "source"
               /\ \A i \in 0 .. NumIn[m] - 1 : iedge'[<<m, i>>] # NoEdge /\ Ins(m)'[i] # Void
    <3>1. CASE m = n
      BY <2>1, <2>2, <2>5, <3>1
    <3>2. CASE m # n
      BY <2>1, <2>4, <3>2 DEF Running, Ins, Regular
    <3> QED BY <3>1, <3>2
  <2> QED BY <2>1, <2>3, <2>6 DEF Regular
<1>3. CASE Throw(n)
  <2>1. PICK i \in DOMAIN Ins(n) : Ins(n)[i] = Void
    BY <1>3 DEF Throw
  <2>2. n \in Running
    BY <1>3 DEF Throw, Return
  <2> QED BY <2>1, <2>2, Given DEF Regular
<1>4. ASSUME Return(n), UNCHANGED iedge
      PROVE  \A m \in Running' :
               /\ Category[m] # "source"
               /\ \A i \in 0 .. NumIn[m] - 1 : iedge'[<<m, i>>] # NoEdge /\ Ins(m)'[i] # Void
  BY <1>4, RunningAfterReturn DEF Regular
<1>5. CASE FinishSink(n)
  BY <1>4, <1>5 DEF FinishSink, wires, Regular
<1>6. CASE FinishFunction(n)
  <2>1. /\ n \in Running /\ ~Refuses(n, Seen(n)) /\ Category[n] # "source"
        /\ Seen(n) \in Full
    <3>1. n \in Running /\ Category[n] \in {"function", "fanin", "fanout"}
      BY <1>6 DEF FinishFunction, Return
    <3>2. NumIn[n] > 0
      BY <3>1, DfpAssumption
    <3> QED BY <3>1, <3>2, SeenFull DEF NoneRefuses, Refuses
  <2>2. /\ flight' = [p \in OutPort |-> IF p[1] = n THEN flight[p] \cup {<<seqno[n], Seen(n)>>}
                                        ELSE flight[p]]
        /\ UNCHANGED <<iedge, inbox, held, status>>
        /\ Return(n)
    BY <1>6, <2>1 DEF FinishFunction, wires
  <2>3. ASSUME NEW p \in OutPort
        PROVE  /\ \A m \in flight'[p] \cup held'[p] : m[2] # Void
               /\ Category[p[1]] = "source" => flight'[p] \cup held'[p] = {}
    BY <2>1, <2>2 DEF Regular, Full
  <2> QED BY <1>4, <2>2, <2>3 DEF Regular
<1>7. CASE FinishQueuedout(n)
  <2>1. n \in Running /\ Category[n] = "queuedout"
    BY <1>7 DEF FinishQueuedout, Return
  <2> DEFINE N == {<<seqno[n] + i - 1, Queued(n)[i]>> : i \in DOMAIN Queued(n)}
  <2>2. /\ held' = [p \in OutPort |-> IF p[1] = n THEN held[p] \cup N ELSE held[p]]
        /\ UNCHANGED <<iedge, inbox, flight, status>>
        /\ Return(n)
    BY <1>7 DEF FinishQueuedout, wires
  <2>3. \A m \in N : m[2] # Void
    BY <2>1, QueuedFull
  <2> HIDE DEF N
  <2>4. ASSUME NEW p \in OutPort
        PROVE  /\ \A m \in flight'[p] \cup held'[p] : m[2] # Void
               /\ Category[p[1]] = "source" => flight'[p] \cup held'[p] = {}
    BY <2>1, <2>2, <2>3 DEF Regular
  <2> QED BY <1>4, <2>2, <2>4 DEF Regular
<1> QED BY <1>1, <1>2, <1>3, <1>5, <1>6, <1>7 DEF NodeStep

LEMMA RegularPort ==
  ASSUME Typed, Regular, NEW p \in OutPort, PortStep(p)
  PROVE  Regular'
<1>1. CASE PutResult(p)
  <2>1. PICK m \in flight[p] : /\ flight' = [flight EXCEPT ![p] = @ \ {m}]
                               /\ held' = [held EXCEPT ![p] = @ \cup {m}]
    BY <1>1 DEF PutResult
  <2>2. \A r \in OutPort : flight'[r] \cup held'[r] = flight[r] \cup held[r]
    BY <2>1 DEF Typed
  <2>3. UNCHANGED <<iedge, inbox, body, status>>
    BY <1>1 DEF PutResult, wires
  <2> QED BY <2>2, <2>3 DEF Regular, Running, Ins
<1>2. CASE Forward(p)
  <2>1. PICK m \in Due(p) : /\ held' = [held EXCEPT ![p] = @ \ {m}]
                            /\ inbox' = [inbox EXCEPT ![oedge[p]] = Append(@, m[2])]
    BY <1>2 DEF Forward
  <2>2. m \in held[p] /\ m[2] \in Full
    BY <2>1 DEF Due, Regular, Typed, Message, Full
  <2>3. UNCHANGED <<iedge, flight, body, status>>
    BY <1>2 DEF Forward, wires
  <2>4. \A r \in OutPort : held'[r] \subseteq held[r]
    BY <2>1 DEF Typed
  <2>5. inbox' \in [Edge -> Seq(Full)]
    <3>1. inbox \in [Edge -> Seq(Full)] /\ oedge[p] \in Edge
      BY <1>2 DEF Forward, Typed, TypeOK, Regular
    <3>2. Append(inbox[oedge[p]], m[2]) \in Seq(Full)
      BY <2>2, <3>1
    <3> QED BY <2>1, <3>1, <3>2
  <2>6. ASSUME NEW r \in OutPort
        PROVE  /\ \A x \in flight'[r] \cup held'[r] : x[2] # Void
               /\ Category[r[1]] = "source" => flight'[r] \cup held'[r] = {}
    BY <2>3, <2>4 DEF Regular
  <2> QED BY <2>3, <2>5, <2>6 DEF Regular, Running, Ins
<1> QED BY <1>1, <1>2 DEF PortStep

LEMMA RegularStart == Init => Regular
<1> SUFFICES ASSUME Init PROVE Regular
  OBVIOUS
<1>1. Running = {} /\ inbox \in [Edge -> Seq(Full)]
  BY DEF Init, Quiet, Running
<1>2. \A p \in OutPort : flight[p] = {} /\ held[p] = {}
  BY DEF Init, Quiet
<1> QED BY <1>1, <1>2 DEF Init, Quiet, Regular

LEMMA RegularStep == NoneRefuses /\ Typed /\ Regular /\ [Next]_vars => Regular'
<1>1. Regular /\ UNCHANGED vars => Regular'
  BY DEF vars, wires, Regular, Running, Ins
<1> QED BY <1>1, RegularNode, RegularPort DEF Next, Work, Returned

\* The run is cut short, by a bad_any_cast or by the assert of TupleHelpers.h, only
\* if some function, fan-in or fan-out body returns false.
THEOREM OnlyRefusalsStopTheRun == NoneRefuses /\ Spec => []TupleIsFilled /\ [](status = "run")
<1>1. Regular => TupleIsFilled /\ status = "run"
  BY DEF Regular, TupleIsFilled
<1>2. NoneRefuses /\ Spec => []Typed /\ []Regular
  <2> SUFFICES ASSUME NoneRefuses PROVE Spec => []Typed /\ []Regular
    OBVIOUS
  <2>1. Typed /\ Regular /\ [Next]_vars => Regular'
    BY RegularStep
  <2> QED BY <2>1, TypedStart, TypedStep, RegularStart, PTL DEF Spec
<1> QED BY <1>1, <1>2, PTL

-----------------------------------------------------------------------------
(* What is on an edge.                                                     *)

\* An edge has one tail and one head: it is made by one make_edge().
OneToOne ==
  /\ \A p, r \in InPort : iedge[p] = iedge[r] /\ iedge[p] # NoEdge => p = r
  /\ \A p, r \in OutPort : oedge[p] = oedge[r] /\ oedge[p] # NoEdge => p = r

\* The parts of OnEdge: what the body at the head of e works on, where R run on
\* b; messages M in the order of their numbers, from lo on; and those at the tail
\* of e, with f on the way to the sequencers and h in them.
Taken(R, b, e) ==
  LET heads == {p \in InPort : iedge[p] = e}
      taken == {p \in heads : p[1] \in R}
  IN  IF taken = {} THEN <<>>
      ELSE LET p == CHOOSE p \in taken : TRUE IN <<b[p[1]][1][p[2]]>>
Line(M, lo) == [k \in 1 .. Cardinality(M) |-> (CHOOSE m \in M : m[1] = lo + k - 1)[2]]
Waiting(f, h, x, e) ==
  LET tails == {p \in OutPort : oedge[p] = e}
  IN  IF tails = {} THEN <<>>
      ELSE LET p == CHOOSE p \in tails : TRUE IN Line(f[p] \cup h[p], x[p])
View(R, b, q, f, h, x, e) == Taken(R, b, e) \o q[e] \o Waiting(f, h, x, e)

LEMMA OnEdgeParts ==
  /\ \A e : OnEdge(e) = View(Running, body, inbox, flight, held, nextno, e)
  /\ UNCHANGED wires =>
       \A e : OnEdge(e)' = View(Running', body', inbox', flight', held', nextno', e)
<1>1. \A e : OnEdge(e) = View(Running, body, inbox, flight, held, nextno, e)
  BY Zenon DEF OnEdge, View, Taken, Waiting, Line, Ins
<1>2. ASSUME UNCHANGED wires, NEW e
      PROVE  OnEdge(e)' = View(Running', body', inbox', flight', held', nextno', e)
  <2>1. iedge' = iedge /\ oedge' = oedge
    BY <1>2 DEF wires
  <2> QED BY <2>1 DEF OnEdge, View, Taken, Waiting, Line, Ins
<1> QED BY <1>1, <1>2

\* The body at the head of an edge, if any.
LEMMA TakenIs ==
  ASSUME OneToOne, NEW R, NEW b, NEW e, e # NoEdge
  PROVE  /\ \A p \in InPort : iedge[p] = e /\ p[1] \in R => Taken(R, b, e) = <<b[p[1]][1][p[2]]>>
         /\ (\A p \in InPort : iedge[p] = e => p[1] \notin R) => Taken(R, b, e) = <<>>
<1>1. ASSUME NEW p \in InPort, iedge[p] = e, p[1] \in R
      PROVE  Taken(R, b, e) = <<b[p[1]][1][p[2]]>>
  <2>1. {r \in {r \in InPort : iedge[r] = e} : r[1] \in R} = {p}
    BY <1>1 DEF OneToOne
  <2>2. (CHOOSE r \in {p} : TRUE) = p
    OBVIOUS
  <2> QED BY <2>1, <2>2 DEF Taken
<1>2. ASSUME \A p \in InPort : iedge[p] = e => p[1] \notin R
      PROVE  Taken(R, b, e) = <<>>
  <2>1. {r \in {r \in InPort : iedge[r] = e} : r[1] \in R} = {}
    BY <1>2
  <2> QED BY <2>1 DEF Taken
<1> QED BY <1>1, <1>2

\* Bodies elsewhere do not matter.
LEMMA TakenSame ==
  ASSUME OneToOne, NEW R, NEW b, NEW S, NEW c, NEW e, e # NoEdge,
         \A p \in InPort : iedge[p] = e => (p[1] \in R <=> p[1] \in S) /\ b[p[1]] = c[p[1]]
  PROVE  Taken(R, b, e) = Taken(S, c, e)
<1>1. CASE \E p \in InPort : iedge[p] = e /\ p[1] \in R
  <2>1. PICK p \in InPort : iedge[p] = e /\ p[1] \in R
    BY <1>1
  <2>2. Taken(R, b, e) = <<b[p[1]][1][p[2]]>>
    BY <2>1, TakenIs
  <2>3. p[1] \in S /\ c[p[1]] = b[p[1]]
    BY <2>1
  <2>4. Taken(S, c, e) = <<c[p[1]][1][p[2]]>>
    BY <2>1, <2>3, TakenIs
  <2> QED BY <2>2, <2>3, <2>4
<1>2. CASE \A p \in InPort : iedge[p] = e => p[1] \notin R
  BY <1>2, TakenIs
<1> QED BY <1>1, <1>2

\* The messages at the tail of an edge, if it has one.
LEMMA WaitingIs ==
  ASSUME OneToOne, NEW f, NEW h, NEW x, NEW e, e # NoEdge
  PROVE  /\ \A p \in OutPort : oedge[p] = e => Waiting(f, h, x, e) = Line(f[p] \cup h[p], x[p])
         /\ (\A p \in OutPort : oedge[p] # e) => Waiting(f, h, x, e) = <<>>
<1>1. ASSUME NEW p \in OutPort, oedge[p] = e
      PROVE  Waiting(f, h, x, e) = Line(f[p] \cup h[p], x[p])
  <2>1. {r \in OutPort : oedge[r] = e} = {p}
    BY <1>1 DEF OneToOne
  <2>2. (CHOOSE r \in {p} : TRUE) = p
    OBVIOUS
  <2> QED BY <2>1, <2>2 DEF Waiting
<1>2. ASSUME \A p \in OutPort : oedge[p] # e
      PROVE  Waiting(f, h, x, e) = <<>>
  <2>1. {r \in OutPort : oedge[r] = e} = {}
    BY <1>2
  <2> QED BY <2>1 DEF Waiting
<1> QED BY <1>1, <1>2

\* Nor do sequencers elsewhere, nor where before the sequencer a message is.
LEMMA WaitingSame ==
  ASSUME OneToOne, NEW f, NEW h, NEW x, NEW f2, NEW h2, NEW x2, NEW e, e # NoEdge,
         \A p \in OutPort : oedge[p] = e => f2[p] \cup h2[p] = f[p] \cup h[p] /\ x2[p] = x[p]
  PROVE  Waiting(f2, h2, x2, e) = Waiting(f, h, x, e)
<1>1. ASSUME NEW p \in OutPort, oedge[p] = e
      PROVE  Waiting(f2, h2, x2, e) = Waiting(f, h, x, e)
  <2>1. Waiting(f, h, x, e) = Line(f[p] \cup h[p], x[p])
    BY <1>1, WaitingIs
  <2>2. Waiting(f2, h2, x2, e) = Line(f2[p] \cup h2[p], x2[p])
    BY <1>1, WaitingIs
  <2> QED BY <1>1, <2>1, <2>2
<1>2. CASE \A p \in OutPort : oedge[p] # e
  BY <1>2, WaitingIs
<1> QED BY <1>1, <1>2

\* M holds one message for each number from lo on, up to but without hi.
Consecutive(M, lo, hi) ==
  /\ M \subseteq Message
  /\ \A m \in M : m[1] \in lo .. hi - 1
  /\ \A k \in lo .. hi - 1 : \E m \in M : m[1] = k
  /\ \A m1, m2 \in M : m1[1] = m2[1] => m1 = m2

LEMMA GaplessConsecutive ==
  ASSUME NEW F \in SUBSET Message, NEW H \in SUBSET Message, NEW lo, NEW hi, Gapless(F, H, lo, hi)
  PROVE  Consecutive(F \cup H, lo, hi)
BY DEF Gapless, Consecutive

\* They are as many as the numbers.
LEMMA ConsecutiveCount ==
  ASSUME NEW M, NEW lo \in Nat, NEW hi \in Nat, lo <= hi, Consecutive(M, lo, hi)
  PROVE  Cardinality(M) = hi - lo
<1> DEFINE f == [k \in lo .. hi - 1 |-> CHOOSE m \in M : m[1] = k]
<1>2. \A k \in lo .. hi - 1 : f[k] \in M /\ f[k][1] = k
  BY DEF Consecutive
<1>3. f \in [lo .. hi - 1 -> M]
  BY <1>2
<1>4. \A m \in M : m[1] \in lo .. hi - 1 /\ f[m[1]] = m
  BY <1>2 DEF Consecutive
<1>5. DOMAIN f = lo .. hi - 1
  OBVIOUS
<1> HIDE DEF f
<1>6. f \in Bijection(lo .. hi - 1, M)
  <2>1. f \in Injection(lo .. hi - 1, M)
    BY <1>2, <1>3, <1>5 DEF Injection, IsInjective
  <2>2. f \in Surjection(lo .. hi - 1, M)
    BY <1>3, <1>4 DEF Surjection
  <2> QED BY <2>1, <2>2 DEF Bijection
<1>7. IsFiniteSet(lo .. hi - 1) /\ Cardinality(lo .. hi - 1) = hi - lo
  <2> DEFINE b == hi - 1
  <2>1. b \in Int /\ lo \in Int
    OBVIOUS
  <2> HIDE DEF b
  <2>2. IsFiniteSet(lo .. b) /\ Cardinality(lo .. b) = IF lo > b THEN 0 ELSE b - lo + 1
    BY <2>1, FS_Interval
  <2> QED BY <2>2 DEF b
<1> QED BY <1>6, <1>7, FS_Bijection DEF ExistsBijection

\* They stand in the line in the order of their numbers.
LEMMA LineIs ==
  ASSUME NEW M, NEW lo \in Nat, NEW hi \in Nat, lo <= hi, Consecutive(M, lo, hi)
  PROVE  /\ Line(M, lo) \in Seq(Token)
         /\ Len(Line(M, lo)) = hi - lo
         /\ \A m \in M : Line(M, lo)[m[1] - lo + 1] = m[2]
<1> DEFINE v == [k \in 1 .. hi - lo |-> (CHOOSE m \in M : m[1] = lo + k - 1)[2]]
<1>2. Line(M, lo) = v
  BY ConsecutiveCount DEF Line
<1>3. ASSUME NEW k \in 1 .. hi - lo
      PROVE  v[k] \in Token
  <2>1. lo + k - 1 \in lo .. hi - 1
    OBVIOUS
  <2>2. PICK m \in M : m[1] = lo + k - 1
    BY <2>1 DEF Consecutive
  <2>3. (CHOOSE x \in M : x[1] = lo + k - 1) \in M
    BY <2>2
  <2> QED BY <2>3 DEF Consecutive, Message
<1>4. v \in [1 .. hi - lo -> Token] /\ hi - lo \in Nat
  BY <1>3
<1>5. v \in Seq(Token) /\ Len(v) = hi - lo
  <2>1. \A k \in Nat : \A s \in [1 .. k -> Token] : s \in Seq(Token) /\ Len(s) = k
    OBVIOUS
  <2> HIDE DEF v
  <2> QED BY <1>4, <2>1
<1>6. ASSUME NEW m \in M
      PROVE  v[m[1] - lo + 1] = m[2]
  <2>1. m[1] \in lo .. hi - 1
    BY DEF Consecutive
  <2>2. m[1] - lo + 1 \in 1 .. hi - lo /\ lo + (m[1] - lo + 1) - 1 = m[1]
    BY <2>1
  <2>3. (CHOOSE x \in M : x[1] = m[1]) = m
    BY DEF Consecutive
  <2> QED BY <2>2, <2>3
<1> HIDE DEF v
<1> QED BY <1>2, <1>5, <1>6

\* Without the first of them the line is its tail.
LEMMA LineForward ==
  ASSUME NEW M, NEW lo \in Nat, NEW hi \in Nat, NEW m \in M, m[1] = lo, lo < hi,
         Consecutive(M, lo, hi), Consecutive(M \ {m}, lo + 1, hi)
  PROVE  /\ Line(M \ {m}, lo + 1) \in Seq(Token)
         /\ Line(M, lo) = <<m[2]>> \o Line(M \ {m}, lo + 1)
<1> DEFINE s == Line(M, lo)
           nx == lo + 1
           M2 == M \ {m}
           t == Line(M2, nx)
<1>1. nx \in Nat /\ nx <= hi /\ lo <= hi
  OBVIOUS
<1>2. /\ s \in Seq(Token) /\ Len(s) = hi - lo
      /\ \A x \in M : s[x[1] - lo + 1] = x[2]
  BY <1>1, LineIs
<1>4. /\ t \in Seq(Token) /\ Len(t) = hi - nx
      /\ \A x \in M2 : t[x[1] - nx + 1] = x[2]
  <2>1. Consecutive(M2, nx, hi)
    OBVIOUS
  <2> HIDE DEF nx
  <2> QED BY <1>1, <2>1, LineIs
<1> HIDE DEF s, t
<1>5. m[2] \in Token
  BY DEF Consecutive, Message
<1>6. <<m[2]>> \in Seq(Token) /\ Len(<<m[2]>>) = 1 /\ <<m[2]>>[1] = m[2]
  BY <1>5
<1>7. /\ <<m[2]>> \o t \in Seq(Token)
      /\ Len(<<m[2]>> \o t) = hi - lo
      /\ \A i \in 1 .. hi - lo : (<<m[2]>> \o t)[i] = IF i <= 1 THEN <<m[2]>>[i] ELSE t[i - 1]
  BY <1>1, <1>4, <1>6, ConcatProperties
<1>8. ASSUME NEW i \in 1 .. hi - lo
      PROVE  s[i] = (<<m[2]>> \o t)[i]
  <2>1. lo + i - 1 \in lo .. hi - 1
    OBVIOUS
  <2>2. PICK x \in M : x[1] = lo + i - 1
    BY <2>1 DEF Consecutive
  <2>3. s[i] = x[2]
    <3>1. x[1] - lo + 1 = i
      BY <2>2
    <3> QED BY <1>2, <3>1
  <2>4. CASE i = 1
    <3>1. x = m
      BY <2>2, <2>4 DEF Consecutive
    <3> QED BY <1>6, <1>7, <2>3, <2>4, <3>1
  <2>5. CASE i # 1
    <3>1. x # m /\ x \in M2
      BY <2>2, <2>5
    <3>2. x[1] - nx + 1 = i - 1
      BY <2>2
    <3>3. t[i - 1] = x[2]
      BY <1>4, <3>1, <3>2
    <3> QED BY <1>7, <2>3, <2>5, <3>3
  <2> QED BY <2>4, <2>5
<1>9. s = <<m[2]>> \o t
  BY <1>2, <1>7, <1>8, SeqEqual
<1> QED BY <1>4, <1>9 DEF s, t

\* The n objects s have joined the messages M, which end before number hi.
Extended(M, hi, n, s, M2) ==
  s \in Seq(Token) /\ Len(s) = n /\ M2 = M \cup Results(hi, n, s)

\* They come to the end of the line.
LEMMA LineAdd ==
  ASSUME NEW M, NEW M2, NEW lo \in Nat, NEW hi \in Nat, lo <= hi, NEW n \in Nat, NEW s,
         Consecutive(M, lo, hi), Consecutive(M2, lo, hi + n), Extended(M, hi, n, s, M2)
  PROVE  Line(M2, lo) = Line(M, lo) \o s
<1> DEFINE t == Line(M, lo)
           u == Line(M2, lo)
           top == hi + n
<1>1. top \in Nat /\ lo <= top
  OBVIOUS
<1>2. /\ t \in Seq(Token) /\ Len(t) = hi - lo
      /\ \A x \in M : t[x[1] - lo + 1] = x[2]
  BY LineIs
<1>3. /\ u \in Seq(Token) /\ Len(u) = top - lo
      /\ \A x \in M2 : u[x[1] - lo + 1] = x[2]
  <2>1. Consecutive(M2, lo, top)
    OBVIOUS
  <2> HIDE DEF top
  <2> QED BY <1>1, <2>1, LineIs
<1> HIDE DEF t, u
<1>4. s \in Seq(Token) /\ Len(s) = n
  BY DEF Extended
<1>5. /\ t \o s \in Seq(Token)
      /\ Len(t \o s) = top - lo
      /\ \A i \in 1 .. top - lo : (t \o s)[i] = IF i <= hi - lo THEN t[i] ELSE s[i - (hi - lo)]
  <2>1. Len(t) + Len(s) = top - lo /\ Len(t) = hi - lo
    BY <1>2, <1>4
  <2>2. t \in Seq(Token) /\ s \in Seq(Token)
    BY <1>2, <1>4
  <2>3. /\ t \o s \in Seq(Token)
        /\ Len(t \o s) = Len(t) + Len(s)
        /\ \A i \in 1 .. Len(t) + Len(s) : (t \o s)[i] = IF i <= Len(t) THEN t[i] ELSE s[i - Len(t)]
    BY <2>2, ConcatProperties
  <2> QED BY <2>1, <2>3
<1>6. ASSUME NEW i \in 1 .. top - lo
      PROVE  u[i] = (t \o s)[i]
  <2>1. lo + i - 1 \in Nat /\ (lo + i - 1) - lo + 1 = i
    BY <1>1
  <2>2. CASE i <= hi - lo
    <3>1. lo + i - 1 \in lo .. hi - 1
      BY <2>2
    <3>2. PICK x \in M : x[1] = lo + i - 1
      BY <3>1 DEF Consecutive
    <3>3. x \in M2
      BY <3>2 DEF Extended
    <3>4. t[i] = x[2] /\ u[i] = x[2]
      BY <1>2, <1>3, <2>1, <3>2, <3>3
    <3> QED BY <1>5, <2>2, <3>4
  <2>3. CASE ~(i <= hi - lo)
    <3> DEFINE j == i - (hi - lo)
               x == <<hi + j - 1, s[j]>>
    <3>1. j \in 1 .. n /\ hi + j - 1 = lo + i - 1
      BY <1>1, <2>3
    <3>2. x \in M2
      BY <3>1 DEF Extended, Results
    <3>3. x[1] = lo + i - 1 /\ x[2] = s[j]
      BY <3>1
    <3> HIDE DEF x
    <3>4. u[i] = s[j]
      BY <1>3, <2>1, <3>2, <3>3
    <3> QED BY <1>5, <2>3, <3>4
  <2> QED BY <2>2, <2>3
<1>7. u = t \o s
  BY <1>3, <1>5, <1>6, SeqEqual
<1> QED BY <1>7 DEF t, u

-----------------------------------------------------------------------------
(* What the steps do to it.                                                *)

\* The edges at the ports of a node.
InE(n)  == EdgesAt(iedge, Inputs(n))
OutE(n) == EdgesAt(oedge, Outputs(n))

LEMMA EdgesOf ==
  ASSUME Typed, NEW n \in Node, NEW e
  PROVE  /\ e \in InE(n) <=> e # NoEdge /\ \E p \in InPort : p[1] = n /\ iedge[p] = e
         /\ e \in OutE(n) <=> e # NoEdge /\ \E p \in OutPort : p[1] = n /\ oedge[p] = e
         /\ InE(n) \subseteq Edge /\ OutE(n) \subseteq Edge
<1>1. /\ \A p : p \in Inputs(n) <=> p \in InPort /\ p[1] = n
      /\ \A p : p \in Outputs(n) <=> p \in OutPort /\ p[1] = n
  BY DfpAssumption DEF Inputs, Outputs, Ports, InPort, OutPort
<1> QED BY <1>1 DEF InE, OutE, EdgesAt, Typed, TypeOK

\* Sequences put end to end.
LEMMA Regroup ==
  ASSUME NEW a \in Seq(Token), NEW b \in Seq(Token), NEW c \in Seq(Token)
  PROVE  a \o b \in Seq(Token) /\ a \o b \o c = a \o (b \o c)
<1> DEFINE T == Token
<1> HIDE DEF T
<1>1. a \in Seq(T) /\ b \in Seq(T) /\ c \in Seq(T)
  BY DEF T
<1>2. a \o b \in Seq(T)
  BY <1>1, ConcatProperties, SMTT(30)
<1>3. a \o b \o c = a \o (b \o c)
  BY <1>1, ConcatAssociative, SMTT(30)
<1> QED BY <1>2, <1>3 DEF T

LEMMA Joined ==
  ASSUME NEW x \in Token, NEW a \in Seq(Token), NEW b \in Seq(Token), NEW c \in Seq(Token)
  PROVE  /\ <<>> \o a \o b = a \o b
         /\ <<x>> \o a \o b # <<>>
         /\ Head(<<x>> \o a \o b) = x
         /\ Tail(<<x>> \o a \o b) = a \o b
         /\ a \o b \o c = a \o (b \o c)
         /\ a \o b \in Seq(Token)
         /\ a \o <<>> = a
<1>1. <<>> \in Seq(Token) /\ <<x>> \in Seq(Token) /\ a \o b \in Seq(Token)
  BY ConcatProperties
<1>2. <<>> \o a = a /\ a \o <<>> = a
  BY ConcatEmptySeq
<1>3. a \o b \o c = a \o (b \o c) /\ <<x>> \o a \o b = <<x>> \o (a \o b)
  <2>1. a \o b \o c = a \o (b \o c)
    BY Regroup, ZenonT(60)
  <2> DEFINE xs == <<x>>
  <2>2. xs \in Seq(Token)
    BY <1>1
  <2> HIDE DEF xs
  <2>3. xs \o a \o b = xs \o (a \o b)
    BY <2>2, Regroup, ZenonT(60)
  <2> QED BY <2>1, <2>3 DEF xs
<1> DEFINE s == a \o b
<1>4. s \in Seq(Token)
  BY <1>1
<1> HIDE DEF s
<1>5. /\ <<x>> \o s \in Seq(Token) /\ Len(<<x>> \o s) = 1 + Len(s)
      /\ \A i \in 1 .. 1 + Len(s) : (<<x>> \o s)[i] = IF i <= 1 THEN x ELSE s[i - 1]
  BY <1>1, <1>4, ConcatProperties
<1>6. Len(s) \in Nat
  BY <1>4, LenProperties
<1>7. <<x>> \o s # <<>> /\ Head(<<x>> \o s) = x
  BY <1>5, <1>6
<1>8. Tail(<<x>> \o s) = s
  <2>1. /\ Tail(<<x>> \o s) \in Seq(Token) /\ Len(Tail(<<x>> \o s)) = Len(s)
        /\ \A i \in 1 .. Len(s) : Tail(<<x>> \o s)[i] = (<<x>> \o s)[i + 1]
    BY <1>5, <1>6, <1>7, HeadTailProperties
  <2>2. \A i \in 1 .. Len(s) : Tail(<<x>> \o s)[i] = s[i]
    BY <1>5, <1>6, <2>1
  <2> QED BY <1>4, <2>1, <2>2, SeqEqual
<1> QED BY <1>1, <1>2, <1>3, <1>7, <1>8 DEF s

LEMMA HeadAndTail ==
  ASSUME NEW s \in Seq(Token), s # <<>>
  PROVE  <<Head(s)>> \o Tail(s) = <<>> \o s
<1>1. /\ Head(s) \in Token /\ Tail(s) \in Seq(Token) /\ Len(Tail(s)) = Len(s) - 1
      /\ \A i \in 1 .. Len(Tail(s)) : Tail(s)[i] = s[i + 1]
  BY HeadTailProperties
<1>2. Len(s) \in Nat \ {0} /\ Head(s) = s[1]
  BY EmptySeq
<1>3. <<Head(s)>> \in Seq(Token)
  BY <1>1
<1>4. <<>> \o s = s
  BY ConcatEmptySeq
<1> DEFINE t == Tail(s)
           x == Head(s)
           n == Len(s)
<1>5. /\ t \in Seq(Token) /\ Len(t) = n - 1 /\ n \in Nat \ {0} /\ <<x>> \in Seq(Token)
      /\ \A i \in 1 .. n - 1 : t[i] = s[i + 1]
      /\ x = s[1] /\ n = Len(s)
  BY <1>1, <1>2, <1>3
<1> HIDE DEF t, x, n
<1>6. /\ <<x>> \o t \in Seq(Token) /\ Len(<<x>> \o t) = n
      /\ \A i \in 1 .. n : (<<x>> \o t)[i] = IF i <= 1 THEN x ELSE t[i - 1]
  BY <1>5, ConcatProperties
<1>7. \A i \in 1 .. n : (<<x>> \o t)[i] = s[i]
  BY <1>5, <1>6
<1>8. <<x>> \o t = s
  BY <1>5, <1>6, <1>7, SeqEqual
<1> QED BY <1>4, <1>8 DEF t, x

LEMMA Rejoined ==
  ASSUME NEW x \in Token, NEW a \in Seq(Token), NEW b \in Seq(Token), NEW c \in Seq(Token)
  PROVE  a \o Append(b, x) \o c = a \o b \o (<<x>> \o c)
<1> DEFINE s == <<x>>
<1>1. s \in Seq(Token)
  OBVIOUS
<1> HIDE DEF s
<1>2. a \o b \in Seq(Token)
  BY Regroup
<1>4. a \o b \o s = a \o (b \o s)
  BY <1>1, Regroup, SMTT(60)
<1>3. (a \o b) \o s \o c = (a \o b) \o (s \o c)
  <2> DEFINE ab == a \o b
  <2>1. ab \in Seq(Token)
    BY <1>2
  <2> HIDE DEF ab
  <2>2. ab \o s \o c = ab \o (s \o c)
    BY <1>1, <2>1, Regroup, ZenonT(60)
  <2> QED BY <2>2 DEF ab
<1>5. Append(b, x) = b \o s
  BY AppendIsConcat DEF s
<1> QED BY <1>3, <1>4, <1>5 DEF s

\* Where no message is on its way there is no line.
LEMMA EmptyLine == \A lo : Line({}, lo) = <<>> /\ Line({}, lo) \in Seq(Token)
<1> SUFFICES ASSUME NEW lo PROVE Line({}, lo) = <<>> /\ Line({}, lo) \in Seq(Token)
  OBVIOUS
<1> DEFINE v == Line({}, lo)
<1>1. v \in [1 .. 0 -> Token]
  BY FS_EmptySet DEF Line
<1>2. \A s \in [1 .. 0 -> Token] : s \in Seq(Token) /\ Len(s) = 0
  OBVIOUS
<1> HIDE DEF v
<1>3. v \in Seq(Token) /\ Len(v) = 0
  BY <1>1, <1>2
<1>4. v = <<>>
  BY <1>3, EmptySeq
<1> QED BY <1>3, <1>4 DEF v

\* What the refinement rests on.
TbbInv == Typed /\ Sequenced /\ Tidy /\ status = "run" /\ OneToOne

TakenAt(e)   == Taken(Running, body, e)
WaitingAt(e) == Waiting(flight, held, nextno, e)

LEMMA PartTypes ==
  ASSUME TbbInv, NEW e \in Edge
  PROVE  TakenAt(e) \in Seq(Token) /\ inbox[e] \in Seq(Token) /\ WaitingAt(e) \in Seq(Token)
<1>0. OneToOne /\ Typed /\ Tidy /\ Sequenced /\ status = "run" /\ e # NoEdge
  BY DfpAssumption DEF TbbInv, Edge, NoEdge
<1>1. inbox[e] \in Seq(Token)
  BY <1>0 DEF Typed, TypeOK
<1>2. TakenAt(e) \in Seq(Token)
  <2>1. ASSUME NEW p \in InPort, iedge[p] = e, p[1] \in Running
        PROVE  TakenAt(e) \in Seq(Token)
    <3>1. Ins(p[1])[p[2]] \in Token
      BY <1>0, <2>1, Given, NodePorts
    <3>2. TakenAt(e) = <<Ins(p[1])[p[2]]>>
      BY <1>0, <2>1, TakenIs DEF TakenAt, Ins
    <3> QED BY <3>1, <3>2
  <2>2. CASE \A p \in InPort : iedge[p] = e => p[1] \notin Running
    <3>1. TakenAt(e) = <<>>
      BY <1>0, <2>2, TakenIs DEF TakenAt
    <3> QED BY <3>1
  <2> QED BY <2>1, <2>2
<1>3. WaitingAt(e) \in Seq(Token)
  <2>1. ASSUME NEW p \in OutPort, oedge[p] = e
        PROVE  WaitingAt(e) \in Seq(Token)
    <3>1. WaitingAt(e) = Line(flight[p] \cup held[p], nextno[p])
      BY <1>0, <2>1, WaitingIs DEF WaitingAt
    <3>2. CASE Category[p[1]] = "source"
      <4>1. flight[p] \cup held[p] = {}
        BY <1>0, <3>2 DEF Tidy
      <4> QED BY <3>1, <4>1, EmptyLine
    <3>3. CASE Category[p[1]] # "source"
      <4>1. /\ nextno[p] \in Nat /\ seqno[p[1]] \in Nat /\ nextno[p] <= seqno[p[1]]
            /\ Consecutive(flight[p] \cup held[p], nextno[p], seqno[p[1]])
        BY <1>0, <3>3, NodePorts, GaplessConsecutive DEF Typed, TypeOK, Sequenced
      <4> QED BY <3>1, <4>1, LineIs
    <3> QED BY <3>2, <3>3
  <2>2. CASE \A p \in OutPort : oedge[p] # e
    <3>1. WaitingAt(e) = <<>>
      BY <1>0, <2>2, WaitingIs DEF WaitingAt
    <3> QED BY <3>1
  <2> QED BY <2>1, <2>2
<1> QED BY <1>1, <1>2, <1>3

\* The parts of an edge after a step.
TakenNext(e)   == Taken(Running', body', e)
WaitingNext(e) == Waiting(flight', held', nextno', e)

\* What is on the way to the tail of an edge, before and after a step.
LEMMA WaitingHere ==
  ASSUME OneToOne, NEW e, e # NoEdge
  PROVE  \A r \in OutPort : oedge[r] = e =>
           /\ WaitingAt(e) = Line(flight[r] \cup held[r], nextno[r])
           /\ WaitingNext(e) = Line(flight'[r] \cup held'[r], nextno'[r])
<1> SUFFICES ASSUME NEW r \in OutPort, oedge[r] = e
             PROVE  /\ WaitingAt(e) = Line(flight[r] \cup held[r], nextno[r])
                    /\ WaitingNext(e) = Line(flight'[r] \cup held'[r], nextno'[r])
  OBVIOUS
<1>0. {p \in OutPort : oedge[p] = e} = {r} /\ (CHOOSE p \in {r} : TRUE) = r
  BY DEF OneToOne
<1>1. Waiting(flight, held, nextno, e) = Line(flight[r] \cup held[r], nextno[r])
  BY <1>0 DEF Waiting
<1>2. Waiting(flight', held', nextno', e) = Line(flight'[r] \cup held'[r], nextno'[r])
  BY <1>0 DEF Waiting
<1> QED BY <1>1, <1>2 DEF WaitingAt, WaitingNext

LEMMA EdgeParts ==
  /\ \A e : OnEdge(e) = TakenAt(e) \o inbox[e] \o WaitingAt(e)
  /\ UNCHANGED wires => \A e : OnEdge(e)' = TakenNext(e) \o inbox'[e] \o WaitingNext(e)
<1>1. \A e : OnEdge(e) = TakenAt(e) \o inbox[e] \o WaitingAt(e)
  BY OnEdgeParts DEF View, TakenAt, WaitingAt
<1>2. ASSUME UNCHANGED wires
      PROVE  \A e : OnEdge(e)' = TakenNext(e) \o inbox'[e] \o WaitingNext(e)
  <2>1. \A e : OnEdge(e)' = View(Running', body', inbox', flight', held', nextno', e)
    BY <1>2, OnEdgeParts
  <2>2. \A e : View(Running', body', inbox', flight', held', nextno', e)
                = TakenNext(e) \o inbox'[e] \o WaitingNext(e)
    BY DEF View, TakenNext, WaitingNext
  <2> QED BY <2>1, <2>2
<1> QED BY <1>1, <1>2

\* What a body is given stays on its edges until the call ends.
LEMMA StartStutters ==
  ASSUME TbbInv, NEW n \in Node, Start(n), NEW e \in Edge
  PROVE  OnEdge(e)' = OnEdge(e)
<1>0. OneToOne /\ Typed /\ e # NoEdge
  BY DfpAssumption DEF TbbInv, Edge, NoEdge
<1>1. /\ UNCHANGED wires /\ UNCHANGED <<flight, held, nextno>>
      /\ n \notin Running
      /\ body' = [body EXCEPT ![n] = <<[i \in 0 .. NumIn[n] - 1 |-> Head(inbox[iedge[<<n, i>>]])]>>]
      /\ inbox' = Pop(inbox, InE(n))
      /\ \A p \in Inputs(n) : Contents(iedge, inbox, p) # <<>>
  BY DEF Start, InE
<1>2. WaitingNext(e) = WaitingAt(e)
  BY <1>1 DEF WaitingNext, WaitingAt
<1>3. /\ \A m \in Node : m # n => body'[m] = body[m]
      /\ body'[n] = <<[i \in 0 .. NumIn[n] - 1 |-> Head(inbox[iedge[<<n, i>>]])]>>
  BY <1>0, <1>1 DEF Typed
<1>4. Running' = Running \cup {n}
  BY <1>3 DEF Running
<1>5. inbox[e] \in Seq(Token) /\ WaitingAt(e) \in Seq(Token)
  BY PartTypes
<1>6. CASE e \in InE(n)
  <2>1. PICK p \in InPort : p[1] = n /\ iedge[p] = e
    BY <1>0, <1>6, EdgesOf
  <2>2. p = <<n, p[2]>> /\ p[2] \in 0 .. NumIn[n] - 1 /\ p \in Inputs(n)
    BY <2>1, NodePorts DEF InPort
  <2>3. TakenAt(e) = <<>>
    <3>1. \A r \in InPort : iedge[r] = e => r[1] \notin Running
      BY <1>0, <1>1, <2>1 DEF OneToOne
    <3> QED BY <1>0, <3>1, TakenIs DEF TakenAt
  <2>4. TakenNext(e) = <<Head(inbox[e])>>
    <3>1. TakenNext(e) = <<body'[p[1]][1][p[2]]>>
      BY <1>0, <1>4, <2>1, TakenIs DEF TakenNext
    <3>2. body'[p[1]][1][p[2]] = Head(inbox[iedge[<<n, p[2]>>]])
      <4> DEFINE ins == [i \in 0 .. NumIn[n] - 1 |-> Head(inbox[iedge[<<n, i>>]])]
      <4>1. body'[p[1]] = <<ins>>
        BY <1>3, <2>1
      <4>2. ins[p[2]] = Head(inbox[iedge[<<n, p[2]>>]])
        BY <2>2
      <4> HIDE DEF ins
      <4> QED BY <4>1, <4>2
    <3> QED BY <2>1, <2>2, <3>1, <3>2
  <2>5. inbox[e] # <<>>
    BY <1>0, <1>1, <2>1, <2>2 DEF Contents
  <2>6. inbox'[e] = Tail(inbox[e])
    BY <1>0, <1>1, <1>6 DEF Pop, Typed, TypeOK
  <2>7. <<Head(inbox[e])>> \o Tail(inbox[e]) = <<>> \o inbox[e]
    BY <1>5, <2>5, HeadAndTail
  <2> QED BY <1>1, <1>2, <2>3, <2>4, <2>6, <2>7, EdgeParts
<1>7. CASE e \notin InE(n)
  <2>1. inbox'[e] = inbox[e]
    BY <1>0, <1>1, <1>7 DEF Pop, Typed, TypeOK
  <2>2. \A p \in InPort : iedge[p] = e => p[1] # n /\ p[1] \in Node
    BY <1>0, <1>7, EdgesOf, NodePorts
  <2>3. TakenNext(e) = TakenAt(e)
    BY <1>0, <1>3, <1>4, <2>2, TakenSame DEF TakenNext, TakenAt
  <2> QED BY <1>1, <1>2, <2>1, <2>3, EdgeParts
<1> QED BY <1>6, <1>7

\* Nor does the way through a sequencer change what is on an edge.
LEMMA PutStutters ==
  ASSUME TbbInv, NEW p \in OutPort, PutResult(p), NEW e \in Edge
  PROVE  OnEdge(e)' = OnEdge(e)
<1>0. OneToOne /\ Typed /\ e # NoEdge
  BY DfpAssumption DEF TbbInv, Edge, NoEdge
<1>1. /\ UNCHANGED wires /\ UNCHANGED inbox /\ UNCHANGED body /\ UNCHANGED nextno
  BY DEF PutResult
<1>2. PICK m \in flight[p] : /\ flight' = [flight EXCEPT ![p] = @ \ {m}]
                             /\ held' = [held EXCEPT ![p] = @ \cup {m}]
  BY DEF PutResult
<1>3. \A r \in OutPort : flight'[r] \cup held'[r] = flight[r] \cup held[r]
  BY <1>0, <1>2 DEF Typed
<1>4. WaitingNext(e) = WaitingAt(e)
  BY <1>0, <1>1, <1>3, WaitingSame DEF WaitingNext, WaitingAt
<1>5. TakenNext(e) = TakenAt(e)
  BY <1>1 DEF TakenNext, TakenAt, Running
<1> QED BY <1>1, <1>4, <1>5, EdgeParts

\* Without the message that is due the line at a port is its tail.
LEMMA DueIsFirst ==
  ASSUME Typed, Sequenced, Tidy, status = "run", NEW p \in OutPort, NEW m \in Due(p)
  PROVE  /\ m[2] \in Token
         /\ Line(flight[p] \cup (held[p] \ {m}), nextno[p] + 1) \in Seq(Token)
         /\ Line(flight[p] \cup held[p], nextno[p])
              = <<m[2]>> \o Line(flight[p] \cup (held[p] \ {m}), nextno[p] + 1)
<1> DEFINE F == flight[p]
           H == held[p]
           lo == nextno[p]
           hi == seqno[p[1]]
<1>1. m \in H /\ m[1] = lo /\ H \subseteq Message /\ F \subseteq Message
  BY DEF Due, Typed
<1>2. Category[p[1]] # "source"
  BY <1>1 DEF Tidy
<1>3. lo \in Nat /\ hi \in Nat /\ lo <= hi /\ Gapless(F, H, lo, hi)
  BY <1>2, NodePorts DEF Typed, TypeOK, Sequenced
<1> HIDE DEF F, H, lo, hi
<1>4. lo + 1 <= hi /\ Gapless(F, H \ {m}, lo + 1, hi)
  BY <1>1, <1>3, GaplessForward
<1> DEFINE M == F \cup H
           M2 == F \cup (H \ {m})
<1>5. Consecutive(M, lo, hi)
  BY <1>1, <1>3, GaplessConsecutive
<1>6. Consecutive(M2, lo + 1, hi)
  <2> DEFINE G == H \ {m}
             nx == lo + 1
  <2>1. G \subseteq Message /\ F \subseteq Message /\ Gapless(F, G, nx, hi)
    BY <1>1, <1>4
  <2> HIDE DEF G, nx
  <2>2. Consecutive(F \cup G, nx, hi)
    BY <2>1, GaplessConsecutive
  <2> QED BY <2>2 DEF G, nx
<1>7. m \in M /\ M2 = M \ {m} /\ lo < hi
  BY <1>1, <1>3, <1>4 DEF Gapless
<1>8. m[2] \in Token
  BY <1>1 DEF Message
<1> HIDE DEF M, M2
<1>9. Line(M2, lo + 1) \in Seq(Token) /\ Line(M, lo) = <<m[2]>> \o Line(M2, lo + 1)
  <2>1. Consecutive(M \ {m}, lo + 1, hi)
    BY <1>6, <1>7
  <2>2. m \in M /\ lo \in Nat /\ hi \in Nat /\ lo < hi /\ m[1] = lo
    BY <1>1, <1>3, <1>7
  <2>3. Line(M \ {m}, lo + 1) \in Seq(Token) /\ Line(M, lo) = <<m[2]>> \o Line(M \ {m}, lo + 1)
    BY <1>5, <2>1, <2>2, LineForward, ZenonT(60)
  <2> QED BY <1>7, <2>3
<1> QED BY <1>8, <1>9 DEF M, M2, F, H, lo

\* Nor does leaving the sequencer.
LEMMA ForwardStutters ==
  ASSUME TbbInv, NEW p \in OutPort, Forward(p), NEW e \in Edge
  PROVE  OnEdge(e)' = OnEdge(e)
<1>0. OneToOne /\ Typed /\ Sequenced /\ Tidy /\ status = "run" /\ e # NoEdge
  BY DfpAssumption DEF TbbInv, Edge, NoEdge
<1>1. PICK m \in Due(p) : /\ held' = [held EXCEPT ![p] = @ \ {m}]
                          /\ inbox' = [inbox EXCEPT ![oedge[p]] = Append(@, m[2])]
  BY DEF Forward
<1>2. /\ UNCHANGED wires /\ UNCHANGED body /\ UNCHANGED flight
      /\ nextno' = [nextno EXCEPT ![p] = @ + 1]
      /\ oedge[p] \in Edge
  BY <1>0 DEF Forward, Typed, TypeOK
<1>3. TakenNext(e) = TakenAt(e)
  BY <1>2 DEF TakenNext, TakenAt, Running
<1>4. inbox[e] \in Seq(Token) /\ WaitingAt(e) \in Seq(Token) /\ TakenAt(e) \in Seq(Token)
  BY PartTypes
<1>5. CASE oedge[p] = e
  <2>1. /\ held'[p] = held[p] \ {m} /\ nextno'[p] = nextno[p] + 1 /\ flight'[p] = flight[p]
        /\ inbox'[e] = Append(inbox[e], m[2])
    BY <1>0, <1>1, <1>2, <1>5 DEF Typed, TypeOK
  <2>2. WaitingAt(e) = Line(flight[p] \cup held[p], nextno[p])
    BY <1>0, <1>5, WaitingHere
  <2>3. WaitingNext(e) = Line(flight'[p] \cup held'[p], nextno'[p])
    BY <1>0, <1>5, WaitingHere
  <2>4. /\ m[2] \in Token
        /\ WaitingNext(e) \in Seq(Token) /\ WaitingAt(e) = <<m[2]>> \o WaitingNext(e)
    BY <1>0, <2>1, <2>2, <2>3, DueIsFirst
  <2>5. TakenAt(e) \o Append(inbox[e], m[2]) \o WaitingNext(e)
           = TakenAt(e) \o inbox[e] \o (<<m[2]>> \o WaitingNext(e))
    BY <1>4, <2>4, Rejoined, ZenonT(60)
  <2> QED BY <1>2, <1>3, <2>1, <2>4, <2>5, EdgeParts
<1>6. CASE oedge[p] # e
  <2>1. inbox'[e] = inbox[e]
    BY <1>0, <1>1, <1>2, <1>6 DEF Typed, TypeOK
  <2>2. \A r \in OutPort : oedge[r] = e => flight'[r] \cup held'[r] = flight[r] \cup held[r]
                                             /\ nextno'[r] = nextno[r]
    BY <1>0, <1>1, <1>2, <1>6 DEF Typed, TypeOK
  <2>3. WaitingNext(e) = WaitingAt(e)
    BY <1>0, <2>2, WaitingSame DEF WaitingNext, WaitingAt
  <2> QED BY <1>2, <1>3, <2>1, <2>3, EdgeParts
<1> QED BY <1>5, <1>6

\* Node n sends the k results s on their way.
Sends(n, k, s) ==
  /\ Category[n] # "source"
  /\ k \in Nat /\ s \in Seq(Token) /\ Len(s) = k
  /\ seqno' = [seqno EXCEPT ![n] = @ + k]
  /\ \A p \in OutPort : flight'[p] \cup held'[p]
                        = IF p[1] = n THEN flight[p] \cup held[p] \cup Results(seqno[n], k, s)
                          ELSE flight[p] \cup held[p]

\* The results of a call go behind what is on its edges already.
LEMMA ResultsWait ==
  ASSUME TbbInv, Typed', Sequenced', status' = "run", UNCHANGED <<wires, nextno>>,
         NEW n \in Node, NEW k, NEW s, Sends(n, k, s), NEW e \in Edge
  PROVE  WaitingNext(e) = IF e \in OutE(n) THEN WaitingAt(e) \o s ELSE WaitingAt(e)
<1>0. OneToOne /\ Typed /\ Sequenced /\ Tidy /\ status = "run" /\ e # NoEdge
  BY DfpAssumption DEF TbbInv, Edge, NoEdge
<1>3. /\ Category[n] # "source" /\ k \in Nat /\ s \in Seq(Token) /\ Len(s) = k
      /\ seqno' = [seqno EXCEPT ![n] = @ + k]
  BY DEF Sends
<1>4. \A p \in OutPort : flight'[p] \cup held'[p]
                        = IF p[1] = n THEN flight[p] \cup held[p] \cup Results(seqno[n], k, s)
                          ELSE flight[p] \cup held[p]
  BY DEF Sends
<1>1. CASE e \in OutE(n)
  <2>1. PICK p \in OutPort : p[1] = n /\ oedge[p] = e
    BY <1>0, <1>1, EdgesOf
  <2> DEFINE M == flight[p] \cup held[p]
             M2 == flight'[p] \cup held'[p]
             lo == nextno[p]
             hi == seqno[n]
  <2>2. lo \in Nat /\ hi \in Nat /\ lo <= hi /\ nextno'[p] = lo
    BY <1>0, <1>3, <2>1 DEF Typed, TypeOK, Sequenced
  <2>3. seqno'[p[1]] = hi + k
    BY <1>0, <1>3, <2>1 DEF Typed, TypeOK
  <2>4. Consecutive(M, lo, hi)
    <3>1. Gapless(flight[p], held[p], lo, hi) /\ flight[p] \subseteq Message /\ held[p] \subseteq Message
      BY <1>0, <1>3, <2>1 DEF Typed, Sequenced
    <3> QED BY <3>1, GaplessConsecutive
  <2>5. Consecutive(M2, lo, hi + k)
    <3> DEFINE top == hi + k
    <3>1. Gapless(flight'[p], held'[p], lo, top) /\ flight'[p] \subseteq Message /\ held'[p] \subseteq Message
      BY <1>3, <2>1, <2>2, <2>3 DEF Typed, Sequenced
    <3> HIDE DEF top
    <3>2. Consecutive(M2, lo, top)
      BY <3>1, GaplessConsecutive
    <3> QED BY <3>2 DEF top
  <2>6. Extended(M, hi, k, s, M2)
    BY <1>3, <1>4, <2>1 DEF Extended
  <2>7. WaitingAt(e) = Line(M, lo)
    BY <1>0, <2>1, WaitingHere
  <2>8. WaitingNext(e) = Line(M2, lo)
    BY <1>0, <2>1, <2>2, WaitingHere
  <2> HIDE DEF M, M2, lo, hi
  <2>9. Line(M2, lo) = Line(M, lo) \o s
    BY <1>3, <2>2, <2>4, <2>5, <2>6, LineAdd
  <2> QED BY <1>1, <2>7, <2>8, <2>9
<1>2. CASE e \notin OutE(n)
  <2>1. \A p \in OutPort : oedge[p] = e => p[1] # n
    BY <1>0, <1>2, EdgesOf
  <2>2. \A p \in OutPort : oedge[p] = e => flight'[p] \cup held'[p] = flight[p] \cup held[p]
                                            /\ nextno'[p] = nextno[p]
    BY <1>4, <2>1
  <2>3. WaitingNext(e) = WaitingAt(e)
    BY <1>0, <2>2, WaitingSame DEF WaitingNext, WaitingAt
  <2> QED BY <1>2, <2>3
<1> QED BY <1>1, <1>2

\* What the edges hold.
OnEdges == [e \in Edge |-> OnEdge(e)]

\* At the head of each input edge of a body that runs is what the body was given.
LEMMA GivenIsFirst ==
  ASSUME TbbInv, NEW n \in Running, NEW i \in 0 .. NumIn[n] - 1
  PROVE  /\ iedge[<<n, i>>] \in Edge
         /\ OnEdge(iedge[<<n, i>>]) # <<>>
         /\ Head(OnEdge(iedge[<<n, i>>])) = Ins(n)[i]
         /\ Tail(OnEdge(iedge[<<n, i>>])) = inbox[iedge[<<n, i>>]] \o WaitingAt(iedge[<<n, i>>])
<1> DEFINE p == <<n, i>>
           e == iedge[p]
           x == Ins(n)[i]
<1>0. OneToOne /\ Typed /\ Tidy
  BY DEF TbbInv
<1>1. n \in Node /\ p \in InPort /\ p[1] = n /\ p[2] = i
  BY <1>0, Given, NodePorts
<1>2. e \in Edge /\ e # NoEdge
  BY <1>0, <1>1 DEF Tidy, Typed, TypeOK
<1>3. x \in Token
  BY <1>0, Given
<1>4. TakenAt(e) = <<x>>
  <2>1. \A r \in InPort : iedge[r] = e /\ r[1] \in Running => TakenAt(e) = <<body[r[1]][1][r[2]]>>
    BY <1>0, <1>2, TakenIs DEF TakenAt
  <2> QED BY <1>1, <2>1 DEF Ins
<1> HIDE DEF p, e, x
<1>5. inbox[e] \in Seq(Token) /\ WaitingAt(e) \in Seq(Token)
  BY <1>2, PartTypes
<1>6. OnEdge(e) = <<x>> \o inbox[e] \o WaitingAt(e)
  BY <1>4, EdgeParts
<1>7. OnEdge(e) # <<>> /\ Head(OnEdge(e)) = x /\ Tail(OnEdge(e)) = inbox[e] \o WaitingAt(e)
  <2> DEFINE a == inbox[e]
             b == WaitingAt(e)
             s == OnEdge(e)
  <2>1. a \in Seq(Token) /\ b \in Seq(Token) /\ s = <<x>> \o a \o b
    BY <1>5, <1>6
  <2> HIDE DEF a, b, s
  <2>2. <<x>> \o a \o b # <<>> /\ Head(<<x>> \o a \o b) = x /\ Tail(<<x>> \o a \o b) = a \o b
    BY <1>3, <2>1, Joined, SMTT(30)
  <2>3. s # <<>> /\ Head(s) = x /\ Tail(s) = a \o b
    BY <2>1, <2>2
  <2> QED BY <2>3 DEF a, b, s
<1> QED BY <1>2, <1>7 DEF p, e, x

\* The end of a call takes one object from each input edge, and puts the results on
\* each output edge.
LEMMA ReturnMoves ==
  ASSUME TbbInv, NEW n \in Node, Return(n), UNCHANGED <<wires, inbox>>,
         NEW s \in Seq(Token), NEW e \in Edge,
         WaitingNext(e) = IF e \in OutE(n) THEN WaitingAt(e) \o s ELSE WaitingAt(e)
  PROVE  OnEdge(e)' = Push(Pop(OnEdges, InE(n)), OutE(n), s)[e]
<1>0. OneToOne /\ Typed /\ Tidy /\ e # NoEdge
  BY DfpAssumption DEF TbbInv, Edge, NoEdge
<1>1. n \in Running /\ Running' = Running \ {n} /\ \A m \in Node : m # n => body'[m] = body[m]
  BY <1>0, RunningAfterReturn DEF Return, Typed
<1>2. inbox[e] \in Seq(Token) /\ WaitingAt(e) \in Seq(Token) /\ TakenAt(e) \in Seq(Token)
  BY PartTypes
<1> DEFINE a == TakenNext(e)
           b == inbox[e]
           w == WaitingAt(e)
           left2 == IF e \in InE(n) THEN Tail(OnEdge(e)) ELSE OnEdge(e)
<1>3. a \in Seq(Token) /\ left2 = a \o b \o w
  <2>1. CASE e \in InE(n)
    <3>1. PICK p \in InPort : p[1] = n /\ iedge[p] = e
      BY <1>0, <2>1, EdgesOf
    <3>2. p = <<n, p[2]>> /\ p[2] \in 0 .. NumIn[n] - 1
      BY <3>1, NodePorts DEF InPort
    <3>3. Tail(OnEdge(e)) = b \o w
      <4> DEFINE i == p[2]
      <4>1. n \in Running /\ i \in 0 .. NumIn[n] - 1 /\ iedge[<<n, i>>] = e
        BY <1>1, <3>1, <3>2
      <4> HIDE DEF i
      <4>2. Tail(OnEdge(iedge[<<n, i>>])) = inbox[iedge[<<n, i>>]] \o WaitingAt(iedge[<<n, i>>])
        BY <4>1, GivenIsFirst, ZenonT(60)
      <4> QED BY <4>1, <4>2
    <3>4. \A r \in InPort : iedge[r] = e => r[1] \notin Running'
      BY <1>0, <1>1, <3>1 DEF OneToOne
    <3>5. a = <<>>
      BY <1>0, <3>4, TakenIs DEF TakenNext
    <3>6. <<>> \o b \o w = b \o w
      BY <1>2, ConcatEmptySeq
    <3> QED BY <2>1, <3>3, <3>5, <3>6
  <2>2. CASE e \notin InE(n)
    <3>1. \A p \in InPort : iedge[p] = e => p[1] # n /\ p[1] \in Node
      BY <1>0, <2>2, EdgesOf, NodePorts
    <3>2. a = TakenAt(e)
      BY <1>0, <1>1, <3>1, TakenSame DEF TakenNext, TakenAt
    <3> QED BY <1>2, <2>2, <3>2, EdgeParts
  <2> QED BY <2>1, <2>2
<1>4. OnEdge(e)' = a \o b \o WaitingNext(e)
  BY EdgeParts
<1>5. Push(Pop(OnEdges, InE(n)), OutE(n), s)[e] = IF e \in OutE(n) THEN left2 \o s ELSE left2
  BY DEF Push, Pop, OnEdges
<1>6. a \o b \o (w \o s) = (a \o b \o w) \o s
  <2> DEFINE c == a \o b
  <2>1. c \in Seq(Token)
    BY <1>2, <1>3, Regroup
  <2>2. w \in Seq(Token)
    BY <1>2
  <2> HIDE DEF c, a, b, w
  <2>3. c \o (w \o s) = (c \o w) \o s
    BY <2>1, <2>2, Regroup
  <2> QED BY <2>3 DEF c
<1> HIDE DEF a, b, left2
<1> QED BY <1>3, <1>4, <1>5, <1>6

-----------------------------------------------------------------------------
(* The Kahn network.                                                       *)

\* The engine and the network speak of the same ports, queues and bodies.
LEMMA SameNetwork ==
  /\ Flow!Edge = Edge
  /\ \A n : Flow!Inputs(n) = Inputs(n) /\ Flow!InEdges(n) = InE(n) /\ Flow!OutEdges(n) = OutE(n)
  /\ \A w, q, p : Flow!Contents(w, q, p) = Contents(w, q, p)
  /\ \A w, q, P : Flow!Heads(w, q, P) = Heads(w, q, P)
  /\ \A q, E : Flow!Pop(q, E) = Pop(q, E)
  /\ \A q, E, s : Flow!Push(q, E, s) = Push(q, E, s)
  /\ \A n, r : Flow!Fresh(n, r) = Fresh(n, r)
  /\ \A n, t : Flow!Refuses(n, t) = Refuses(n, t)
  /\ \A n, t : Flow!Emission(n, t) = Emission(n, t)
  /\ \A n, t : Flow!Answer(n, t) = Answer(n, t)
<1>1. Flow!Edge = Edge
  BY DEF Flow!Edge, Edge
<1>2. \A n : Flow!Inputs(n) = Inputs(n) /\ Flow!InEdges(n) = InE(n) /\ Flow!OutEdges(n) = OutE(n)
  BY DEF Flow!Inputs, Inputs, Flow!Outputs, Outputs, Flow!Ports, Ports, Flow!InEdges, InE,
         Flow!OutEdges, OutE, Flow!EdgesAt, EdgesAt, Flow!NoEdge, NoEdge
<1>3. \A w, q, p : Flow!Contents(w, q, p) = Contents(w, q, p)
  BY DEF Flow!Contents, Contents, Flow!NoEdge, NoEdge
<1>4. \A w, q, P : Flow!Heads(w, q, P) = Heads(w, q, P)
  BY DEF Flow!Heads, Heads
<1>5. \A q, E : Flow!Pop(q, E) = Pop(q, E)
  BY DEF Flow!Pop, Pop
<1>6. \A q, E, s : Flow!Push(q, E, s) = Push(q, E, s)
  BY DEF Flow!Push, Push
<1>7. \A n, r : Flow!Fresh(n, r) = Fresh(n, r)
  BY DEF Flow!Fresh, Fresh
<1>8. \A n, t : Flow!Refuses(n, t) = Refuses(n, t)
  BY DEF Flow!Refuses, Refuses
<1>9. \A n, t : Flow!Emission(n, t) = Emission(n, t)
  BY DEF Flow!Emission, Emission
<1>10. \A n, t : Flow!Answer(n, t) = Answer(n, t)
  BY <1>8, <1>9 DEF Flow!Answer, Answer
<1> QED BY <1>1, <1>2, <1>3, <1>4, <1>5, <1>6, <1>7, <1>8, <1>9, <1>10

\* A body that runs is a node of the network that may fire, on what the body has
\* been given.
LEMMA RunningMayFire ==
  ASSUME TbbInv, NEW n \in Running
  PROVE  Flow!Enabled(n) /\ Flow!Given(n) = Seen(n)
<1>0. Typed /\ Tidy /\ n \in Node /\ Category[n] # "source"
  BY DEF TbbInv, Tidy, Running
<1>1. Inputs(n) = {<<n, i>> : i \in 0 .. NumIn[n] - 1}
  BY DEF Inputs, Ports
<1>2. \A p \in Inputs(n) : /\ iedge[p] \in Edge /\ iedge[p] # NoEdge
                           /\ OnEdges[iedge[p]] # <<>>
                           /\ Head(OnEdges[iedge[p]]) = Ins(n)[p[2]]
  <2>1. ASSUME NEW i \in 0 .. NumIn[n] - 1
        PROVE  /\ iedge[<<n, i>>] \in Edge
               /\ OnEdges[iedge[<<n, i>>]] # <<>>
               /\ Head(OnEdges[iedge[<<n, i>>]]) = Ins(n)[i]
    BY GivenIsFirst DEF OnEdges
  <2>2. \A e \in Edge : e # NoEdge
    BY DfpAssumption DEF Edge, NoEdge
  <2> QED BY <1>1, <2>1, <2>2
<1>3. Flow!Enabled(n)
  <2>1. \A p \in Inputs(n) : Contents(iedge, OnEdges, p) # <<>>
    BY <1>2 DEF Contents
  <2> QED BY <1>0, <2>1, SameNetwork DEF Flow!Enabled, Flow!InFull, OnEdges
<1>4. Heads(iedge, OnEdges, Inputs(n)) = Seen(n)
  <2>1. DOMAIN Ins(n) = 0 .. NumIn[n] - 1
    BY <1>0, Given
  <2>2. {Head(OnEdges[iedge[p]]) : p \in Inputs(n)} = {Ins(n)[i] : i \in 0 .. NumIn[n] - 1}
    <3>1. \A p \in Inputs(n) : Head(OnEdges[iedge[p]]) = Ins(n)[p[2]] /\ p[2] \in 0 .. NumIn[n] - 1
      BY <1>1, <1>2
    <3>2. ASSUME NEW i \in 0 .. NumIn[n] - 1
          PROVE  \E p \in Inputs(n) : p[2] = i
      <4>1. <<n, i>> \in Inputs(n) /\ <<n, i>>[2] = i
        BY <1>1
      <4> QED BY <4>1
    <3> DEFINE G(p) == Head(OnEdges[iedge[p]])
               D == 0 .. NumIn[n] - 1
    <3> HIDE DEF G, D
    <3>3. \A p \in Inputs(n) : G(p) = Ins(n)[p[2]] /\ p[2] \in D
      BY <3>1 DEF G, D
    <3>4. \A i \in D : \E p \in Inputs(n) : p[2] = i
      BY <3>2 DEF D
    <3>5. {G(p) : p \in Inputs(n)} = {Ins(n)[i] : i \in D}
      BY <3>3, <3>4
    <3> QED BY <3>5 DEF G, D
  <2> QED BY <2>1, <2>2 DEF Heads, Seen
<1>5. Flow!Given(n) = Seen(n)
  BY <1>0, <1>4, SameNetwork DEF Flow!Given, OnEdges
<1> QED BY <1>3, <1>5

\* A call that ends with the results that the body has for what it was given is a
\* firing of the node.
LEMMA ReturnFires ==
  ASSUME TbbInv, NEW n \in Node, Return(n), UNCHANGED <<wires, inbox, left>>,
         NEW s \in Seq(Token), s = IF Refuses(n, Seen(n)) THEN <<>> ELSE Emission(n, Seen(n)),
         \A e \in Edge : WaitingNext(e) = IF e \in OutE(n) THEN WaitingAt(e) \o s ELSE WaitingAt(e),
         got' = IF Category[n] = "sink" THEN [got EXCEPT ![n] = Append(@, Seen(n))] ELSE got
  PROVE  Flow!Fire(n)
<1>1. n \in Running /\ Category[n] # "source"
  BY DEF Return, TbbInv, Tidy
<1>2. Flow!Enabled(n) /\ Flow!Given(n) = Seen(n)
  BY <1>1, RunningMayFire
<1>3. Flow!Result(n) = s
  BY <1>2, SameNetwork DEF Flow!Result, Answer
<1>4. \A e \in Edge : OnEdge(e)' = Push(Pop(OnEdges, InE(n)), OutE(n), s)[e]
  BY ReturnMoves
<1>5. [e \in Edge |-> OnEdge(e)'] = Push(Pop(OnEdges, InE(n)), OutE(n), s)
  <2>1. Push(Pop(OnEdges, InE(n)), OutE(n), s)
          = [e \in Edge |-> Push(Pop(OnEdges, InE(n)), OutE(n), s)[e]]
    BY DEF Push, Pop, OnEdges
  <2> QED BY <1>4, <2>1
<1>6. UNCHANGED <<iedge, oedge>>
  BY DEF wires
<1> QED BY <1>1, <1>2, <1>3, <1>5, <1>6, SameNetwork DEF Flow!Fire, Flow!wiring, OnEdges

\* So is the call of a sink.
LEMMA SinkFires ==
  ASSUME TbbInv, NEW n \in Node, FinishSink(n)
  PROVE  Flow!Fire(n)
<1>1. /\ Return(n) /\ UNCHANGED <<wires, inbox, left, flight, held, nextno>>
      /\ Category[n] = "sink" /\ got' = [got EXCEPT ![n] = Append(@, Seen(n))]
  BY DEF FinishSink
<1>2. <<>> \in Seq(Token) /\ <<>> = IF Refuses(n, Seen(n)) THEN <<>> ELSE Emission(n, Seen(n))
  BY <1>1 DEF Emission
<1>3. ASSUME NEW e \in Edge
      PROVE  WaitingNext(e) = IF e \in OutE(n) THEN WaitingAt(e) \o <<>> ELSE WaitingAt(e)
  <2>1. WaitingNext(e) = WaitingAt(e)
    BY <1>1 DEF WaitingNext, WaitingAt
  <2>2. OutE(n) = {}
    <3>1. NumOut[n] = 0
      BY <1>1, DfpAssumption
    <3> QED BY <3>1 DEF OutE, EdgesAt, Outputs, Ports
  <2> QED BY <2>1, <2>2
<1> QED BY <1>1, <1>2, <1>3, ReturnFires

\* What a function, a fan-in or a fan-out sends on: an empty object if it refuses.
LEMMA FunctionSends ==
  ASSUME TbbInv, Typed', Sequenced', status' = "run", NEW n \in Node, FinishFunction(n),
         NEW s, s = <<IF Refuses(n, Seen(n)) THEN Void ELSE Seen(n)>>
  PROVE  /\ Return(n) /\ UNCHANGED <<wires, inbox, left, got>> /\ s \in Seq(Token)
         /\ \A e \in Edge :
              WaitingNext(e) = IF e \in OutE(n) THEN WaitingAt(e) \o s ELSE WaitingAt(e)
<1>1. /\ Return(n) /\ UNCHANGED <<wires, inbox, left, got, held, nextno>>
      /\ Category[n] \in {"function", "fanin", "fanout"}
      /\ Numbers(n) = 1
      /\ seqno' = [seqno EXCEPT ![n] = @ + 1]
  BY DEF FinishFunction, Numbers
<1>2. n \in Running /\ Typed /\ Tidy /\ Seen(n) \in Token
  BY <1>1, Given DEF Return, TbbInv
<1> DEFINE out == IF Refuses(n, Seen(n)) THEN Void ELSE Seen(n)
<1>4. /\ flight' = [p \in OutPort |-> IF p[1] = n THEN flight[p] \cup {<<seqno[n], out>>}
                                      ELSE flight[p]]
  BY DEF FinishFunction
<1>5. out \in Token /\ s = <<out>>
  BY <1>2 DEF Token, Void
<1> HIDE DEF out
<1>6. s \in Seq(Token) /\ Len(s) = 1
  BY <1>5
<1>7. Results(seqno[n], 1, s) = {<<seqno[n], out>>}
  <2>1. seqno[n] \in Nat
    BY <1>2 DEF Typed, TypeOK
  <2>2. 1 .. 1 = {1} /\ seqno[n] + 1 - 1 = seqno[n]
    BY <2>1
  <2> QED BY <1>5, <2>2 DEF Results
<1>8. \A p \in OutPort : flight'[p] \cup held'[p]
                        = IF p[1] = n THEN flight[p] \cup held[p] \cup Results(seqno[n], 1, s)
                          ELSE flight[p] \cup held[p]
  <2>1. held' = held
    BY <1>1
  <2> QED BY <1>4, <1>7, <2>1
<1>9. Sends(n, 1, s)
  BY <1>1, <1>6, <1>8 DEF Sends
<1>10. \A e \in Edge : WaitingNext(e) = IF e \in OutE(n) THEN WaitingAt(e) \o s ELSE WaitingAt(e)
  <2>1. UNCHANGED <<wires, nextno>>
    BY <1>1
  <2> QED BY <1>9, <2>1, ResultsWait
<1> QED BY <1>1, <1>6, <1>10

\* If it does not, it fires,
LEMMA FunctionFires ==
  ASSUME TbbInv, Typed', Sequenced', status' = "run", NEW n \in Node, FinishFunction(n),
         ~Refuses(n, Seen(n))
  PROVE  Flow!Fire(n)
<1>1. Category[n] \in {"function", "fanin", "fanout"}
  BY DEF FinishFunction
<1> DEFINE s == <<Seen(n)>>
<1>2. s = <<IF Refuses(n, Seen(n)) THEN Void ELSE Seen(n)>>
  OBVIOUS
<1>3. s = IF Refuses(n, Seen(n)) THEN <<>> ELSE Emission(n, Seen(n))
  BY <1>1 DEF Emission
<1> HIDE DEF s
<1>4. /\ Return(n) /\ UNCHANGED <<wires, inbox, left, got>> /\ s \in Seq(Token)
      /\ \A e \in Edge :
           WaitingNext(e) = IF e \in OutE(n) THEN WaitingAt(e) \o s ELSE WaitingAt(e)
  BY <1>2, FunctionSends
<1>5. got' = IF Category[n] = "sink" THEN [got EXCEPT ![n] = Append(@, Seen(n))] ELSE got
  BY <1>1, <1>4
<1> QED BY <1>3, <1>4, <1>5, ReturnFires

\* and if it does it takes what it was given and leaves an empty object, a fan-out
\* apart, which stops the run.
Spoils(n) ==
  /\ Category[n] \in {"function", "fanin"} /\ Refused[n] # {}
  /\ OnEdges' = Push(Pop(OnEdges, InE(n)), OutE(n), <<Void>>)
  /\ UNCHANGED <<wires, left, got>>

LEMMA FunctionSpoils ==
  ASSUME TbbInv, Typed', Sequenced', status' = "run", NEW n \in Node, FinishFunction(n),
         Refuses(n, Seen(n))
  PROVE  Spoils(n)
<1>1. Category[n] \in {"function", "fanin"} /\ Refused[n] # {}
  BY DEF FinishFunction, Refuses
<1> DEFINE s == <<Void>>
<1>2. s = <<IF Refuses(n, Seen(n)) THEN Void ELSE Seen(n)>>
  OBVIOUS
<1> HIDE DEF s
<1>3. /\ Return(n) /\ UNCHANGED <<wires, inbox, left, got>> /\ s \in Seq(Token)
      /\ \A e \in Edge :
           WaitingNext(e) = IF e \in OutE(n) THEN WaitingAt(e) \o s ELSE WaitingAt(e)
  BY <1>2, FunctionSends
<1>4. \A e \in Edge : OnEdge(e)' = Push(Pop(OnEdges, InE(n)), OutE(n), s)[e]
  BY <1>3, ReturnMoves
<1>5. OnEdges' = Push(Pop(OnEdges, InE(n)), OutE(n), s)
  <2>1. Push(Pop(OnEdges, InE(n)), OutE(n), s)
          = [e \in Edge |-> Push(Pop(OnEdges, InE(n)), OutE(n), s)[e]]
    BY DEF Push, Pop, OnEdges
  <2>2. OnEdges' = [e \in Edge |-> OnEdge(e)']
    BY DEF OnEdges, Edge
  <2> QED BY <1>4, <2>1, <2>2
<1> QED BY <1>1, <1>3, <1>5 DEF Spoils, s

\* The call of a queuedout is a firing.
LEMMA QueuedoutFires ==
  ASSUME TbbInv, Typed', Sequenced', NEW n \in Node, FinishQueuedout(n)
  PROVE  Flow!Fire(n)
<1> DEFINE s == Queued(n)
           k == Len(s)
<1>1. /\ Return(n) /\ UNCHANGED <<wires, inbox, left, got, flight, nextno, status>>
      /\ Category[n] = "queuedout"
      /\ seqno' = [seqno EXCEPT ![n] = @ + k]
      /\ held' = [p \in OutPort |->
                    IF p[1] = n THEN held[p] \cup {<<seqno[n] + i - 1, s[i]>> : i \in DOMAIN s}
                    ELSE held[p]]
  BY DEF FinishQueuedout, Numbers
<1>2. n \in Running /\ Typed /\ status = "run"
  BY <1>1 DEF Return, TbbInv, Tidy
<1>3. /\ s \in Seq(Token) /\ k \in Nat /\ DOMAIN s = 1 .. k
      /\ s = IF Refuses(n, Seen(n)) THEN <<>> ELSE Emission(n, Seen(n))
  BY <1>2, QueuedType DEF Queued, Answer
<1>4. k = Len(s)
  OBVIOUS
<1> HIDE DEF s, k
<1>5. Results(seqno[n], k, s) = {<<seqno[n] + i - 1, s[i]>> : i \in DOMAIN s}
  BY <1>3 DEF Results
<1>6. \A p \in OutPort : flight'[p] \cup held'[p]
                        = IF p[1] = n THEN flight[p] \cup held[p] \cup Results(seqno[n], k, s)
                          ELSE flight[p] \cup held[p]
  <2>1. flight' = flight
    BY <1>1
  <2> QED BY <1>1, <1>5, <2>1
<1>7. \A e \in Edge : WaitingNext(e) = IF e \in OutE(n) THEN WaitingAt(e) \o s ELSE WaitingAt(e)
  <2>1. Sends(n, k, s)
    BY <1>1, <1>3, <1>4, <1>6 DEF Sends
  <2>2. UNCHANGED <<wires, nextno>> /\ status' = "run"
    BY <1>1, <1>2
  <2> QED BY <2>1, <2>2, ResultsWait
<1>8. Category[n] # "sink"
  BY <1>1
<1> QED BY <1>1, <1>3, <1>7, <1>8, ReturnFires

\* A source has no sequencer, and is a node without inputs.
LEMMA SourceFires ==
  ASSUME TbbInv, NEW n \in Node, Generate(n)
  PROVE  Flow!Fire(n)
<1> DEFINE x == Fresh(n, left[n])
<1>0. OneToOne /\ Typed /\ Tidy
  BY DEF TbbInv
<1>1. /\ UNCHANGED <<wires, got, body, flight, held, nextno>>
      /\ Category[n] = "source" /\ left[n] > 0
      /\ inbox' = Push(inbox, OutE(n), <<x>>)
      /\ left' = [left EXCEPT ![n] = @ - 1]
  BY DEF Generate, HasMore, OutE
<1>2. NumIn[n] = 0 /\ Refused[n] = {}
  BY <1>1, DfpAssumption
<1>3. Inputs(n) = {} /\ InE(n) = {}
  BY <1>2 DEF Inputs, InE, Ports, EdgesAt
<1>4. x \in Token
  <2>1. left[n] \in Nat /\ Length[n] \in Nat /\ left[n] <= Length[n]
    BY <1>0, DfpAssumption DEF Typed, TypeOK
  <2>2. Length[n] - left[n] + 1 \in Nat
    BY <2>1
  <2> QED BY <2>2 DEF Fresh, Token, Item
<1> HIDE DEF x
<1>5. Flow!Enabled(n) /\ Flow!Given(n) = x
  BY <1>1, <1>3, SameNetwork DEF Flow!Enabled, Flow!InFull, Flow!Given, x
<1>6. Flow!Result(n) = <<x>>
  BY <1>1, <1>2, <1>5, SameNetwork DEF Flow!Result, Answer, Refuses, Emission
<1>7. ASSUME NEW e \in Edge
      PROVE  OnEdge(e)' = Push(Pop(OnEdges, InE(n)), OutE(n), <<x>>)[e]
  <2>1. e # NoEdge
    BY DfpAssumption DEF Edge, NoEdge
  <2>2. WaitingNext(e) = WaitingAt(e) /\ TakenNext(e) = TakenAt(e)
    BY <1>1 DEF WaitingNext, WaitingAt, TakenNext, TakenAt, Running
  <2>3. TakenAt(e) \in Seq(Token) /\ inbox[e] \in Seq(Token) /\ WaitingAt(e) \in Seq(Token)
    BY PartTypes
  <2>4. OnEdge(e)' = TakenAt(e) \o inbox'[e] \o WaitingAt(e)
    BY <1>1, <2>2, EdgeParts
  <2>5. Push(Pop(OnEdges, InE(n)), OutE(n), <<x>>)[e]
          = IF e \in OutE(n) THEN OnEdge(e) \o <<x>> ELSE OnEdge(e)
    BY <1>3 DEF Push, Pop, OnEdges
  <2>6. inbox'[e] = IF e \in OutE(n) THEN inbox[e] \o <<x>> ELSE inbox[e]
    BY <1>0, <1>1 DEF Push, Typed, TypeOK
  <2>7. CASE e \in OutE(n)
    <3>1. PICK p \in OutPort : p[1] = n /\ oedge[p] = e
      BY <1>0, <2>7, EdgesOf
    <3>2. flight[p] \cup held[p] = {}
      BY <1>0, <1>1, <3>1 DEF Tidy
    <3>3. WaitingAt(e) = <<>>
      BY <1>0, <2>1, <3>1, <3>2, WaitingHere, EmptyLine
    <3> DEFINE a == TakenAt(e)
               b == inbox[e]
               s == <<x>>
    <3>4. a \in Seq(Token) /\ b \in Seq(Token) /\ s \in Seq(Token)
      BY <1>4, <2>3
    <3> HIDE DEF a, b, s
    <3>5. a \o (b \o s) \o <<>> = a \o b \o <<>> \o s
      <4>1. \A u \in Seq(Token) : u \o <<>> = u
        BY ConcatEmptySeq
      <4>2. b \o s \in Seq(Token) /\ a \o b \in Seq(Token)
        BY <3>4, ConcatProperties
      <4>3. a \o (b \o s) \in Seq(Token)
        BY <3>4, <4>2, ConcatProperties
      <4>4. a \o (b \o s) = (a \o b) \o s
        BY <3>4, Regroup
      <4> QED BY <4>1, <4>2, <4>3, <4>4
    <3>6. OnEdge(e) = a \o b \o <<>> /\ OnEdge(e)' = a \o (b \o s) \o <<>>
      BY <2>4, <2>6, <2>7, <3>3, EdgeParts DEF a, b, s
    <3> QED BY <2>5, <2>7, <3>5, <3>6 DEF s
  <2>8. CASE e \notin OutE(n)
    BY <2>4, <2>5, <2>6, <2>8, EdgeParts
  <2> QED BY <2>7, <2>8
<1>8. [e \in Edge |-> OnEdge(e)'] = Push(Pop(OnEdges, InE(n)), OutE(n), <<x>>)
  <2>1. Push(Pop(OnEdges, InE(n)), OutE(n), <<x>>)
          = [e \in Edge |-> Push(Pop(OnEdges, InE(n)), OutE(n), <<x>>)[e]]
    BY DEF Push, Pop, OnEdges
  <2> QED BY <1>7, <2>1
<1>9. UNCHANGED <<iedge, oedge>>
  BY <1>1 DEF wires
<1> QED BY <1>1, <1>5, <1>6, <1>8, <1>9, SameNetwork DEF Flow!Fire, Flow!wiring, OnEdges

\* Before anything runs no edge holds anything.
LEMMA EmptyAtFirst ==
  ASSUME Init, OneToOne
  PROVE  Flow!FlowInit
<1>0. TbbInv
  BY TypedStart, SequencedStart, TidyStart DEF TbbInv, Init, Quiet
<1>1. Running = {} /\ \A p \in OutPort : flight[p] \cup held[p] = {}
  BY DEF Init, Quiet, Running
<1>2. ASSUME NEW e \in Edge
      PROVE  OnEdge(e) = <<>>
  <2>1. inbox[e] = <<>> /\ e # NoEdge
    BY DfpAssumption DEF Init, Quiet, Edge, NoEdge
  <2>2. TakenAt(e) = <<>>
    BY <1>1, <2>1, TakenIs DEF TakenAt
  <2>3. WaitingAt(e) = <<>>
    <3>1. CASE \A p \in OutPort : oedge[p] # e
      BY <2>1, <3>1, WaitingIs DEF WaitingAt
    <3>2. ASSUME NEW p \in OutPort, oedge[p] = e
          PROVE  WaitingAt(e) = <<>>
      BY <1>1, <2>1, <3>2, WaitingHere, EmptyLine
    <3> QED BY <3>1, <3>2
  <2>4. <<>> \o <<>> \o <<>> = <<>>
    BY ConcatEmptySeq
  <2> QED BY <2>1, <2>2, <2>3, <2>4, EdgeParts
<1>3. [e \in Edge |-> OnEdge(e)] = [e \in Edge |-> <<>>]
  BY <1>2
<1> QED BY <1>3, SameNetwork DEF Flow!FlowInit, Init, Quiet

\* Nothing that node n would be given next is empty.
FullHeads(n) == \A p \in Inputs(n) : Head(OnEdges[iedge[p]]) # Void

LEMMA FullCall ==
  ASSUME TbbInv, NEW n \in Running, \A i \in DOMAIN Ins(n) : Ins(n)[i] # Void
  PROVE  FullHeads(n)
<1>1. DOMAIN Ins(n) = 0 .. NumIn[n] - 1
  BY Given DEF TbbInv
<1>2. ASSUME NEW i \in 0 .. NumIn[n] - 1
      PROVE  Head(OnEdges[iedge[<<n, i>>]]) # Void
  BY <1>1, GivenIsFirst DEF OnEdges
<1> QED BY <1>2 DEF FullHeads, Inputs, Ports

\* Every task of the engine that does not stop the run is a firing of a node, an
\* empty object in place of a result, or changes nothing on any edge.
LEMMA StepMoves ==
  ASSUME TbbInv, TbbInv', [Next]_vars
  PROVE  \/ UNCHANGED <<Flow!wiring, Flow!data>>
         \/ \E n \in Node : Flow!Fire(n) /\ FullHeads(n)
         \/ \E n \in Node : Spoils(n)
<1>0. Typed /\ Tidy /\ Typed' /\ Sequenced' /\ status' = "run" /\ UNCHANGED wires
  BY DEF TbbInv, vars, Next, Work, Returned, NodeStep, PortStep, Generate, Start, Throw,
         FinishSink, FinishFunction, FinishQueuedout, PutResult, Forward
<1>1. ASSUME \A e \in Edge : OnEdge(e)' = OnEdge(e), UNCHANGED <<left, got>>
      PROVE  UNCHANGED <<Flow!wiring, Flow!data>>
  <2>1. [e \in Edge |-> OnEdge(e)'] = [e \in Edge |-> OnEdge(e)]
    BY <1>1
  <2>2. UNCHANGED <<iedge, oedge>>
    BY <1>0 DEF wires
  <2> QED BY <1>1, <2>1, <2>2, SameNetwork DEF Flow!wiring, Flow!data
<1>2. CASE UNCHANGED vars
  <2>1. /\ Running' = Running /\ body' = body /\ inbox' = inbox /\ flight' = flight
        /\ held' = held /\ nextno' = nextno
    BY <1>2 DEF vars, Running
  <2>2. \A e \in Edge : OnEdge(e)' = OnEdge(e)
    BY <1>0, <2>1, EdgeParts DEF TakenAt, TakenNext, WaitingAt, WaitingNext
  <2> QED BY <1>1, <1>2, <2>2 DEF vars
<1>3. ASSUME NEW n \in Node, NodeStep(n)
      PROVE  \/ UNCHANGED <<Flow!wiring, Flow!data>>
             \/ Flow!Fire(n) /\ FullHeads(n)
             \/ Spoils(n)
  <2>1. CASE Start(n)
    <3>1. \A e \in Edge : OnEdge(e)' = OnEdge(e)
      BY <2>1, StartStutters
    <3> QED BY <1>1, <2>1, <3>1 DEF Start
  <2>2. ~Throw(n)
    BY <1>0 DEF Throw
  <2>3. CASE Generate(n)
    <3>1. NumIn[n] = 0
      BY <2>3, DfpAssumption DEF Generate, HasMore
    <3>2. FullHeads(n)
      BY <3>1 DEF FullHeads, Inputs, Ports
    <3> QED BY <2>3, <3>2, SourceFires
  <2>4. CASE FinishSink(n)
    BY <2>4, SinkFires, FullCall DEF FinishSink, Return
  <2>5. CASE FinishFunction(n)
    BY <1>0, <2>5, FunctionFires, FunctionSpoils, FullCall DEF FinishFunction, Return
  <2>6. CASE FinishQueuedout(n)
    BY <1>0, <2>6, QueuedoutFires, FullCall DEF FinishQueuedout, Return
  <2> QED BY <1>3, <2>1, <2>2, <2>3, <2>4, <2>5, <2>6 DEF NodeStep
<1>4. ASSUME NEW p \in OutPort, PortStep(p)
      PROVE  UNCHANGED <<Flow!wiring, Flow!data>>
  <2>1. \A e \in Edge : OnEdge(e)' = OnEdge(e)
    BY <1>4, PutStutters, ForwardStutters DEF PortStep
  <2>2. UNCHANGED <<left, got>>
    BY <1>4 DEF PortStep, PutResult, Forward
  <2> QED BY <1>1, <2>1, <2>2
<1> QED BY <1>2, <1>3, <1>4 DEF Next, Work, Returned

\* Without refusals it is a step of the network.
LEMMA StepFires ==
  ASSUME NoneRefuses, TbbInv, TbbInv', [Next]_vars
  PROVE  [Flow!FlowNext]_<<Flow!wiring, Flow!data>>
<1>1. \A n \in Node : ~Spoils(n)
  BY DEF Spoils, NoneRefuses
<1> QED BY <1>1, StepMoves DEF Flow!FlowNext


\* Whatever the number of threads and the order in which TBB runs its tasks, the run
\* is one of the Kahn network: where an edge has one tail and one head and the bodies
\* whose false has no answer never return it, no interleaving loses, doubles or
\* reorders anything.
THEOREM TbbImplementation == NoneRefuses /\ OneToOne /\ Spec => ImplementsFlow
<1>1. Init /\ OneToOne => TbbInv /\ Regular /\ Flow!FlowInit
  BY TypedStart, SequencedStart, TidyStart, RegularStart, EmptyAtFirst DEF TbbInv, Regular
<1>2. OneToOne /\ [Next]_vars => OneToOne'
  <2> SUFFICES ASSUME OneToOne, [Next]_vars PROVE OneToOne'
    OBVIOUS
  <2>1. UNCHANGED wires
    BY DEF vars, Next, Work, Returned, NodeStep, PortStep, Generate, Start, Throw,
           FinishSink, FinishFunction, FinishQueuedout, PutResult, Forward
  <2> QED BY <2>1 DEF wires, OneToOne
<1> SUFFICES ASSUME NoneRefuses PROVE OneToOne /\ Spec => ImplementsFlow
  OBVIOUS
<1>3. TbbInv /\ Regular /\ [Next]_vars => TbbInv' /\ Regular'
  <2>1. Regular' => status' = "run"
    BY DEF Regular
  <2> QED BY <1>2, <2>1, TypedStep, SequencedStep, TidyStep, RegularStep DEF TbbInv
<1>4. TbbInv /\ TbbInv' /\ [Next]_vars => [Flow!FlowNext]_<<Flow!wiring, Flow!data>>
  BY StepFires
<1> QED BY <1>1, <1>3, <1>4, PTL DEF Spec, ImplementsFlow, Flow!FlowSpec
-----------------------------------------------------------------------------
(* The engine delivers.                                                    *)

\* What an edge is seen to hold is x, or x and behind it an empty object and more.
Spoilt(x, y) == \E z \in Seq(Token) : z # <<>> /\ Head(z) = Void /\ y = x \o z

\* The edges hold o where they would hold q, had the nodes S, which have sent an
\* empty object, been called no more: nothing is said of what S is given.
Agrees(ie, oe, S, q, o) ==
  \A p \in OutPort, r \in InPort : oe[p] = ie[r] /\ oe[p] # NoEdge /\ r[1] \notin S =>
    IF p[1] \in S THEN Spoilt(q[oe[p]], o[oe[p]]) ELSE o[oe[p]] = q[oe[p]]

\* Only these send an empty object and go on.
Spoilers == {n \in Node : Category[n] \in {"function", "fanin"} /\ Refused[n] # {}}

\* Where the sources and the sinks have come to, and what is on the edges but for
\* what empty objects have spoilt, is what the streams meant for the wiring lead
\* to, so many calls of each node on.
OnTheWay ==
  wires \in DOMAIN Meaning =>
    \E f, S, q :
      /\ Progress(iedge, oedge, Meaning[wires], f, q, left, got)
      /\ q \in [Edge -> Seq(Token)]
      /\ S \in SUBSET Spoilers /\ Agrees(iedge, oedge, S, q, OnEdges)

\* The streams solve the equations of the wiring, whose edges have two ends each.
LEMMA Meant ==
  ASSUME wires \in DOMAIN Meaning
  PROVE  Solves(iedge, oedge, Meaning[wires]) /\ OneToOne
<1>1. Solves(iedge, oedge, Meaning[wires])
  BY MeaningAssumption DEF wires
<1> QED BY <1>1 DEF Solves, Joins, OneToOne

LEMMA OnEdgesType ==
  ASSUME TbbInv
  PROVE  OnEdges \in [Edge -> Seq(Token)]
<1> SUFFICES ASSUME NEW e \in Edge PROVE OnEdge(e) \in Seq(Token)
  BY DEF OnEdges
<1>1. TakenAt(e) \in Seq(Token) /\ inbox[e] \in Seq(Token) /\ WaitingAt(e) \in Seq(Token)
  BY PartTypes
<1>2. TakenAt(e) \o inbox[e] \in Seq(Token)
  BY <1>1, ConcatProperties
<1>3. TakenAt(e) \o inbox[e] \o WaitingAt(e) \in Seq(Token)
  BY <1>1, <1>2, ConcatProperties
<1> QED BY <1>3, EdgeParts

LEMMA WayStart ==
  ASSUME Init
  PROVE  OnTheWay
<1> SUFFICES ASSUME wires \in DOMAIN Meaning
             PROVE  \E f, S : \E q \in [Edge -> Seq(Token)] :
                      /\ Progress(iedge, oedge, Meaning[wires], f, q, left, got)
                      /\ S \in SUBSET Spoilers /\ Agrees(iedge, oedge, S, q, OnEdges)
  BY DEF OnTheWay
<1> DEFINE K == Meaning[wires]
           g == [n \in Node |-> <<>>]
           q == [e \in Edge |-> <<>>]
<1>1. Solves(iedge, oedge, K) /\ OneToOne
  BY Meant
<1>2. OnEdges = q /\ left = Length /\ got = g /\ q \in [Edge -> Seq(Token)]
  BY <1>1, EmptyAtFirst, SameNetwork DEF OnEdges, Flow!FlowInit
<1> HIDE DEF K
<1>3. Progress(iedge, oedge, K, [n \in Node |-> 0], q, Length, g)
  BY <1>1, ProgressStart
<1>4. Agrees(iedge, oedge, {}, q, OnEdges)
  BY <1>2 DEF Agrees
<1> HIDE DEF q, g
<1>5. Progress(iedge, oedge, K, [n \in Node |-> 0], q, left, got)
  BY <1>2, <1>3
<1> QED BY <1>2, <1>4, <1>5 DEF K

\* A firing of the network the engine implements, by the words of the equations.
LEMMA FiringIs ==
  ASSUME NEW n \in Node, Flow!Fire(n)
  PROVE  /\ UNCHANGED wires
         /\ Ready(iedge, OnEdges, left, n)
         /\ OnEdges' = Push(Pop(OnEdges, EdgesAt(iedge, Ports(n, NumIn[n]))),
                            EdgesAt(oedge, Ports(n, NumOut[n])),
                            Answer(n, Offered(iedge, OnEdges, left, n)))
         /\ left' = IF Category[n] = "source" THEN [left EXCEPT ![n] = @ - 1] ELSE left
         /\ got' = IF Category[n] = "sink"
                   THEN [got EXCEPT ![n] = Append(@, Offered(iedge, OnEdges, left, n))]
                   ELSE got
<1>1. /\ InE(n) = EdgesAt(iedge, Ports(n, NumIn[n]))
      /\ OutE(n) = EdgesAt(oedge, Ports(n, NumOut[n]))
      /\ Inputs(n) = Ports(n, NumIn[n])
  BY DEF InE, OutE, Inputs, Outputs
<1>2. Flow!Given(n) = Offered(iedge, OnEdges, left, n)
  BY <1>1, SameNetwork DEF Flow!Given, Offered, OnEdges
<1>3. Flow!Result(n) = Answer(n, Offered(iedge, OnEdges, left, n))
  BY <1>2, SameNetwork DEF Flow!Result
<1>4. Ready(iedge, OnEdges, left, n)
  BY <1>1, SameNetwork DEF Flow!Fire, Flow!Enabled, Flow!InFull, Ready, OnEdges
<1>5. OnEdges' = Push(Pop(OnEdges, InE(n)), OutE(n), Flow!Result(n))
  BY SameNetwork DEF Flow!Fire, OnEdges
<1>6. /\ UNCHANGED wires
      /\ left' = IF Category[n] = "source" THEN [left EXCEPT ![n] = @ - 1] ELSE left
      /\ got' = IF Category[n] = "sink" THEN [got EXCEPT ![n] = Append(@, Flow!Given(n))]
                ELSE got
  BY DEF Flow!Fire, Flow!wiring, wires
<1> QED BY <1>1, <1>2, <1>3, <1>4, <1>5, <1>6

\* An edge that joins two ports is among those of their nodes only.
LEMMA EdgeEnds ==
  ASSUME NEW ie, NEW oe, Joins(ie, oe), NEW n \in Node,
         NEW p \in OutPort, NEW r \in InPort, oe[p] = ie[r], oe[p] # NoEdge
  PROVE  /\ oe[p] \in Edge
         /\ oe[p] \in EdgesAt(ie, Ports(n, NumIn[n])) <=> r[1] = n
         /\ oe[p] \in EdgesAt(oe, Ports(n, NumOut[n])) <=> p[1] = n
<1> DEFINE e == oe[p]
<1>1. e \in Edge
  BY DEF Joins
<1>2. e \in EdgesAt(ie, Ports(n, NumIn[n])) <=> r[1] = n
  <2>1. ASSUME NEW x \in Ports(n, NumIn[n]), ie[x] = e PROVE r[1] = n
    BY <2>1, PortNodes DEF Joins
  <2>2. ASSUME r[1] = n PROVE r \in Ports(n, NumIn[n])
    BY <2>2, PortNodes
  <2> QED BY <2>1, <2>2 DEF EdgesAt
<1>3. e \in EdgesAt(oe, Ports(n, NumOut[n])) <=> p[1] = n
  <2>1. ASSUME NEW x \in Ports(n, NumOut[n]), oe[x] = e PROVE p[1] = n
    BY <2>1, PortNodes DEF Joins
  <2>2. ASSUME p[1] = n PROVE p \in Ports(n, NumOut[n])
    BY <2>2, PortNodes
  <2> QED BY <2>1, <2>2 DEF EdgesAt
<1> QED BY <1>1, <1>2, <1>3

\* A spoilt edge stays so, whatever is put on it; taking a full object from it is
\* taking one from what it would hold.
LEMMA SpoiltPut ==
  ASSUME NEW x \in Seq(Token), NEW y, Spoilt(x, y), NEW s \in Seq(Token)
  PROVE  Spoilt(x, y \o s)
<1>1. PICK z \in Seq(Token) : z # <<>> /\ Head(z) = Void /\ y = x \o z
  BY DEF Spoilt
<1>2. z \o s \in Seq(Token) /\ x \o z \o s = x \o (z \o s)
  BY Regroup
<1>3. z \o s # <<>> /\ Head(z \o s) = Void
  BY <1>1
<1> QED BY <1>1, <1>2, <1>3 DEF Spoilt

LEMMA SpoiltFirst ==
  ASSUME NEW x \in Seq(Token)
  PROVE  Spoilt(x, x \o <<Void>>)
<1>1. <<Void>> \in Seq(Token) /\ <<Void>> # <<>> /\ Head(<<Void>>) = Void
  BY DEF Void, Token
<1> QED BY <1>1 DEF Spoilt

LEMMA SpoiltTake ==
  ASSUME NEW x \in Seq(Token), NEW y, Spoilt(x, y), Head(y) # Void
  PROVE  x # <<>> /\ Head(x) = Head(y) /\ Spoilt(Tail(x), Tail(y))
<1>1. PICK z \in Seq(Token) : z # <<>> /\ Head(z) = Void /\ y = x \o z
  BY DEF Spoilt
<1>2. x # <<>>
  BY <1>1
<1>3. Head(y) = Head(x) /\ Tail(y) = Tail(x) \o z
  BY <1>1, <1>2
<1> QED BY <1>1, <1>2, <1>3 DEF Spoilt

\* What a node that may be called is given is a token.
LEMMA OfferedType ==
  ASSUME NEW ie, NEW oe, Joins(ie, oe), NEW o \in [Edge -> Seq(Token)],
         NEW l \in [Node -> Nat], \A m \in Node : l[m] <= Length[m],
         NEW n \in Node, Ready(ie, o, l, n)
  PROVE  Offered(ie, o, l, n) \in Token
<1>1. CASE Category[n] = "source"
  <2>1. l[n] \in Nat /\ l[n] <= Length[n] /\ Length[n] \in Nat
    BY DfpAssumption
  <2>2. Length[n] - l[n] + 1 \in Nat
    BY <2>1
  <2>3. Fresh(n, l[n]) \in Token
    BY <2>2 DEF Fresh, Token, Item
  <2> QED BY <1>1, <2>3 DEF Offered
<1>2. CASE Category[n] # "source"
  <2>1. ASSUME NEW r \in Ports(n, NumIn[n])
        PROVE  Head(o[ie[r]]) \in Token
    <3>1. r \in InPort /\ ie[r] # NoEdge /\ o[ie[r]] # <<>>
      BY PortNodes DEF Ready, Contents
    <3>2. o[ie[r]] \in Seq(Token)
      BY <3>1, Feeder
    <3> QED BY <3>1, <3>2
  <2>2. UNION {Head(o[ie[r]]) : r \in Ports(n, NumIn[n])} \in Token
    BY <2>1 DEF Token
  <2> QED BY <1>2, <2>2 DEF Offered, Heads
<1> QED BY <1>1, <1>2

\* Calls of a node that has sent an empty object change nothing that is spoken of.
LEMMA SpoiltCall ==
  ASSUME NEW ie, NEW oe, Joins(ie, oe), NEW q \in [Edge -> Seq(Token)],
         NEW o \in [Edge -> Seq(Token)], NEW S, Agrees(ie, oe, S, q, o),
         NEW n \in S, n \in Node, NEW s \in Seq(Token),
         NEW o2, o2 = Push(Pop(o, EdgesAt(ie, Ports(n, NumIn[n]))),
                           EdgesAt(oe, Ports(n, NumOut[n])), s)
  PROVE  Agrees(ie, oe, S, q, o2)
<1> SUFFICES ASSUME NEW p \in OutPort, NEW r \in InPort, oe[p] = ie[r], oe[p] # NoEdge,
                    r[1] \notin S
             PROVE  IF p[1] \in S THEN Spoilt(q[oe[p]], o2[oe[p]]) ELSE o2[oe[p]] = q[oe[p]]
  BY DEF Agrees
<1>1. IF p[1] \in S THEN Spoilt(q[oe[p]], o[oe[p]]) ELSE o[oe[p]] = q[oe[p]]
  BY DEF Agrees
<1>2. oe[p] \in Edge /\ r[1] # n
  BY DEF Joins
<1>3. o2[oe[p]] = IF p[1] = n THEN o[oe[p]] \o s ELSE o[oe[p]]
  <2>1. /\ oe[p] \in EdgesAt(ie, Ports(n, NumIn[n])) <=> r[1] = n
        /\ oe[p] \in EdgesAt(oe, Ports(n, NumOut[n])) <=> p[1] = n
    BY EdgeEnds
  <2> QED BY <1>2, <2>1 DEF Push, Pop
<1>4. q[oe[p]] \in Seq(Token)
  BY <1>2
<1> QED BY <1>1, <1>3, <1>4, SpoiltPut

\* A node that sends its first empty object becomes one of them.
LEMMA SpoiltOnce ==
  ASSUME NEW ie, NEW oe, Joins(ie, oe), NEW q \in [Edge -> Seq(Token)],
         NEW o \in [Edge -> Seq(Token)], NEW S, Agrees(ie, oe, S, q, o),
         NEW n \in Node, n \notin S,
         NEW o2, o2 = Push(Pop(o, EdgesAt(ie, Ports(n, NumIn[n]))),
                           EdgesAt(oe, Ports(n, NumOut[n])), <<Void>>)
  PROVE  Agrees(ie, oe, S \cup {n}, q, o2)
<1> DEFINE S2 == S \cup {n}
<1> SUFFICES ASSUME NEW p \in OutPort, NEW r \in InPort, oe[p] = ie[r], oe[p] # NoEdge,
                    r[1] \notin S2
             PROVE  IF p[1] \in S2 THEN Spoilt(q[oe[p]], o2[oe[p]]) ELSE o2[oe[p]] = q[oe[p]]
  BY DEF Agrees
<1>1. IF p[1] \in S THEN Spoilt(q[oe[p]], o[oe[p]]) ELSE o[oe[p]] = q[oe[p]]
  BY DEF Agrees
<1>2. oe[p] \in Edge /\ r[1] # n
  BY DEF Joins
<1>3. o2[oe[p]] = IF p[1] = n THEN o[oe[p]] \o <<Void>> ELSE o[oe[p]]
  <2>1. /\ oe[p] \in EdgesAt(ie, Ports(n, NumIn[n])) <=> r[1] = n
        /\ oe[p] \in EdgesAt(oe, Ports(n, NumOut[n])) <=> p[1] = n
    BY EdgeEnds
  <2> QED BY <1>2, <2>1 DEF Push, Pop
<1>4. q[oe[p]] \in Seq(Token)
  BY <1>2
<1> QED BY <1>1, <1>3, <1>4, SpoiltFirst

\* Any other node takes from the edges, and puts on them, what it would.
NoVoid(ie, o, n) == \A p \in Ports(n, NumIn[n]) : Head(o[ie[p]]) # Void
SameCall(ie, q, o, l, n) == Ready(ie, q, l, n) /\ Offered(ie, q, l, n) = Offered(ie, o, l, n)

LEMMA FullReady ==
  ASSUME NEW ie, NEW oe, Joins(ie, oe), NEW q \in [Edge -> Seq(Token)],
         NEW o \in [Edge -> Seq(Token)], NEW S, Agrees(ie, oe, S, q, o), NEW l,
         NEW n \in Node, n \notin S, Ready(ie, o, l, n),
         NoVoid(ie, o, n)
  PROVE  SameCall(ie, q, o, l, n)
<1>1. ASSUME NEW r \in Ports(n, NumIn[n])
      PROVE  ie[r] # NoEdge /\ q[ie[r]] # <<>> /\ Head(q[ie[r]]) = Head(o[ie[r]])
  <2>1. r \in InPort /\ r[1] = n /\ ie[r] # NoEdge /\ o[ie[r]] # <<>>
    BY PortNodes DEF Ready, Contents
  <2>2. PICK p \in OutPort : oe[p] = ie[r]
    BY <2>1, Feeder
  <2>3. q[ie[r]] \in Seq(Token)
    BY <2>1, Feeder
  <2>4. IF p[1] \in S THEN Spoilt(q[ie[r]], o[ie[r]]) ELSE o[ie[r]] = q[ie[r]]
    BY <2>1, <2>2 DEF Agrees
  <2>5. Head(o[ie[r]]) # Void
    BY DEF NoVoid
  <2> QED BY <2>1, <2>3, <2>4, <2>5, SpoiltTake
<1>2. Ready(ie, q, l, n)
  BY <1>1 DEF Ready, Contents
<1>3. {Head(q[ie[r]]) : r \in Ports(n, NumIn[n])} = {Head(o[ie[r]]) : r \in Ports(n, NumIn[n])}
  BY <1>1
<1> QED BY <1>2, <1>3 DEF SameCall, Offered, Heads

LEMMA FullCallAgrees ==
  ASSUME NEW ie, NEW oe, Joins(ie, oe), NEW q \in [Edge -> Seq(Token)],
         NEW o \in [Edge -> Seq(Token)], NEW S, Agrees(ie, oe, S, q, o),
         NEW n \in Node, n \notin S,
         NoVoid(ie, o, n),
         NEW s \in Seq(Token),
         NEW q2, q2 = Push(Pop(q, EdgesAt(ie, Ports(n, NumIn[n]))),
                           EdgesAt(oe, Ports(n, NumOut[n])), s),
         NEW o2, o2 = Push(Pop(o, EdgesAt(ie, Ports(n, NumIn[n]))),
                           EdgesAt(oe, Ports(n, NumOut[n])), s)
  PROVE  Agrees(ie, oe, S, q2, o2)
<1> SUFFICES ASSUME NEW p \in OutPort, NEW r \in InPort, oe[p] = ie[r], oe[p] # NoEdge,
                    r[1] \notin S
             PROVE  IF p[1] \in S THEN Spoilt(q2[oe[p]], o2[oe[p]]) ELSE o2[oe[p]] = q2[oe[p]]
  BY DEF Agrees
<1> DEFINE e == oe[p]
<1>1. IF p[1] \in S THEN Spoilt(q[e], o[e]) ELSE o[e] = q[e]
  BY DEF Agrees
<1>2. e \in Edge
  BY DEF Joins
<1>3. /\ e \in EdgesAt(ie, Ports(n, NumIn[n])) <=> r[1] = n
      /\ e \in EdgesAt(oe, Ports(n, NumOut[n])) <=> p[1] = n
  BY EdgeEnds
<1>4. /\ o2[e] = IF r[1] = n THEN IF p[1] = n THEN Tail(o[e]) \o s ELSE Tail(o[e])
                ELSE IF p[1] = n THEN o[e] \o s ELSE o[e]
      /\ q2[e] = IF r[1] = n THEN IF p[1] = n THEN Tail(q[e]) \o s ELSE Tail(q[e])
                ELSE IF p[1] = n THEN q[e] \o s ELSE q[e]
  BY <1>2, <1>3 DEF Push, Pop
<1>5. CASE p[1] \notin S
  BY <1>1, <1>4, <1>5
<1>6. CASE p[1] \in S
  <2>1. r[1] = n => Head(o[e]) # Void
    BY PortNodes DEF NoVoid
  <2>2. q[e] \in Seq(Token) /\ Spoilt(q[e], o[e]) /\ p[1] # n
    BY <1>1, <1>2, <1>6
  <2>3. r[1] = n => Spoilt(Tail(q[e]), Tail(o[e]))
    BY <2>1, <2>2, SpoiltTake
  <2> QED BY <1>4, <1>6, <2>2, <2>3
<1> QED BY <1>5, <1>6

\* Each end of a body is one call more of the calls there are to make, unless the
\* node has sent an empty object before or sends one now; the other tasks make none.
LEMMA WayStep ==
  ASSUME Typed, Sequenced, Tidy, status = "run", Typed', Sequenced', Tidy', status' = "run",
         OnTheWay, [Next]_vars
  PROVE  OnTheWay'
<1> SUFFICES ASSUME wires' \in DOMAIN Meaning
             PROVE  \E f, S, q :
                      /\ Progress(iedge', oedge', Meaning[wires'], f, q, left', got')
                      /\ q \in [Edge -> Seq(Token)]
                      /\ S \in SUBSET Spoilers /\ Agrees(iedge', oedge', S, q, OnEdges')
  BY DEF OnTheWay
<1> DEFINE K == Meaning[wires]
<1>1. iedge' = iedge /\ oedge' = oedge /\ wires' = wires
  BY DEF vars, wires, Next, Work, Returned, NodeStep, PortStep, Generate, Start, Throw,
         FinishSink, FinishFunction, FinishQueuedout, PutResult, Forward
<1>2. PICK f, S, q :
        /\ Progress(iedge, oedge, K, f, q, left, got)
        /\ q \in [Edge -> Seq(Token)]
        /\ S \in SUBSET Spoilers /\ Agrees(iedge, oedge, S, q, OnEdges)
  BY <1>1 DEF OnTheWay
<1>3. Solves(iedge, oedge, K) /\ TbbInv /\ TbbInv'
  <2>1. Solves(iedge, oedge, K) /\ OneToOne
    BY <1>1, Meant
  <2>2. OneToOne'
    BY <1>1, <2>1 DEF OneToOne
  <2> QED BY <2>1, <2>2 DEF TbbInv
<1>4. Joins(iedge, oedge) /\ OnEdges \in [Edge -> Seq(Token)]
  BY <1>3, OnEdgesType DEF Solves
<1> HIDE DEF K
<1>5. ASSUME NEW f2, NEW S2 \in SUBSET Spoilers, NEW q2 \in [Edge -> Seq(Token)],
             Progress(iedge, oedge, K, f2, q2, left', got'),
             Agrees(iedge, oedge, S2, q2, OnEdges')
      PROVE  \E f3, S3, q3 :
               /\ Progress(iedge', oedge', Meaning[wires'], f3, q3, left', got')
               /\ q3 \in [Edge -> Seq(Token)]
               /\ S3 \in SUBSET Spoilers /\ Agrees(iedge', oedge', S3, q3, OnEdges')
  BY <1>1, <1>5 DEF K
<1>6. CASE UNCHANGED <<Flow!wiring, Flow!data>>
  <2>1. OnEdges' = OnEdges /\ left' = left /\ got' = got
    BY <1>6 DEF Flow!data, OnEdges
  <2> QED BY <1>2, <1>5, <2>1
<1>7. ASSUME NEW n \in Node, Flow!Fire(n), FullHeads(n)
      PROVE  \E f3, S3, q3 :
               /\ Progress(iedge', oedge', Meaning[wires'], f3, q3, left', got')
               /\ q3 \in [Edge -> Seq(Token)]
               /\ S3 \in SUBSET Spoilers /\ Agrees(iedge', oedge', S3, q3, OnEdges')
  <2> DEFINE o == OnEdges
             o2 == OnEdges'
             l == left
             l2 == left'
             g == got
             g2 == got'
             t == Offered(iedge, o, l, n)
             s == Answer(n, t)
  <2>1. /\ Ready(iedge, o, l, n)
        /\ o2 = Push(Pop(o, EdgesAt(iedge, Ports(n, NumIn[n]))),
                     EdgesAt(oedge, Ports(n, NumOut[n])), s)
        /\ l2 = IF Category[n] = "source" THEN [l EXCEPT ![n] = @ - 1] ELSE l
        /\ g2 = IF Category[n] = "sink" THEN [g EXCEPT ![n] = Append(@, t)] ELSE g
    BY <1>7, FiringIs
  <2>2. l \in [Node -> Nat] /\ g \in [Node -> Seq(Token)]
    BY <1>3 DEF TbbInv, Typed, TypeOK
  <2>3. NoVoid(iedge, o, n)
    BY <1>7 DEF NoVoid, FullHeads, Inputs
  <2>4. /\ o \in [Edge -> Seq(Token)] /\ q \in [Edge -> Seq(Token)]
        /\ Agrees(iedge, oedge, S, q, o)
    BY <1>2, <1>4
  <2>5. s \in Seq(Token)
    <3>1. t \in Token
      <4>1. \A m \in Node : l[m] <= Length[m]
        BY <1>3 DEF TbbInv, Typed
      <4> HIDE DEF o, l
      <4> QED BY <1>4, <2>1, <2>2, <2>4, <4>1, OfferedType
    <3> HIDE DEF t
    <3> QED BY <3>1, AnswerType
  <2>6. t = Offered(iedge, o, l, n) /\ s = Answer(n, t)
    OBVIOUS
  <2>7. CASE n \in S
    <3>1. Category[n] # "source" /\ Category[n] # "sink"
      BY <1>2, <2>7 DEF Spoilers
    <3>2. l2 = l /\ g2 = g
      BY <2>1, <3>1
    <3> HIDE DEF o, o2, l, l2, g, g2, t, s
    <3>3. Agrees(iedge, oedge, S, q, o2)
      BY <1>4, <2>1, <2>4, <2>5, <2>7, SpoiltCall
    <3> QED BY <1>2, <1>5, <3>2, <3>3 DEF o2, l, l2, g, g2
  <2>8. CASE n \notin S
    <3> DEFINE f2 == [f EXCEPT ![n] = @ + 1]
               q2 == Push(Pop(q, EdgesAt(iedge, Ports(n, NumIn[n]))),
                          EdgesAt(oedge, Ports(n, NumOut[n])), s)
    <3> HIDE DEF o, o2, l, l2, g, g2, t, s
    <3>0. Ready(iedge, o, l, n) /\ Joins(iedge, oedge)
      BY <1>4, <2>1
    <3>1. Ready(iedge, q, l, n) /\ t = Offered(iedge, q, l, n)
      <4>1. SameCall(iedge, q, o, l, n)
        BY <2>3, <2>4, <2>8, <3>0, FullReady, ZenonT(60)
      <4> QED BY <2>6, <4>1 DEF SameCall
    <3>2. q2 = Push(Pop(q, EdgesAt(iedge, Ports(n, NumIn[n]))),
                    EdgesAt(oedge, Ports(n, NumOut[n])), Answer(n, t))
      BY <2>6
    <3>3. Progress(iedge, oedge, K, f, q, l, g)
      BY <1>2 DEF l, g
    <3>4. Agrees(iedge, oedge, S, q2, o2)
      <4>1. q2 = Push(Pop(q, EdgesAt(iedge, Ports(n, NumIn[n]))),
                      EdgesAt(oedge, Ports(n, NumOut[n])), s)
        OBVIOUS
      <4> HIDE DEF q2, f2
      <4> QED BY <1>4, <2>1, <2>3, <2>4, <2>5, <2>8, <4>1, FullCallAgrees, ZenonT(60)
    <3>5. q2 \in [Edge -> Seq(Token)]
      <4>1. \A e \in EdgesAt(iedge, Ports(n, NumIn[n])) : q[e] # <<>>
        BY <3>1 DEF EdgesAt, Ready, Contents
      <4>2. Pop(q, EdgesAt(iedge, Ports(n, NumIn[n]))) \in [Edge -> Seq(Token)]
        BY <2>4, <4>1, PopType
      <4> QED BY <2>5, <4>2, PushType
    <3> HIDE DEF q2
    <3>6. Progress(iedge, oedge, K, f2, q2, l2, g2)
      <4>1. /\ l2 = IF Category[n] = "source" THEN [l EXCEPT ![n] = @ - 1] ELSE l
            /\ g2 = IF Category[n] = "sink" THEN [g EXCEPT ![n] = Append(@, t)] ELSE g
        BY <2>1
      <4>2. Solves(iedge, oedge, K) /\ q \in [Edge -> Seq(Token)]
        BY <1>3, <2>4
      <4> QED BY <2>2, <3>1, <3>2, <3>3, <4>1, <4>2, ProgressStep, ZenonT(60)
    <3> HIDE DEF f2
    <3> QED BY <1>2, <1>5, <3>4, <3>5, <3>6 DEF o2, l2, g2
  <2> QED BY <2>7, <2>8
<1>8. ASSUME NEW n \in Node, Spoils(n)
      PROVE  \E f3, S3, q3 :
               /\ Progress(iedge', oedge', Meaning[wires'], f3, q3, left', got')
               /\ q3 \in [Edge -> Seq(Token)]
               /\ S3 \in SUBSET Spoilers /\ Agrees(iedge', oedge', S3, q3, OnEdges')
  <2> DEFINE o == OnEdges
             o2 == OnEdges'
             S2 == S \cup {n}
  <2>1. /\ o2 = Push(Pop(o, EdgesAt(iedge, Ports(n, NumIn[n]))),
                     EdgesAt(oedge, Ports(n, NumOut[n])), <<Void>>)
        /\ left' = left /\ got' = got /\ n \in Spoilers
    BY <1>8 DEF Spoils, Spoilers, InE, OutE, Inputs, Outputs
  <2>2. /\ o \in [Edge -> Seq(Token)] /\ q \in [Edge -> Seq(Token)]
        /\ Agrees(iedge, oedge, S, q, o) /\ <<Void>> \in Seq(Token)
    BY <1>2, <1>4 DEF Void, Token
  <2> HIDE DEF o, o2
  <2>3. CASE n \in S
    <3>1. Agrees(iedge, oedge, S, q, o2)
      BY <1>4, <2>1, <2>2, <2>3, SpoiltCall
    <3> QED BY <1>2, <1>5, <2>1, <3>1 DEF o2
  <2>4. CASE n \notin S
    <3>1. Agrees(iedge, oedge, S2, q, o2)
      BY <1>4, <2>1, <2>2, <2>4, SpoiltOnce
    <3>2. S2 \in SUBSET Spoilers
      BY <1>2, <2>1
    <3> HIDE DEF S2
    <3> QED BY <1>2, <1>5, <2>1, <3>1, <3>2 DEF o2
  <2> QED BY <2>3, <2>4
<1> QED BY <1>3, <1>6, <1>7, <1>8, StepMoves

\* With no message numbered from the one it waits for on its way, a sequencer that
\* cannot forward keeps nothing.
LEMMA GaplessAtRest ==
  ASSUME NEW H, NEW lo \in Nat, NEW hi \in Nat, lo <= hi, Gapless({}, H, lo, hi),
         \A m \in H : m[1] # lo
  PROVE  H = {}
<1>1. lo \notin lo .. hi - 1
  BY DEF Gapless
<1>2. lo .. hi - 1 = {}
  BY <1>1
<1> QED BY <1>2 DEF Gapless

\* When no task is left all that is on an edge is in the queue at its head.
LEMMA IdleEdges ==
  ASSUME TbbInv, Idle, NEW e \in Edge
  PROVE  OnEdge(e) = inbox[e]
<1>0. OneToOne /\ Typed /\ Sequenced /\ Tidy /\ status = "run" /\ e # NoEdge
  BY DfpAssumption DEF TbbInv, Tidy, Edge, NoEdge
<1>1. Running = {}
  BY <1>0 DEF Idle, Running
<1>2. TakenAt(e) = <<>>
  BY <1>0, <1>1, TakenIs DEF TakenAt
<1>3. WaitingAt(e) = <<>>
  <2>1. CASE \A p \in OutPort : oedge[p] # e
    BY <1>0, <2>1, WaitingIs DEF WaitingAt
  <2>2. ASSUME NEW p \in OutPort, oedge[p] = e PROVE WaitingAt(e) = <<>>
    <3>1. flight[p] = {} /\ Due(p) = {}
      BY <1>0, <2>2 DEF Idle
    <3>2. held[p] = {}
      <4>1. CASE Category[p[1]] = "source"
        BY <1>0, <4>1 DEF Tidy
      <4>2. CASE Category[p[1]] # "source"
        <5>1. /\ nextno[p] \in Nat /\ seqno[p[1]] \in Nat /\ nextno[p] <= seqno[p[1]]
              /\ Gapless({}, held[p], nextno[p], seqno[p[1]])
          BY <1>0, <3>1, <4>2, NodePorts DEF Typed, TypeOK, Sequenced
        <5>2. \A m \in held[p] : m[1] # nextno[p]
          BY <3>1 DEF Due
        <5> QED BY <5>1, <5>2, GaplessAtRest
      <4> QED BY <4>1, <4>2
    <3>3. flight[p] \cup held[p] = {}
      BY <3>1, <3>2
    <3>4. WaitingAt(e) = Line(flight[p] \cup held[p], nextno[p])
      BY <1>0, <2>2, WaitingHere
    <3> QED BY <3>3, <3>4, EmptyLine
  <2> QED BY <2>1, <2>2
<1>4. inbox[e] \in Seq(Token)
  BY <1>0 DEF Typed, TypeOK
<1>5. <<>> \o inbox[e] \o <<>> = inbox[e]
  BY <1>4, ConcatEmptySeq
<1> QED BY <1>2, <1>3, <1>5, EdgeParts

\* Node n has calls to come, which it would be given: a source whose output goes
\* nowhere is never asked.
Asked(K, f, n) == Lags(K, f, n) /\ (Category[n] = "source" => Plugged(oedge, Outputs(n)))

\* When no task is left it waits for another node's call.
LEMMA AskedStarves ==
  ASSUME TbbInv, Idle, NEW K, Solves(iedge, oedge, K),
         NEW f, Progress(iedge, oedge, K, f, OnEdges, left, got),
         NEW n \in Node, Asked(K, f, n)
  PROVE  Starves(iedge, oedge, K, f, OnEdges, n)
<1>0. Typed /\ status = "run" /\ OnEdges \in [Edge -> Seq(Token)] /\ Lags(K, f, n)
  BY OnEdgesType DEF TbbInv, Tidy, Asked
<1>1. ASSUME Ready(iedge, OnEdges, left, n) PROVE FALSE
  <2>1. OnEdges = inbox
    <3>1. inbox = [e \in Edge |-> inbox[e]]
      BY <1>0 DEF Typed, TypeOK
    <3> QED BY <3>1, IdleEdges DEF OnEdges
  <2>2. Ready(iedge, inbox, left, n)
    BY <1>1, <2>1
  <2>3. ~HasMore(n) /\ (Category[n] # "source" => ~\A p \in Inputs(n) : Contents(iedge, inbox, p) # <<>>)
    BY <1>0 DEF Idle
  <2> QED BY <2>2, <2>3 DEF Ready, Inputs, HasMore, Asked
<1> QED BY <1>0, <1>1, Starved, ZenonT(60)

\* So no node has any.
LEMMA NoneAsked ==
  ASSUME TbbInv, Idle, NEW K, Solves(iedge, oedge, K),
         NEW f, Progress(iedge, oedge, K, f, OnEdges, left, got)
  PROVE  \A n \in Node : ~Asked(K, f, n)
<1> DEFINE S == {n \in Node : Asked(K, f, n)}
<1>1. ASSUME NEW n \in S
      PROVE  \E p \in OutPort, r \in InPort :
               oedge[p] = iedge[r] /\ oedge[p] # NoEdge /\ r[1] = n /\ p[1] \in S
  <2>1. n \in Node /\ Asked(K, f, n)
    OBVIOUS
  <2> HIDE DEF S
  <2>2. Starves(iedge, oedge, K, f, OnEdges, n)
    BY <2>1, AskedStarves, ZenonT(60)
  <2>3. PICK p \in OutPort, r \in InPort :
           oedge[p] = iedge[r] /\ oedge[p] # NoEdge /\ r[1] = n /\ Lags(K, f, p[1])
    BY <2>2 DEF Starves
  <2>4. p[1] \in Node /\ p \in Ports(p[1], NumOut[p[1]])
    BY PortNodes
  <2>5. Category[p[1]] = "source" => Plugged(oedge, Outputs(p[1]))
    <3> SUFFICES ASSUME Category[p[1]] = "source" PROVE Plugged(oedge, Outputs(p[1]))
      OBVIOUS
    <3>1. NumOut[p[1]] = 1
      BY <2>4, DfpAssumption
    <3>2. Outputs(p[1]) = {<<p[1], 0>>} /\ p \in Outputs(p[1])
      BY <2>4, <3>1 DEF Outputs, Ports
    <3>3. Outputs(p[1]) = {p}
      BY <3>2
    <3> QED BY <2>3, <3>3 DEF Plugged
  <2> QED BY <2>3, <2>4, <2>5 DEF S, Asked
<1>2. Climbs(iedge, oedge, K.depth) /\ S \in SUBSET Node
  BY DEF Solves
<1> HIDE DEF S
<1>3. FedWithin(iedge, oedge, S)
  BY <1>1 DEF FedWithin
<1>4. S = {}
  BY <1>2, <1>3, NoDescent
<1> QED BY <1>4 DEF S

\* If no body refuses what has no answer, nothing is spoilt.
LEMMA PlainWay ==
  ASSUME NoneRefuses, OnTheWay, wires \in DOMAIN Meaning
  PROVE  \E f : Progress(iedge, oedge, Meaning[wires], f, OnEdges, left, got)
<1> DEFINE K == Meaning[wires]
<1>1. PICK f, S, q :
        /\ Progress(iedge, oedge, K, f, q, left, got)
        /\ q \in [Edge -> Seq(Token)]
        /\ S \in SUBSET Spoilers /\ Agrees(iedge, oedge, S, q, OnEdges)
  BY DEF OnTheWay
<1>2. S = {}
  BY <1>1 DEF Spoilers, NoneRefuses
<1>3. \A p \in OutPort, r \in InPort :
        oedge[p] = iedge[r] /\ oedge[p] # NoEdge => OnEdges[oedge[p]] = q[oedge[p]]
  BY <1>1, <1>2 DEF Agrees
<1> HIDE DEF K
<1>4. Progress(iedge, oedge, K, f, OnEdges, left, got)
  BY <1>1, <1>3 DEF Progress
<1> QED BY <1>4 DEF K

\* As long as the run goes on it is on the way.
LEMMA WayOfTbb == Spec => [](Typed /\ Sequenced /\ Tidy /\ (status = "run" => OnTheWay))
<1> DEFINE Shape == Typed /\ Sequenced /\ Tidy
           Way == status = "run" => OnTheWay
<1>1. Init => Shape
  BY TypedStart, SequencedStart, TidyStart
<1>2. Shape /\ [Next]_vars => Shape'
  BY TypedStep, SequencedStep, TidyStep
<1>3. Init => Way
  BY WayStart
<1>4. Shape /\ Shape' /\ Way /\ [Next]_vars => Way'
  <2> SUFFICES ASSUME Shape, Shape', Way, [Next]_vars, status' = "run" PROVE OnTheWay'
    OBVIOUS
  <2>1. status = "run"
    BY DEF Next, Work, Returned, vars
  <2> QED BY <2>1, WayStep
<1>5. Shape /\ Way <=> Typed /\ Sequenced /\ Tidy /\ (status = "run" => OnTheWay)
  OBVIOUS
<1> HIDE DEF Shape, Way
<1> QED BY <1>1, <1>2, <1>3, <1>4, <1>5, PTL DEF Spec

\* Whatever the number of threads and the order in which TBB runs its tasks, a sink
\* is given nothing but the next object of the stream its graph means for it, also
\* where bodies return false: the empty object sent for that stops the run when it
\* comes to another body, and until then no sink is given what is behind it.
THEOREM TbbInStep == Spec => []InStep
<1> DEFINE Going == status = "run"
<1>1. OnTheWay => InStep
  <2> SUFFICES ASSUME OnTheWay, wires \in DOMAIN Meaning, NEW n \in Sinks
               PROVE  IsPrefix(got[n], Meaning[wires].calls[n])
    BY DEF InStep, SomeDelivered
  <2>1. PICK f, S, q :
          Progress(iedge, oedge, Meaning[wires], f, q, left, got)
    BY DEF OnTheWay
  <2> QED BY <2>1, Meant, SinksInStep, ZenonT(60)
<1>2. Init => Going
  BY DEF Init, Quiet
<1>3. InStep /\ [Next]_vars /\ ~Going' => InStep'
  <2> SUFFICES ASSUME InStep, [Next]_vars, status' # "run" PROVE InStep'
    OBVIOUS
  <2>1. got' = got /\ wires' = wires
    BY DEF vars, Next, Work, Returned, NodeStep, PortStep, Generate, Start, Throw,
           FinishSink, FinishFunction, FinishQueuedout, PutResult, Forward
  <2> QED BY <2>1 DEF InStep
<1>4. Spec => [](Going => OnTheWay)
  BY WayOfTbb, PTL
<1> HIDE DEF Going
<1> QED BY <1>1, <1>2, <1>3, <1>4, PTL DEF Spec

\* And wait_for_all() returns only when every sink has been given its whole stream,
\* if the bodies whose false has no answer never return it.
THEOREM TbbDelivery == NoneRefuses /\ Spec => []Delivered
<1> SUFFICES ASSUME NoneRefuses PROVE Spec => []Delivered
  OBVIOUS
<1>1. Typed /\ Sequenced /\ Tidy /\ (status = "run" => OnTheWay) => Delivered
  <2> SUFFICES ASSUME Typed, Sequenced, Tidy, status = "run" => OnTheWay,
                      Idle, status = "run", wires \in DOMAIN Meaning, NEW n \in Sinks
               PROVE  got[n] = Meaning[wires].calls[n]
    BY DEF Delivered, AllDelivered
  <2> DEFINE K == Meaning[wires]
  <2>1. PICK f : Progress(iedge, oedge, K, f, OnEdges, left, got)
    BY PlainWay
  <2>2. Solves(iedge, oedge, K) /\ TbbInv /\ n \in Node /\ Category[n] # "source"
    BY Meant DEF TbbInv, Sinks
  <2> HIDE DEF K
  <2>3. ~Asked(K, f, n)
    BY <2>1, <2>2, NoneAsked, ZenonT(60)
  <2>4. ~Lags(K, f, n)
    BY <2>2, <2>3 DEF Asked
  <2>5. got[n] = K.calls[n]
    BY <2>1, <2>2, <2>4, SinksDone, SMTT(60)
  <2> QED BY <2>5 DEF K
<1> QED BY <1>1, WayOfTbb, PTL
=============================================================================
