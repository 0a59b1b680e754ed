---------------------------- MODULE PgraphProofs ----------------------------
(***************************************************************************)
(* Theorems about the single threaded engine, for every graph, every node  *)
(* order and every behaviour of the node bodies.                           *)
(***************************************************************************)
EXTENDS Pgraph, DfpProofs

-----------------------------------------------------------------------------
(* The pops and pushes a wrapper makes.                                    *)

\* A node's ports are ports.
LEMMA PortTypes ==
  ASSUME NEW n \in Node
  PROVE  Inputs(n) \subseteq InPort /\ Outputs(n) \subseteq OutPort
BY DfpAssumption DEF Inputs, Outputs, Ports, InPort, OutPort

\* What a body is called with is a token, when its wrapper may call it.
LEMMA GivenType ==
  ASSUME FlowTypeOK, NEW n \in Node, InFull(n)
  PROVE  Given(n) \in Token
<1>1. CASE Category[n] = "source"
  <2>1. Length[n] - left[n] + 1 \in Nat
    BY DfpAssumption DEF FlowTypeOK
  <2> QED
    BY <1>1, <2>1 DEF Given, Fresh, Token, Item
<1>2. CASE Category[n] # "source"
  <2>1. ASSUME NEW p \in Inputs(n)
        PROVE  Head(queue[iedge[p]]) \in Token
    <3>1. p \in InPort /\ iedge[p] \in Edge \cup {NoEdge}
      BY PortTypes DEF FlowTypeOK
    <3>2. iedge[p] # NoEdge /\ queue[iedge[p]] # <<>>
      BY DEF InFull, Contents
    <3> QED
      BY <3>1, <3>2 DEF FlowTypeOK
  <2>2. Heads(iedge, queue, Inputs(n)) \in Token
    BY <2>1 DEF Heads, Token
  <2> QED
    BY <1>2, <2>2 DEF Given
<1> QED
  BY <1>1, <1>2

\* The edges at the input ports of a node that may be called hold something.
LEMMA InEdgesFull ==
  ASSUME NEW n \in Node, InFull(n), NEW e \in InEdges(n)
  PROVE  queue[e] # <<>>
BY DEF InFull, Contents, InEdges, EdgesAt

-----------------------------------------------------------------------------
(* Type correctness.                                                       *)

\* The abstract network, too, in whatever order its nodes fire, gets from no empty
\* edge and asks no source for more than it has.
THEOREM FlowTypeCorrect ==
  /\ iedge \in [InPort -> Edge \cup {NoEdge}]
  /\ oedge \in [OutPort -> Edge \cup {NoEdge}]
  /\ FlowSpec
  => []FlowTypeOK
<1> DEFINE Wired == /\ iedge \in [InPort -> Edge \cup {NoEdge}]
                    /\ oedge \in [OutPort -> Edge \cup {NoEdge}]
<1>1. Wired /\ FlowInit => FlowTypeOK
  BY DfpAssumption DEF FlowInit, FlowTypeOK
<1>2. FlowTypeOK /\ [FlowNext]_<<wiring, data>> => FlowTypeOK'
  <2>1. ASSUME FlowTypeOK, NEW n \in Node, Fire(n) PROVE FlowTypeOK'
    <3>1. InFull(n) /\ Given(n) \in Token
      BY <2>1, GivenType DEF Fire, Enabled
    <3>2. Result(n) \in Seq(Token)
      BY <3>1, EmissionType DEF Result, Answer
    <3>3. Pop(queue, InEdges(n)) \in [Edge -> Seq(Token)]
      BY <2>1, <3>1, PopType, InEdgesFull DEF FlowTypeOK
    <3>4. queue' \in [Edge -> Seq(Token)]
      BY <2>1, <3>2, <3>3, PushType DEF Fire
    <3>5. left' \in [Node -> Nat]
      BY <2>1 DEF Fire, Enabled, FlowTypeOK
    <3>6. ASSUME NEW m \in Node PROVE left'[m] <= Length[m]
      <4>1. left[m] \in Nat /\ Length[m] \in Nat /\ left[m] <= Length[m]
        BY <2>1, DfpAssumption DEF FlowTypeOK
      <4>2. left'[m] = left[m] \/ left'[m] = left[m] - 1
        BY <2>1 DEF Fire, FlowTypeOK
      <4> QED BY <4>1, <4>2
    <3>7. got' \in [Node -> Seq(Token)]
      BY <2>1, <3>1 DEF Fire, FlowTypeOK
    <3>8. UNCHANGED wiring
      BY <2>1 DEF Fire
    <3> QED BY <2>1, <3>4, <3>5, <3>6, <3>7, <3>8 DEF FlowTypeOK, wiring
  <2>2. ASSUME FlowTypeOK, UNCHANGED <<wiring, data>> PROVE FlowTypeOK'
    BY <2>2 DEF FlowTypeOK, wiring, data
  <2> QED BY <2>1, <2>2 DEF FlowNext
<1> QED BY <1>1, <1>2, PTL DEF FlowSpec

\* The node execute() has arrived at is a node of the graph.
LEMMA CurrentNode ==
  ASSUME TypeOK, pc = "scan"
  PROVE  order[pos] \in Ordered /\ order[pos] \in Node /\ pos \in 1 .. Len(order)
BY DEF TypeOK, ExecTypeOK, Ordered

\* Going on to the next node keeps the position in range.
LEMMA MissType ==
  ASSUME TypeOK, pc = "scan", Miss
  PROVE  /\ order' = order /\ pos' \in 0 .. Len(order)
         /\ pc' \in PC /\ (pc' = "scan" => pos' > 0)
BY DEF TypeOK, ExecTypeOK, PC, Miss

\* Starting again from the end keeps the position in range.
LEMMA HitType ==
  ASSUME TypeOK, pc = "scan", Hit
  PROVE  /\ order' = order /\ pos' \in 0 .. Len(order)
         /\ pc' \in PC /\ (pc' = "scan" => pos' > 0)
BY DEF TypeOK, ExecTypeOK, PC, Hit

\* What a wrapper that has called its body does to the queues and the loop.
LEMMA DeliverType ==
  ASSUME TypeOK, pc = "scan",
         NEW n \in Node, NEW q \in [Edge -> Seq(Token)], NEW s \in Seq(Token),
         Deliver(n, q, s)
  PROVE  /\ queue' \in [Edge -> Seq(Token)]
         /\ order' = order /\ pos' \in 0 .. Len(order)
         /\ pc' \in PC /\ (pc' = "scan" => pos' > 0)
<1>1. CASE queue' = Push(q, OutEdges(n), s) /\ Hit
  BY <1>1, PushType, HitType
<1>2. CASE /\ queue' = Push(q, EdgesAt(oedge, Ports(n, Broken(n))), s)
           /\ pc' = "raised" /\ UNCHANGED <<order, pos>>
  BY <1>2, PushType DEF TypeOK, ExecTypeOK, PC
<1> QED
  BY <1>1, <1>2 DEF Deliver

\* So does a wrapper that pops, calls its body and puts what it gets.
LEMMA ConsumeType ==
  ASSUME TypeOK, pc = "scan", NEW n \in Node, InFull(n), Consume(n)
  PROVE  /\ queue' \in [Edge -> Seq(Token)]
         /\ order' = order /\ pos' \in 0 .. Len(order)
         /\ pc' \in PC /\ (pc' = "scan" => pos' > 0)
<1> DEFINE q == Pop(queue, InEdges(n))
<1>1. FlowTypeOK
  BY DEF TypeOK, ExecTypeOK
<1>2. q \in [Edge -> Seq(Token)]
  BY <1>1, PopType, InEdgesFull DEF FlowTypeOK
<1>3. CASE queue' = q /\ Miss
  BY <1>2, <1>3, MissType
<1>4. CASE Deliver(n, q, Emission(n, Given(n)))
  <2>1. Emission(n, Given(n)) \in Seq(Token)
    BY <1>1, GivenType, EmissionType
  <2> HIDE DEF q
  <2> QED
    BY <1>2, <1>4, <2>1, DeliverType
<1> QED
  BY <1>3, <1>4 DEF Consume

\* A call of any wrapper keeps every type.
LEMMA CallType ==
  ASSUME TypeOK, CallNode
  PROVE  TypeOK'
<1> DEFINE n == order[pos]
<1>1. /\ pc = "scan" /\ n \in Node /\ Category[n] \in Wrapped
      /\ FlowTypeOK /\ Call(n) /\ UNCHANGED wiring
  BY CurrentNode DEF CallNode, TypeOK, ExecTypeOK
<1> HIDE DEF n
<1> SUFFICES
      /\ queue' \in [Edge -> Seq(Token)]
      /\ left' \in [Node -> Nat] /\ \A m \in Node : left'[m] <= Length[m]
      /\ got' \in [Node -> Seq(Token)]
      /\ order' = order /\ pos' \in 0 .. Len(order)
      /\ pc' \in PC /\ (pc' = "scan" => pos' > 0)
  BY <1>1 DEF TypeOK, ExecTypeOK, FlowTypeOK, wiring, Ordered
<1>2. CASE NotCallable(n)
  BY <1>1, <1>2, MissType DEF NotCallable, data, FlowTypeOK
<1>3. CASE Source(n)
  <2>1. CASE left[n] = 0 /\ Miss /\ UNCHANGED <<queue, left>>
    BY <1>1, <1>3, <2>1, MissType DEF Source, FlowTypeOK
  <2>2. CASE /\ left[n] > 0 /\ left' = [left EXCEPT ![n] = @ - 1]
             /\ Deliver(n, queue, Emission(n, Given(n)))
    <3>1. InFull(n)
      BY <1>1, <1>3, DfpAssumption DEF Source, InFull, Inputs, Ports
    <3>2. Emission(n, Given(n)) \in Seq(Token)
      BY <1>1, <3>1, GivenType, EmissionType
    <3>3. left' \in [Node -> Nat]
      BY <1>1, <2>2 DEF FlowTypeOK
    <3>4. ASSUME NEW m \in Node PROVE left'[m] <= Length[m]
      <4>1. left[m] \in Nat /\ Length[m] \in Nat /\ left[m] <= Length[m]
        BY <1>1, DfpAssumption DEF FlowTypeOK
      <4>2. left'[m] = IF m = n THEN left[m] - 1 ELSE left[m]
        BY <1>1, <2>2 DEF FlowTypeOK
      <4> QED
        BY <4>1, <4>2
    <3> QED
      BY <1>1, <1>3, <2>2, <3>2, <3>3, <3>4, DeliverType DEF Source, FlowTypeOK
  <2> QED
    BY <1>3, <2>1, <2>2 DEF Source
<1>4. CASE Sink(n)
  <2>1. InFull(n)
    BY <1>4 DEF Sink, Callable
  <2>2. queue' \in [Edge -> Seq(Token)]
    BY <1>1, <1>4, <2>1, PopType, InEdgesFull DEF Sink, FlowTypeOK
  <2>3. got' \in [Node -> Seq(Token)]
    BY <1>1, <1>4, <2>1, GivenType DEF Sink, FlowTypeOK
  <2>4. Miss \/ Hit
    BY <1>4 DEF Sink
  <2> QED
    BY <1>1, <1>4, <2>2, <2>3, <2>4, MissType, HitType DEF Sink, FlowTypeOK
<1>5. CASE Function(n) \/ Queuedout(n) \/ JoinFanin(n) \/ SplitFanout(n)
  <2>1. InFull(n) /\ Consume(n) /\ UNCHANGED <<left, got>>
    BY <1>5 DEF Function, Queuedout, JoinFanin, SplitFanout, Callable
  <2> QED
    BY <1>1, <2>1, ConsumeType DEF FlowTypeOK
<1> QED
  BY <1>1, <1>2, <1>3, <1>4, <1>5 DEF Call

\* However a graph is wired and its nodes ordered, execute() keeps its list
\* position in range and its queues well formed: it never looks past the end
\* of the node list, nor gets from an empty port.
THEOREM TypeCorrect == Spec => []TypeOK
<1>1. Init => TypeOK
  BY DEF Init, LooseInit, TypeOK, ExecTypeOK, PC
<1>2. TypeOK /\ [Next]_vars => TypeOK'
  <2> SUFFICES ASSUME TypeOK, [Next]_vars PROVE TypeOK'
    OBVIOUS
  <2>1. CASE CallNode
    BY <2>1, CallType
  <2>2. CASE UNCHANGED vars
    BY <2>2 DEF vars, wiring, data, execution, TypeOK, ExecTypeOK, FlowTypeOK, Ordered
  <2> QED
    BY <2>1, <2>2 DEF Next, Terminated
<1> QED
  BY <1>1, <1>2, PTL DEF Spec

-----------------------------------------------------------------------------
(* What the call of a wrapper amounts to when no port throws.              *)

\* Every port has an edge, or those without one are not put on.
NoThrow == WellPlugged \/ pc' # "raised"

\* Every output port is put on.
LEMMA DeliverPlugged ==
  ASSUME NoThrow, NEW n \in Ordered, NEW q, NEW s, Deliver(n, q, s)
  PROVE  queue' = Push(q, OutEdges(n), s) /\ Hit
BY DEF Deliver, WellPlugged, NoThrow

\* A function, queuedout, fan-in or fan-out wrapper that calls its body fires the
\* node once; the engine takes the call for a miss only if the body refused.
LEMMA ConsumeFires ==
  ASSUME TypeOK, NoThrow, NEW n \in Ordered, n \in Node,
         InFull(n), Category[n] \notin {"source", "sink"},
         Consume(n), UNCHANGED <<left, got, wiring>>
  PROVE  Fire(n) /\ (Hit \/ (Miss /\ Refuses(n, Given(n))))
<1> DEFINE q == Pop(queue, InEdges(n))
<1>1. q \in [Edge -> Seq(Token)]
  BY PopType, InEdgesFull DEF TypeOK, ExecTypeOK, FlowTypeOK
<1>2. Enabled(n)
  BY DEF Enabled
<1>3. CASE Refuses(n, Given(n)) /\ queue' = q /\ Miss
  <2>1. queue' = Push(q, OutEdges(n), Result(n))
    BY <1>1, <1>3, NoPush DEF Result, Answer
  <2> QED
    BY <1>2, <1>3, <2>1 DEF Fire
<1>4. CASE ~Refuses(n, Given(n)) /\ Deliver(n, q, Emission(n, Given(n)))
  <2>1. queue' = Push(q, OutEdges(n), Result(n)) /\ Hit
    BY <1>4, DeliverPlugged DEF Result, Answer
  <2> QED
    BY <1>2, <1>4, <2>1 DEF Fire
<1> QED
  BY <1>3, <1>4 DEF Consume

\* A source fires and is seen to, or is exhausted and nothing has happened.
LEMMA SourceFires ==
  ASSUME TypeOK, NoThrow, NEW n \in Ordered, n \in Node,
         Source(n), UNCHANGED wiring
  PROVE  \/ Miss /\ UNCHANGED data /\ Stuck(n)
         \/ Fire(n) /\ Hit
<1>1. /\ Category[n] = "source" /\ Callable(n)
      /\ Inputs(n) = {} /\ InEdges(n) = {} /\ InFull(n) /\ Refused[n] = {}
  <2>1. Category[n] = "source" /\ Callable(n)
    BY DEF Source
  <2>2. NumIn[n] = 0 /\ Refused[n] = {}
    BY <2>1, DfpAssumption
  <2>3. Inputs(n) = {}
    BY <2>2 DEF Inputs, Ports
  <2> QED
    BY <2>1, <2>2, <2>3 DEF InEdges, EdgesAt, InFull
<1>2. CASE left[n] = 0 /\ Miss /\ UNCHANGED <<queue, left>>
  BY <1>1, <1>2 DEF Source, Stuck, data
<1>3. CASE /\ left[n] > 0 /\ left' = [left EXCEPT ![n] = @ - 1]
           /\ Deliver(n, queue, Emission(n, Given(n)))
  <2>1. queue' = Push(queue, OutEdges(n), Emission(n, Given(n))) /\ Hit
    BY <1>3, DeliverPlugged
  <2>2. Pop(queue, InEdges(n)) = queue
    BY <1>1, NoPush DEF TypeOK, ExecTypeOK, FlowTypeOK
  <2>3. Result(n) = Emission(n, Given(n))
    BY <1>1 DEF Result, Answer, Refuses
  <2> QED
    BY <1>1, <1>3, <2>1, <2>2, <2>3 DEF Fire, Enabled, Source
<1> QED
  BY <1>2, <1>3 DEF Source

\* A sink fires; the engine takes the call for a miss only if the body refused.
LEMMA SinkFires ==
  ASSUME TypeOK, NEW n \in Node, Sink(n), UNCHANGED wiring
  PROVE  Fire(n) /\ (Hit \/ (Miss /\ Refuses(n, Given(n))))
<1>1. /\ Category[n] = "sink" /\ InFull(n)
      /\ queue' = Pop(queue, InEdges(n))
      /\ got' = [got EXCEPT ![n] = Append(@, Given(n))]
      /\ left' = left
      /\ Hit \/ (Miss /\ Refuses(n, Given(n)))
  BY DEF Sink, Callable
<1>2. OutEdges(n) = {}
  BY <1>1, DfpAssumption DEF OutEdges, EdgesAt, Outputs, Ports
<1>3. Pop(queue, InEdges(n)) \in [Edge -> Seq(Token)]
  BY <1>1, PopType, InEdgesFull DEF TypeOK, ExecTypeOK, FlowTypeOK
<1>4. queue' = Push(Pop(queue, InEdges(n)), OutEdges(n), Result(n))
  BY <1>1, <1>2, <1>3, NoPush
<1> QED
  BY <1>1, <1>4 DEF Fire, Enabled

\* Either nothing happened because the node had nothing to do, or the node
\* fired once, and the engine saw it unless the body refused its input.
LEMMA CallEffect ==
  ASSUME TypeOK, NoThrow, CallNode
  PROVE  \/ Miss /\ UNCHANGED data /\ Stuck(order[pos])
         \/ /\ Fire(order[pos]) /\ Callable(order[pos])
            /\ Hit \/ (Miss /\ Refuses(order[pos], Given(order[pos])))
<1> DEFINE n == order[pos]
<1>1. n \in Ordered /\ n \in Node /\ Call(n) /\ UNCHANGED wiring
  BY CurrentNode DEF CallNode
<1> HIDE DEF n
<1> SUFFICES \/ Miss /\ UNCHANGED data /\ Stuck(n)
             \/ /\ Fire(n) /\ Callable(n)
                /\ Hit \/ (Miss /\ Refuses(n, Given(n)))
  BY DEF n
<1>2. CASE NotCallable(n)
  BY <1>2 DEF NotCallable, Stuck
<1>3. CASE Source(n)
  BY <1>1, <1>3, SourceFires DEF Source
<1>4. CASE Sink(n)
  BY <1>1, <1>4, SinkFires DEF Sink
<1>5. CASE Function(n) \/ Queuedout(n) \/ JoinFanin(n) \/ SplitFanout(n)
  <2>1. /\ InFull(n) /\ Consume(n) /\ UNCHANGED <<left, got>> /\ Callable(n)
        /\ Category[n] \notin {"source", "sink"}
    BY <1>5 DEF Function, Queuedout, JoinFanin, SplitFanout, Callable
  <2> QED
    BY <1>1, <2>1, ConsumeFires
<1> QED
  BY <1>1, <1>2, <1>3, <1>4, <1>5 DEF Call

\* The graph stays plugged.
LEMMA PlugsKept ==
  ASSUME WellPlugged, UNCHANGED <<wiring, order>>
  PROVE  WellPlugged'
BY DEF WellPlugged, Ordered, wiring, Plugged, Inputs, Outputs

\* No call changes the wiring or the list of nodes.
LEMMA OrderKept ==
  ASSUME TypeOK, NoThrow, CallNode
  PROVE  UNCHANGED <<wiring, order>>
BY CallEffect DEF CallNode, Hit, Miss

-----------------------------------------------------------------------------
(* Every accepted graph runs, as a Kahn network.                           *)

Sound == TypeOK /\ WellPlugged /\ pc # "raised"

\* Every step keeps the types, the plugs and the absence of exceptions.
LEMMA SoundStep ==
  ASSUME Sound, [Next]_vars
  PROVE  Sound'
<1>1. TypeOK'
  <2>1. CASE CallNode
    BY <2>1, CallType DEF Sound
  <2>2. CASE UNCHANGED vars
    BY <2>2 DEF Sound, vars, wiring, data, execution, TypeOK, ExecTypeOK, FlowTypeOK, Ordered
  <2> QED
    BY <2>1, <2>2 DEF Next, Terminated
<1>2. UNCHANGED <<wiring, order>> /\ pc' # "raised"
  <2>1. CASE CallNode
    BY <2>1, CallEffect, OrderKept DEF Sound, NoThrow, CallNode, Hit, Miss
  <2>2. CASE UNCHANGED vars
    BY <2>2 DEF Sound, vars, execution
  <2> QED
    BY <2>1, <2>2 DEF Next, Terminated
<1>3. WellPlugged'
  BY <1>2, PlugsKept DEF Sound
<1> QED
  BY <1>1, <1>2, <1>3 DEF Sound

\* The state execute() starts from has them.
LEMMA SoundInit == Init => Sound
BY DEF Init, LooseInit, Sound, TypeOK, ExecTypeOK, PC

\* Of a graph Graph::connected() accepts, no execution throws from a port,
\* whatever the bodies return.
THEOREM NeverThrows == Spec => [](pc # "raised")
<1>1. Sound /\ [Next]_vars => Sound'
  BY SoundStep
<1>2. Sound => pc # "raised"
  BY DEF Sound
<1> QED
  BY SoundInit, <1>1, <1>2, PTL DEF Spec

\* execute() only ever does what a Kahn network may do: each call of a
\* wrapper fires its node once, or changes nothing.
THEOREM Implementation == Spec => FlowSpec
<1>1. Init => FlowInit
  BY DEF Init, LooseInit
<1>2. Sound /\ [Next]_vars => [FlowNext]_<<wiring, data>>
  <2> SUFFICES ASSUME Sound, [Next]_vars PROVE [FlowNext]_<<wiring, data>>
    OBVIOUS
  <2>1. CASE CallNode
    <3>1. order[pos] \in Node /\ UNCHANGED wiring
      BY <2>1, CurrentNode DEF Sound, CallNode
    <3>2. Fire(order[pos]) \/ UNCHANGED data
      BY <2>1, CallEffect DEF Sound, NoThrow
    <3> QED
      BY <3>1, <3>2 DEF FlowNext
  <2>2. CASE UNCHANGED vars
    BY <2>2 DEF vars
  <2> QED
    BY <2>1, <2>2 DEF Next, Terminated
<1>3. Sound /\ [Next]_vars => Sound'
  BY SoundStep
<1> QED
  BY <1>1, <1>2, <1>3, SoundInit, PTL DEF Spec, FlowSpec

-----------------------------------------------------------------------------
(* Quiescence.                                                             *)

\* The nodes the current visit has already called had nothing to do, and
\* have nothing to do yet.
Visited == \A i \in 1 .. Len(order) : pc = "done" \/ i > pos => Stuck(order[i])

\* No body returns false for an object it was given.
NoRefusal == \A n \in Node : Refused[n] = {}

\* If bodies refuse nothing, every step keeps the nodes already visited stuck: a
\* miss changes no queue, and a hit leaves no node visited.
LEMMA VisitedStep ==
  ASSUME NoRefusal, TypeOK, NoThrow, Visited, [Next]_vars
  PROVE  Visited'
<1>1. CASE CallNode
  <2>1. /\ pc = "scan" /\ pos \in 1 .. Len(order) /\ order[pos] \in Node
        /\ UNCHANGED <<wiring, order>> /\ Len(order) \in Nat
    BY <1>1, CurrentNode, OrderKept DEF CallNode, TypeOK, ExecTypeOK
  <2>2. CASE Hit
    BY <2>1, <2>2 DEF Hit, Visited
  <2>3. CASE Miss /\ UNCHANGED data /\ Stuck(order[pos])
    <3>1. ASSUME NEW m PROVE Stuck(m)' = Stuck(m)
      BY <2>1, <2>3 DEF Stuck, Callable, OutEmpty, SomeOutEmpty, InFull, Contents,
           Inputs, Outputs, wiring, data
    <3>2. ASSUME NEW i \in 1 .. Len(order), pc' = "done" \/ i > pos'
          PROVE  Stuck(order[i])
      BY <2>1, <2>3, <3>2 DEF Miss, Visited
    <3> QED
      BY <2>1, <3>1, <3>2 DEF Visited
  <2>4. ~Refuses(order[pos], Given(order[pos]))
    BY <2>1 DEF NoRefusal, Refuses
  <2> QED
    BY <1>1, <2>2, <2>3, <2>4, CallEffect
<1>2. CASE UNCHANGED vars
  BY <1>2 DEF vars, wiring, data, execution, Visited, Stuck, Callable, OutEmpty,
       SomeOutEmpty, InFull, Contents, Inputs, Outputs
<1> QED
  BY <1>1, <1>2 DEF Next, Terminated

\* When no body refuses an object, execute() returns only at quiescence: one
\* more visit of the nodes would do nothing.  The hypothesis is needed, as
\* the run refused_copy shows.
THEOREM Quiescence ==
  ASSUME NoRefusal
  PROVE  Spec => []Quiescent
<1>1. Init => Visited
  BY DEF Init, LooseInit, Visited
<1>2. Sound /\ Visited /\ [Next]_vars => Sound' /\ Visited'
  BY SoundStep, VisitedStep DEF Sound, NoThrow
<1>3. Visited => Quiescent
  BY DEF Visited, Quiescent, Ordered
<1> QED
  BY <1>1, <1>2, <1>3, SoundInit, PTL DEF Spec

-----------------------------------------------------------------------------
(* The low memory policy.                                                  *)

Waits(p) == Category[p[1]] \in {"source", "function", "fanin"}

\* A node fires only into empty output edges, if it is one of those that
\* look; the edges of other nodes' outputs can only get shorter.
LEMMA OneSlotStep ==
  ASSUME Sound, OneSlot, NEW n \in Node, Fire(n), Callable(n),
         NEW p \in OutPort, Waits(p)
  PROVE  Len(Contents(oedge, queue, p)') <= 1
<1> DEFINE e == oedge[p]
           q == Pop(queue, InEdges(n))
<1>1. /\ oedge' = oedge /\ e \in Edge \cup {NoEdge} /\ FlowTypeOK /\ InFull(n)
      /\ queue' = Push(q, OutEdges(n), Result(n))
      /\ queue \in [Edge -> Seq(Token)]
  BY DEF Fire, wiring, Sound, TypeOK, ExecTypeOK, FlowTypeOK, Enabled
<1>2. CASE e = NoEdge
  BY <1>1, <1>2 DEF Contents
<1>3. CASE e \in Edge /\ e # NoEdge
  <2>1. Contents(oedge, queue, p)' = queue'[e] /\ Contents(oedge, queue, p) = queue[e]
    BY <1>1, <1>3 DEF Contents
  <2>2. Len(queue[e]) <= 1 /\ queue[e] \in Seq(Token)
    BY <1>1, <1>3, <2>1 DEF OneSlot, Waits
  <2>3. /\ q \in [Edge -> Seq(Token)] /\ Len(q[e]) <= 1
        /\ queue[e] = <<>> => q[e] = <<>>
    <3>1. q \in [Edge -> Seq(Token)]
      BY <1>1, PopType, InEdgesFull
    <3>2. CASE e \in InEdges(n)
      <4>1. queue[e] # <<>>
        BY <1>1, <3>2, InEdgesFull
      <4>2. q[e] = Tail(queue[e])
        BY <1>1, <1>3, <3>2 DEF Pop
      <4> QED
        BY <2>2, <3>1, <4>1, <4>2
    <3>3. CASE e \notin InEdges(n)
      <4>1. q[e] = queue[e]
        BY <1>1, <1>3, <3>3 DEF Pop
      <4> QED
        BY <2>2, <3>1, <4>1
    <3> QED
      BY <3>2, <3>3
  <2> HIDE DEF q, e
  <2>4. CASE e \notin OutEdges(n)
    <3>1. queue'[e] = q[e]
      BY <1>1, <1>3, <2>3, <2>4 DEF Push
    <3> QED
      BY <2>1, <2>3, <3>1
  <2>5. CASE e \in OutEdges(n)
    <3>1. p \in Outputs(n) /\ p[1] = n
      <4>1. PICK r \in Outputs(n) : oedge[r] = e
        BY <2>5 DEF OutEdges, EdgesAt
      <4>2. r \in OutPort /\ r[1] = n
        BY <4>1, PortTypes DEF Outputs, Ports
      <4> QED
        BY <1>3, <4>1, <4>2 DEF e, Sound, WellPlugged
    <3>2. queue[e] = <<>>
      BY <2>1, <3>1 DEF Waits, Callable, OutEmpty
    <3>3. Result(n) \in Seq(Token) /\ Len(Result(n)) <= 1
      BY <1>1, <3>1, GivenType, EmissionType DEF Result, Answer, Waits
    <3>4. queue'[e] = q[e] \o Result(n)
      BY <1>1, <1>3, <2>3, <2>5 DEF Push
    <3> QED
      BY <2>1, <2>3, <3>2, <3>3, <3>4
  <2> QED
    BY <2>4, <2>5
<1> QED
  BY <1>1, <1>2, <1>3 DEF NoEdge

\* No edge that a source, function or fan-in delivers to ever holds a second
\* object, in whatever order the nodes are visited.
THEOREM LowMemoryPolicy == Spec => []OneSlot
<1>1. Init => OneSlot
  BY DEF Init, LooseInit, FlowInit, FlowTypeOK, OneSlot, Contents
<1>2. Sound /\ OneSlot /\ [Next]_vars => Sound' /\ OneSlot'
  <2> SUFFICES ASSUME Sound, OneSlot, [Next]_vars PROVE OneSlot'
    BY SoundStep
  <2>1. CASE CallNode
    <3>1. order[pos] \in Node /\ UNCHANGED wiring
      BY <2>1, CurrentNode DEF Sound, CallNode
    <3>2. CASE UNCHANGED data
      BY <3>1, <3>2 DEF OneSlot, Contents, wiring, data
    <3>3. CASE Fire(order[pos]) /\ Callable(order[pos])
      BY <3>1, <3>3, OneSlotStep DEF OneSlot, Waits
    <3> QED
      BY <2>1, <3>2, <3>3, CallEffect DEF Sound, NoThrow
  <2>2. CASE UNCHANGED vars
    BY <2>2 DEF OneSlot, Contents, vars, wiring, data
  <2> QED
    BY <2>1, <2>2 DEF Next, Terminated
<1> QED
  BY <1>1, <1>2, SoundInit, PTL DEF Spec

-----------------------------------------------------------------------------
(* Kahn's theorem: what a graph computes is its own, not its schedule's.    *)

\* The execution is somewhere on its way to the streams its wiring means.
OnTheWay ==
  wiring \in DOMAIN Meaning =>
    \E f : Progress(iedge, oedge, Meaning[wiring], f, queue, left, got)

\* They solve the equations of the wiring.
LEMMA Meant ==
  ASSUME wiring \in DOMAIN Meaning
  PROVE  Solves(iedge, oedge, Meaning[wiring])
BY MeaningAssumption DEF wiring

\* A node may fire when it is ready to be called with what is given to it.
LEMMA ReadyToFire ==
  ASSUME NEW n \in Node
  PROVE  /\ Enabled(n) <=> Ready(iedge, queue, left, n)
         /\ Given(n) = Offered(iedge, queue, left, n)
BY DEF Enabled, InFull, Inputs, Ready, Given, Offered

LEMMA WayStart ==
  ASSUME FlowInit
  PROVE  OnTheWay
<1> SUFFICES ASSUME wiring \in DOMAIN Meaning
             PROVE  \E f : Progress(iedge, oedge, Meaning[wiring], f, queue, left, got)
  BY DEF OnTheWay
<1> DEFINE K == Meaning[wiring]
           g == [n \in Node |-> <<>>]
           q == [e \in Edge |-> <<>>]
<1>1. Solves(iedge, oedge, K)
  BY Meant
<1>2. queue = q /\ left = Length /\ got = g
  BY DEF FlowInit
<1> HIDE DEF K
<1>3. Progress(iedge, oedge, K, [n \in Node |-> 0], q, Length, g)
  BY <1>1, ProgressStart
<1> HIDE DEF q, g
<1>4. Progress(iedge, oedge, K, [n \in Node |-> 0], queue, left, got)
  BY <1>2, <1>3
<1> QED BY <1>4 DEF K

\* Each firing is one call more of the calls there are to make.
LEMMA WayStep ==
  ASSUME FlowTypeOK, OnTheWay, NEW n \in Node, Fire(n)
  PROVE  OnTheWay'
<1> SUFFICES ASSUME wiring' \in DOMAIN Meaning
             PROVE  \E f : Progress(iedge', oedge', Meaning[wiring'], f, queue', left', got')
  BY DEF OnTheWay
<1> DEFINE K == Meaning[wiring]
           t == Given(n)
<1>1. iedge' = iedge /\ oedge' = oedge /\ wiring' = wiring
  BY DEF Fire, wiring
<1>2. PICK f : Progress(iedge, oedge, K, f, queue, left, got)
  BY <1>1 DEF OnTheWay
<1>3. Solves(iedge, oedge, K)
  BY <1>1, Meant
<1>4. Ready(iedge, queue, left, n) /\ t = Offered(iedge, queue, left, n)
  BY ReadyToFire DEF Fire
<1>5. /\ queue' = Push(Pop(queue, EdgesAt(iedge, Ports(n, NumIn[n]))),
                       EdgesAt(oedge, Ports(n, NumOut[n])), Answer(n, t))
      /\ left' = IF Category[n] = "source" THEN [left EXCEPT ![n] = @ - 1] ELSE left
      /\ got' = IF Category[n] = "sink" THEN [got EXCEPT ![n] = Append(@, t)] ELSE got
  BY DEF Fire, InEdges, OutEdges, Inputs, Outputs, Result
<1>6. /\ queue \in [Edge -> Seq(Token)] /\ left \in [Node -> Nat]
      /\ got \in [Node -> Seq(Token)]
  BY DEF FlowTypeOK
<1> DEFINE f2 == [f EXCEPT ![n] = @ + 1]
<1> HIDE DEF K, t
<1>7. Progress(iedge, oedge, K, f2, queue', left', got')
  BY <1>2, <1>3, <1>4, <1>5, <1>6, ProgressStep, ZenonT(60)
<1> HIDE DEF f2
<1>8. Progress(iedge', oedge', Meaning[wiring'], f2, queue', left', got')
  BY <1>1, <1>7 DEF K
<1> QED BY <1>8

LEMMA WayKept ==
  ASSUME OnTheWay, UNCHANGED <<wiring, data>>
  PROVE  OnTheWay'
BY DEF OnTheWay, wiring, data

\* On the way, no sink has got anything but what its stream begins with.
LEMMA WayInStep ==
  ASSUME OnTheWay
  PROVE  InStep
<1> SUFFICES ASSUME wiring \in DOMAIN Meaning, NEW n \in Sinks
             PROVE  IsPrefix(got[n], Meaning[wiring].calls[n])
  BY DEF InStep, SomeDelivered
<1>1. PICK f : Progress(iedge, oedge, Meaning[wiring], f, queue, left, got)
  BY DEF OnTheWay
<1> QED BY <1>1, Meant, SinksInStep, ZenonT(60)

\* And where no node can fire the way has come to its end.
LEMMA WayEnd ==
  ASSUME FlowTypeOK, OnTheWay, \A n \in Node : ~Enabled(n)
  PROVE  AllDelivered(wiring, got)
<1> SUFFICES ASSUME wiring \in DOMAIN Meaning, NEW n \in Sinks
             PROVE  got[n] = Meaning[wiring].calls[n]
  BY DEF AllDelivered
<1> DEFINE K == Meaning[wiring]
<1>1. PICK f : Progress(iedge, oedge, K, f, queue, left, got)
  BY DEF OnTheWay
<1>2. Solves(iedge, oedge, K) /\ queue \in [Edge -> Seq(Token)] /\ n \in Node
  BY Meant DEF FlowTypeOK, Sinks
<1>3. \A m \in Node : ~Ready(iedge, queue, left, m)
  BY ReadyToFire
<1> HIDE DEF K
<1>4. ~Lags(K, f, n)
  BY <1>1, <1>2, <1>3, AtRest, ZenonT(60)
<1>5. got[n] = K.calls[n]
  BY <1>1, <1>2, <1>4, SinksDone, SMTT(60)
<1> QED BY <1>5 DEF K

Wired == /\ iedge \in [InPort -> Edge \cup {NoEdge}]
         /\ oedge \in [OutPort -> Edge \cup {NoEdge}]

LEMMA WayOfFlow == Wired /\ FlowSpec => [](FlowTypeOK /\ OnTheWay)
<1>1. FlowInit => OnTheWay
  BY WayStart
<1>2. FlowTypeOK /\ OnTheWay /\ [FlowNext]_<<wiring, data>> => OnTheWay'
  BY WayStep, WayKept DEF FlowNext
<1> QED BY <1>1, <1>2, FlowTypeCorrect, PTL DEF FlowSpec, Wired

\* Whatever order the nodes fire in, a sink gets nothing but the next object of the
\* stream the equations of its graph mean for it: nothing is lost, repeated,
\* overtaken or paired with the wrong partner on the way.
THEOREM FlowInStep == Wired /\ FlowSpec => []InStep
<1>1. OnTheWay => InStep
  BY WayInStep
<1> QED BY <1>1, WayOfFlow, PTL

\* Whatever order the nodes fire in, when none can fire any more every sink has got
\* its whole stream.
THEOREM Determinacy == Wired /\ FlowSpec => []Determinate
<1>1. FlowTypeOK /\ OnTheWay => Determinate
  BY WayEnd DEF Determinate
<1> QED BY <1>1, WayOfFlow, PTL

-----------------------------------------------------------------------------
(* A graph assembled with Graph::connect() alone, its nodes in any order.  *)

Loose == LooseInit /\ [][Next]_vars

\* A port that throws costs the sinks nothing of what they have got.
LEMMA RaiseKeeps ==
  ASSUME TypeOK, CallNode, pc' = "raised"
  PROVE  UNCHANGED <<wiring, got>>
<1> DEFINE n == order[pos]
<1>1. pc = "scan" /\ Call(n) /\ UNCHANGED wiring
  BY DEF CallNode
<1> HIDE DEF n
<1>2. ~Hit /\ ~Miss
  BY <1>1 DEF Hit, Miss
<1>3. got' = got
  BY <1>1, <1>2 DEF Call, NotCallable, Source, Sink, Function, Queuedout, JoinFanin, SplitFanout
<1> QED BY <1>1, <1>3

\* No call changes the list of nodes, even if a port throws.
LEMMA RaiseList ==
  ASSUME TypeOK, CallNode
  PROVE  UNCHANGED <<wiring, order>>
BY DEF CallNode, Call, NotCallable, Source, Sink, Function, Queuedout, JoinFanin, SplitFanout,
   Consume, Deliver, Hit, Miss

\* The types hold, and the execution is on its way until a port throws.
NotRaised == pc # "raised"
LooseInv == TypeOK /\ (NotRaised => OnTheWay)

LEMMA LooseStart == LooseInit => LooseInv
BY WayStart DEF LooseInit, LooseInv, TypeOK, ExecTypeOK, PC

LEMMA LooseStep ==
  ASSUME LooseInv, [Next]_vars
  PROVE  LooseInv'
<1>1. CASE CallNode
  <2>1. TypeOK /\ OnTheWay /\ FlowTypeOK /\ order[pos] \in Node /\ UNCHANGED wiring
    BY <1>1, CurrentNode DEF LooseInv, NotRaised, TypeOK, ExecTypeOK, CallNode
  <2>2. ASSUME NotRaised' PROVE OnTheWay'
    <3>1. Fire(order[pos]) \/ UNCHANGED data
      BY <1>1, <2>1, <2>2, CallEffect DEF NotRaised, NoThrow
    <3> QED BY <2>1, <3>1, WayStep, WayKept
  <2> QED BY <1>1, <2>1, <2>2, CallType DEF LooseInv
<1>2. CASE UNCHANGED vars
  BY <1>2, WayKept DEF LooseInv, NotRaised, vars, wiring, data, execution, TypeOK, ExecTypeOK,
       FlowTypeOK, Ordered
<1> QED BY <1>1, <1>2 DEF Next, Terminated

\* Graph::execute() on a graph nothing has checked keeps every sink in step with its
\* stream, whatever the order of the nodes, and also when a port without an edge
\* has thrown.
THEOREM LooseInStep == Loose => []InStep
<1>1. LooseInv /\ NotRaised => InStep
  BY WayInStep DEF LooseInv
<1>2. LooseInv /\ InStep /\ [Next]_vars => InStep' \/ NotRaised'
  <2> SUFFICES ASSUME LooseInv, InStep, [Next]_vars, ~NotRaised' PROVE InStep'
    OBVIOUS
  <2>1. UNCHANGED <<wiring, got>>
    BY RaiseKeeps DEF LooseInv, NotRaised, Next, Terminated, vars, wiring, data
  <2> QED BY <2>1 DEF InStep, SomeDelivered, wiring
<1>3. LooseInit => NotRaised
  BY DEF LooseInit, NotRaised
<1> QED BY <1>1, <1>2, <1>3, LooseStart, LooseStep, PTL DEF Loose

\* A port throws only where a port has no edge, whatever the order of the nodes.
THEOREM OnlyUnpluggedThrows == Loose => []ThrowsUnplugged
<1>1. LooseInit => ThrowsUnplugged
  BY DEF LooseInit, ThrowsUnplugged
<1>2. LooseInv /\ ThrowsUnplugged /\ [Next]_vars => ThrowsUnplugged'
  <2> SUFFICES ASSUME LooseInv, ThrowsUnplugged, [Next]_vars, WellPlugged' PROVE pc' # "raised"
    BY DEF ThrowsUnplugged
  <2>1. CASE CallNode
    <3>1. UNCHANGED <<wiring, order>>
      BY <2>1, RaiseList DEF LooseInv
    <3>2. WellPlugged
      BY <3>1 DEF WellPlugged, Ordered, wiring, Plugged, Inputs, Outputs
    <3> QED BY <2>1, <3>2, CallEffect DEF LooseInv, NoThrow, CallNode, Hit, Miss
  <2>2. CASE UNCHANGED vars
    BY <2>2 DEF ThrowsUnplugged, vars, execution, wiring, WellPlugged, Ordered, Plugged,
         Inputs, Outputs
  <2> QED BY <2>1, <2>2 DEF Next, Terminated
<1> QED BY <1>1, <1>2, LooseStart, LooseStep, PTL DEF Loose

\* A lagging node that has an empty edge to put on, or that is a sink, waits for
\* its input: the engine would have called it otherwise.
Blocks(K, f, n) ==
  /\ Lags(K, f, n)
  /\ \/ Category[n] = "sink"
     \/ \E p \in Outputs(n) : oedge[p] # NoEdge /\ queue[oedge[p]] = <<>>

LEMMA BlockedStarves ==
  ASSUME TypeOK, pc = "done", Quiescent, AllListed, NEW K, Solves(iedge, oedge, K),
         NEW f, Progress(iedge, oedge, K, f, queue, left, got),
         NEW n \in Node, Blocks(K, f, n)
  PROVE  Starves(iedge, oedge, K, f, queue, n)
<1>1. Lags(K, f, n) /\ queue \in [Edge -> Seq(Token)]
  BY DEF Blocks, TypeOK, ExecTypeOK, FlowTypeOK
<1>2. ASSUME Ready(iedge, queue, left, n) PROVE FALSE
  <2>1. InFull(n) /\ (Category[n] = "source" => left[n] > 0)
    BY <1>2, ReadyToFire DEF Enabled
  <2>2. n \in Ordered
    <3>1. CASE Category[n] = "sink"
      <4>1. <<n, 0>> \in Inputs(n) /\ <<n, 0>> \in InPort
        BY <3>1, DfpAssumption DEF Inputs, Ports, InPort
      <4>2. iedge[<<n, 0>>] # NoEdge
        BY <2>1, <4>1 DEF InFull, Contents
      <4> QED BY <4>1, <4>2 DEF AllListed
    <3>2. CASE \E p \in Outputs(n) : oedge[p] # NoEdge /\ queue[oedge[p]] = <<>>
      <4>1. PICK p \in Outputs(n) : oedge[p] # NoEdge
        BY <3>2
      <4>2. p \in OutPort /\ p[1] = n
        BY PortNodes DEF Outputs
      <4> QED BY <4>1, <4>2 DEF AllListed
    <3> QED BY <3>1, <3>2 DEF Blocks
  <2>3. Category[n] # "sink" => SomeOutEmpty(n)
    BY DEF Blocks, SomeOutEmpty, Contents
  <2>4. Category[n] \in {"source", "function", "fanin"} => OutEmpty(n)
    <3> SUFFICES ASSUME Category[n] \in {"source", "function", "fanin"} PROVE OutEmpty(n)
      OBVIOUS
    <3>1. NumOut[n] = 1
      BY DfpAssumption
    <3>2. Outputs(n) = {<<n, 0>>}
      BY <3>1 DEF Outputs, Ports
    <3> QED BY <2>3, <3>2 DEF OutEmpty, SomeOutEmpty
  <2>5. Category[n] \in Wrapped
    BY <2>2 DEF TypeOK, ExecTypeOK
  <2>6. Callable(n)
    BY <2>1, <2>3, <2>4, <2>5 DEF Callable, Wrapped
  <2>7. Stuck(n)
    BY <2>2 DEF Quiescent
  <2> QED BY <2>1, <2>6, <2>7 DEF Stuck
<1> QED BY <1>1, <1>2, Starved, ZenonT(60)

\* So nothing blocks.
LEMMA NoneBlocks ==
  ASSUME TypeOK, pc = "done", Quiescent, AllListed, NEW K, Solves(iedge, oedge, K),
         NEW f, Progress(iedge, oedge, K, f, queue, left, got)
  PROVE  \A n \in Node : ~Blocks(K, f, n)
<1> DEFINE S == {n \in Node : Blocks(K, f, n)}
<1>1. ASSUME NEW n \in S
      PROVE  \E p \in OutPort, r \in InPort :
               oedge[p] = iedge[r] /\ oedge[p] # NoEdge /\ r[1] = n /\ p[1] \in S
  <2>1. n \in Node /\ Blocks(K, f, n)
    OBVIOUS
  <2> HIDE DEF S
  <2>2. Starves(iedge, oedge, K, f, queue, n)
    BY <2>1, BlockedStarves, ZenonT(60)
  <2>3. PICK p \in OutPort, r \in InPort :
           /\ oedge[p] = iedge[r] /\ oedge[p] # NoEdge /\ r[1] = n
           /\ queue[oedge[p]] = <<>> /\ Lags(K, f, p[1])
    BY <2>2 DEF Starves
  <2>4. p[1] \in Node /\ p \in Outputs(p[1])
    BY PortNodes DEF Outputs
  <2>5. Blocks(K, f, p[1])
    BY <2>3, <2>4 DEF Blocks
  <2> QED BY <2>3, <2>4, <2>5 DEF S
<1>2. Climbs(iedge, oedge, K.depth) /\ S \in SUBSET Node
  BY DEF Solves
<1> HIDE DEF S
<1>3. FedWithin(iedge, oedge, S)
  BY <1>1 DEF FedWithin
<1>4. S = {}
  BY <1>2, <1>3, NoDescent
<1> QED BY <1>4 DEF S

\* At quiescence every sink has got its whole stream.
LEMMA QuietDelivered ==
  ASSUME TypeOK, OnTheWay, Quiescent
  PROVE  Delivered
<1> SUFFICES ASSUME pc = "done", AllListed, wiring \in DOMAIN Meaning, NEW n \in Sinks
             PROVE  got[n] = Meaning[wiring].calls[n]
  BY DEF Delivered, AllDelivered
<1> DEFINE K == Meaning[wiring]
<1>1. PICK f : Progress(iedge, oedge, K, f, queue, left, got)
  BY DEF OnTheWay
<1>2. Solves(iedge, oedge, K) /\ n \in Node /\ Category[n] = "sink"
  BY Meant DEF Sinks
<1> HIDE DEF K
<1>3. ~Blocks(K, f, n)
  BY <1>1, <1>2, NoneBlocks, ZenonT(60)
<1>4. ~Lags(K, f, n)
  BY <1>2, <1>3 DEF Blocks
<1>5. got[n] = K.calls[n]
  BY <1>1, <1>2, <1>4, SinksDone, SMTT(60)
<1> QED BY <1>5 DEF K

\* If bodies refuse nothing, execute() returns at quiescence, whatever the wiring
\* and the order of the nodes.
THEOREM LooseQuiescence ==
  ASSUME NoRefusal
  PROVE  Loose => []Quiescent
<1> DEFINE Seen == NotRaised => Visited
<1>1. LooseInit => Seen
  BY DEF LooseInit, Visited
<1>2. LooseInv /\ Seen /\ [Next]_vars => Seen'
  <2> SUFFICES ASSUME LooseInv, Seen, [Next]_vars, NotRaised' PROVE Visited'
    OBVIOUS
  <2>1. NotRaised
    BY DEF NotRaised, Next, CallNode, Terminated, vars, execution
  <2> QED BY <2>1, VisitedStep DEF LooseInv, NotRaised, NoThrow
<1>3. Seen => Quiescent
  BY DEF Visited, Quiescent, Ordered, NotRaised
<1> QED BY <1>1, <1>2, <1>3, LooseStart, LooseStep, PTL DEF Loose

\* If bodies refuse nothing and every node an edge is plugged into is in the list,
\* execute() returns only when every sink has got its whole stream: holding a
\* node back until its output is empty costs no delivery, whatever the graph drops
\* or multiplies and in whatever order the nodes are visited.
THEOREM LooseDelivery ==
  ASSUME NoRefusal
  PROVE  Loose => []Delivered
<1>1. LooseInv /\ Quiescent => Delivered
  <2> SUFFICES ASSUME LooseInv, Quiescent PROVE Delivered
    OBVIOUS
  <2>1. CASE NotRaised
    BY <2>1, QuietDelivered DEF LooseInv
  <2>2. CASE ~NotRaised
    BY <2>2 DEF NotRaised, Delivered
  <2> QED BY <2>1, <2>2
<1>2. Loose => []Quiescent
  BY LooseQuiescence
<1> QED BY <1>1, <1>2, LooseStart, LooseStep, PTL DEF Loose
=============================================================================
