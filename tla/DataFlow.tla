------------------------------ MODULE DataFlow ------------------------------
(***************************************************************************)
(* What an execution of a DFP graph promises, whatever the engine: a Kahn  *)
(* network.  A node that has an object at each of its input ports may      *)
(* fire; it takes one from each, and what its body returns is appended to  *)
(* its output edges.  Nodes fire in any order and edges are unbounded.     *)
(* The single threaded engine (Pgraph) and the multi threaded one          *)
(* (TbbFlow) each implement this specification.                            *)
(***************************************************************************)
EXTENDS KahnEquations

VARIABLES
  iedge,   \* iedge[p], the edge plugged at input port p
  oedge,   \* oedge[p], the edge plugged at output port p
  queue,   \* queue[e], the objects on edge e, oldest first
  left,    \* left[n], how many objects source n still has
  got      \* got[n], the objects handed to the body of sink n

wiring == <<iedge, oedge>>
data   == <<queue, left, got>>

\* Ports refer to edges or to none, edges hold tokens, and no source is asked
\* for more than it has.
FlowTypeOK ==
  /\ iedge \in [InPort -> Edge \cup {NoEdge}]
  /\ oedge \in [OutPort -> Edge \cup {NoEdge}]
  /\ queue \in [Edge -> Seq(Token)]
  /\ left \in [Node -> Nat]
  /\ \A n \in Node : left[n] <= Length[n]
  /\ got \in [Node -> Seq(Token)]

\* Nothing has run yet.
FlowInit ==
  /\ queue = [e \in Edge |-> <<>>]
  /\ left = Length
  /\ got = [n \in Node |-> <<>>]

Inputs(n)  == Ports(n, NumIn[n])
Outputs(n) == Ports(n, NumOut[n])
InEdges(n)  == EdgesAt(iedge, Inputs(n))
OutEdges(n) == EdgesAt(oedge, Outputs(n))

InFull(n) == \A p \in Inputs(n) : Contents(iedge, queue, p) # <<>>

\* What the body of n is given by its next call.
Given(n) == IF Category[n] = "source" THEN Fresh(n, left[n])
            ELSE Heads(iedge, queue, Inputs(n))

Result(n) == Answer(n, Given(n))

\* Mutations: an exhausted source is asked again; a node waits for all of its
\* output edges to be empty.
AlwaysEnabled(n) == InFull(n)
EnabledWhenDrained(n) == /\ InFull(n) /\ (Category[n] = "source" => left[n] > 0)
                         /\ \A e \in OutEdges(n) : queue[e] = <<>>
Enabled(n) == InFull(n) /\ (Category[n] = "source" => left[n] > 0)

Fire(n) ==
  /\ Enabled(n)
  /\ queue' = Push(Pop(queue, InEdges(n)), OutEdges(n), Result(n))
  /\ left' = IF Category[n] = "source" THEN [left EXCEPT ![n] = @ - 1] ELSE left
  /\ got' = IF Category[n] = "sink" THEN [got EXCEPT ![n] = Append(@, Given(n))]
            ELSE got
  /\ UNCHANGED wiring

FlowNext == \E n \in Node : Fire(n)
FlowSpec == FlowInit /\ [][FlowNext]_<<wiring, data>>

-----------------------------------------------------------------------------
(* Properties.                                                             *)

\* A sink is never given anything but the next object of its stream: nothing
\* is lost, repeated, overtaken or paired with the wrong partner on the way.
InStep == SomeDelivered(wiring, got)

\* Whatever the firing order, a network at rest has delivered every stream:
\* the result of a graph does not depend on its engine's scheduling.
Determinate == (\A n \in Node : ~Enabled(n)) => AllDelivered(wiring, got)
=============================================================================
