-------------------------------- MODULE Dfp --------------------------------
(***************************************************************************)
(* The vocabulary of the data flow programming (DFP) paradigm shared by    *)
(* the engines of the Wire-Cell Toolkit: node categories and ports         *)
(* (iface/INode.h), what a node body hands back for what it is given       *)
(* (iface/I*Node.h), and the pops and pushes an engine makes on the queues *)
(* between ports.                                                          *)
(*                                                                         *)
(* A datum is abstracted to its provenance: a token is the set of source   *)
(* items (and queued-out copies) it was made from.  That is exactly what   *)
(* loss, duplication, reordering and wrong pairing disturb.                *)
(***************************************************************************)
EXTENDS Integers, Sequences, FiniteSets

CONSTANTS
  Node,      \* the configured INode instances
  Category,  \* Category[n], INode::category()
  NumIn,     \* NumIn[n], size of INode::input_types()
  NumOut,    \* NumOut[n], size of INode::output_types()
  MaxEdge,   \* bound on the number of edges of one graph
  Length,    \* Length[n], how many objects a source delivers before false
  Refused,   \* Refused[n], items on which the body of n returns false
  Filtered,  \* Filtered[n], items for which a queuedout body queues nothing
  Copies     \* Copies[n], objects a queuedout body queues for any other item

Item  == Node \X Nat
Token == SUBSET Item
Edge  == 1 .. MaxEdge
NoEdge == 0                      \* a null Port::m_edge

\* Join shares fanin's wrapper and split fanout's (Wrappers.h), the port types
\* alone differ; the TBB engine has a wrapper of each of these but split.
\* "other" stands for the categories no wrapper is modelled for.
Wrapped == {"source", "sink", "function", "queuedout", "fanin", "fanout"}

InPort  == UNION {{n} \X (0 .. NumIn[n] - 1)  : n \in Node}
OutPort == UNION {{n} \X (0 .. NumOut[n] - 1) : n \in Node}

ASSUME DfpAssumption ==
  /\ Category \in [Node -> Wrapped \cup {"other"}]
  /\ NumIn \in [Node -> Nat] /\ NumOut \in [Node -> Nat]
  /\ \A n \in Node :
       /\ Category[n] = "source" => NumIn[n] = 0 /\ NumOut[n] = 1
       /\ Category[n] = "sink"   => NumIn[n] = 1 /\ NumOut[n] = 0
       /\ Category[n] \in {"function", "queuedout"} => NumIn[n] = 1 /\ NumOut[n] = 1
       /\ Category[n] = "fanin"  => NumIn[n] > 0 /\ NumOut[n] = 1
       /\ Category[n] = "fanout" => NumIn[n] = 1 /\ NumOut[n] > 0
  /\ MaxEdge \in Nat
  /\ Length \in [Node -> Nat]
  /\ \A n \in Node :
       /\ Refused[n] \subseteq Item /\ Filtered[n] \subseteq Item
       /\ Category[n] = "source" => Refused[n] = {}  \* false: nothing left
  /\ Copies \in [Node -> Nat]

-----------------------------------------------------------------------------
(* Node bodies.  t is the union of what the body receives at its ports.    *)

Refuses(n, t) == t \cap Refused[n] # {}

\* The sequence of objects a body returning true hands to each output port.
\* A fan-out whose fan has the wrong size returns false (IFanoutNode.h).
Emission(n, t) ==
  CASE Category[n] = "sink" -> <<>>
    [] Category[n] = "queuedout" ->
         IF t \cap Filtered[n] # {} THEN <<>>
         ELSE [i \in 1 .. Copies[n] |-> t \cup {<<n, i>>}]
    [] OTHER -> <<t>>

\* What a call of the body adds to each output port; false adds nothing.
Answer(n, t) == IF Refuses(n, t) THEN <<>> ELSE Emission(n, t)

\* The object the next call of source n delivers when `remaining` are left.
Fresh(n, remaining) == {<<n, Length[n] - remaining + 1>>}

-----------------------------------------------------------------------------
(* Queues.  w maps ports to edges and q maps edges to their contents.      *)

Ports(n, count) == {<<n, i>> : i \in 0 .. count - 1}
EdgesAt(w, P) == {w[p] : p \in P} \ {NoEdge}
Plugged(w, P) == \A p \in P : w[p] # NoEdge

\* A port with no edge has nothing in it.
Contents(w, q, p) == IF w[p] = NoEdge THEN <<>> ELSE q[w[p]]

\* The body's view of the first object at every port of P.
Heads(w, q, P) == UNION {Head(q[w[p]]) : p \in P}

Pop(q, E)     == [e \in DOMAIN q |-> IF e \in E THEN Tail(q[e]) ELSE q[e]]

\* Mutation: the queue is a stack.
PushFront(q, E, s) == [e \in DOMAIN q |-> IF e \in E THEN s \o q[e] ELSE q[e]]
Push(q, E, s) == [e \in DOMAIN q |-> IF e \in E THEN q[e] \o s ELSE q[e]]
=============================================================================
