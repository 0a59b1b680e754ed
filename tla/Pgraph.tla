------------------------------- MODULE Pgraph -------------------------------
(***************************************************************************)
(* The single threaded engine: Pgraph::Graph::execute() calling the node   *)
(* wrappers of Wrappers.h through their ports.                             *)
(*                                                                         *)
(* One step is one iteration of the inner loop of execute(): the wrapper   *)
(* of the node at `pos` is called.  Nodes are visited from the end of the  *)
(* sorted list; the first call that returns true restarts the visit from   *)
(* the end, and a visit in which no call returns true ends the execution.  *)
(***************************************************************************)
EXTENDS DataFlow

VARIABLES
  order,  \* the nodes in the order sort_kahn() returned them
  pos,    \* position in order of the node to be called next
  pc      \* where the application is: see PC

execution == <<order, pos, pc>>
vars == <<wiring, data, execution>>

PC == {"scan", "done", "raised"}

Ordered == {order[i] : i \in DOMAIN order}

\* The types of what execute() works on; only nodes with a wrapper are listed.
ExecTypeOK ==
  /\ FlowTypeOK
  /\ order \in Seq(Node)
  /\ \A n \in Ordered : Category[n] \in Wrapped
  /\ pos \in 0 .. Len(order)

\* The types of the engine.  While it scans there is a node at pos to call: the
\* reverse iterator of Graph::execute() is dereferenced inside the list only.
TypeOK == ExecTypeOK /\ pc \in PC /\ (pc = "scan" => pos > 0)

-----------------------------------------------------------------------------
(* Ports.                                                                  *)

OutEmpty(n)     == \A p \in Outputs(n) : Contents(oedge, queue, p) = <<>>
SomeOutEmpty(n) == \E p \in Outputs(n) : Contents(oedge, queue, p) = <<>>

\* Mutations: a source does not look at its output; a fan-out waits until all
\* of its outputs are empty.
CallableEager(n) == /\ Category[n] \in Wrapped /\ InFull(n)
                    /\ Category[n] \in {"function", "fanin"} => OutEmpty(n)
                    /\ Category[n] = "fanout" => SomeOutEmpty(n)
CallableDrained(n) == /\ Category[n] \in Wrapped /\ InFull(n)
                      /\ Category[n] \notin {"sink", "queuedout"} => OutEmpty(n)

\* The guard of each wrapper: it calls the body exactly when this holds.
Callable(n) ==
  \/ Category[n] = "source"    /\ OutEmpty(n)
  \/ Category[n] = "sink"      /\ InFull(n)
  \/ Category[n] = "function"  /\ OutEmpty(n) /\ InFull(n)
  \/ Category[n] = "queuedout" /\ InFull(n)
  \/ Category[n] = "fanin"     /\ OutEmpty(n) /\ InFull(n)
  \/ Category[n] = "fanout"    /\ InFull(n) /\ SomeOutEmpty(n)

\* Mutation: the visit goes on instead of starting again.
HitGoesOn == /\ pos' = pos - 1
             /\ pc' = IF pos = 1 THEN "done" ELSE pc
             /\ UNCHANGED order

\* The wrapper returned true: break and start again from the bottom.
Hit == pos' = Len(order) /\ UNCHANGED <<order, pc>>

\* Mutations: a visit in which nothing happened is followed by another; the
\* visit stops one node too late.
MissForever == pos' = (IF pos = 1 THEN Len(order) ELSE pos - 1) /\ UNCHANGED <<order, pc>>
MissLate == /\ pos' = pos - 1
            /\ pc' = IF pos = 0 THEN "done" ELSE pc
            /\ UNCHANGED order

\* The wrapper returned false: go on to the next node, stop after the last.
Miss == /\ pos' = pos - 1
        /\ pc' = IF pos = 1 THEN "done" ELSE pc
        /\ UNCHANGED order

\* The first output port of n with no edge: Port::put() throws there.
Broken(n) == CHOOSE i \in 0 .. NumOut[n] - 1 :
               /\ oedge[<<n, i>>] = NoEdge
               /\ Plugged(oedge, Ports(n, i))

\* Mutation: a port throws when it has no room, not only when it has no edge.
DeliverOne(n, q, s) ==
  IF \A p \in Outputs(n) : oedge[p] # NoEdge /\ q[oedge[p]] = <<>>
  THEN queue' = Push(q, OutEdges(n), s) /\ Hit
  ELSE pc' = "raised" /\ UNCHANGED <<queue, order, pos>>

\* The body has consumed q's missing objects and returned s for each port.
Deliver(n, q, s) ==
  \/ /\ s = <<>> \/ Plugged(oedge, Outputs(n))
     /\ queue' = Push(q, OutEdges(n), s)
     /\ Hit
  \/ /\ s # <<>> /\ ~Plugged(oedge, Outputs(n))
     /\ queue' = Push(q, EdgesAt(oedge, Ports(n, Broken(n))), s)
     /\ pc' = "raised"
     /\ UNCHANGED <<order, pos>>

\* Mutation: what the body returns is ignored.
ConsumeAnyway(n) == Deliver(n, Pop(queue, InEdges(n)), Emission(n, Given(n)))

\* The inputs are popped before the body is called: if it then returns
\* false they are gone, and the engine counts the call as a miss.
Consume(n) ==
  LET q == Pop(queue, InEdges(n)) IN
    \/ /\ Refuses(n, Given(n))
       /\ queue' = q
       /\ Miss
    \/ /\ ~Refuses(n, Given(n))
       /\ Deliver(n, q, Emission(n, Given(n)))

-----------------------------------------------------------------------------
(* One action per wrapper category, each the whole of its operator().      *)

\* A wrapper whose guard does not hold returns false and touches nothing.
NotCallable(n) == ~Callable(n) /\ Miss /\ UNCHANGED data

Source(n) ==
  /\ Category[n] = "source" /\ Callable(n)
  /\ \/ left[n] = 0 /\ Miss /\ UNCHANGED <<queue, left>>
     \/ /\ left[n] > 0
        /\ left' = [left EXCEPT ![n] = @ - 1]
        /\ Deliver(n, queue, Emission(n, Given(n)))
  /\ UNCHANGED got

Sink(n) ==
  /\ Category[n] = "sink" /\ Callable(n)
  /\ queue' = Pop(queue, InEdges(n))
  /\ got' = [got EXCEPT ![n] = Append(@, Given(n))]
  /\ IF Refuses(n, Given(n)) THEN Miss ELSE Hit
  /\ UNCHANGED left

Function(n)    == Category[n] = "function"  /\ Callable(n) /\ Consume(n) /\ UNCHANGED <<left, got>>
Queuedout(n)   == Category[n] = "queuedout" /\ Callable(n) /\ Consume(n) /\ UNCHANGED <<left, got>>
JoinFanin(n)   == Category[n] = "fanin"     /\ Callable(n) /\ Consume(n) /\ UNCHANGED <<left, got>>
SplitFanout(n) == Category[n] = "fanout"    /\ Callable(n) /\ Consume(n) /\ UNCHANGED <<left, got>>

Call(n) == \/ NotCallable(n)
           \/ Source(n) \/ Sink(n) \/ Function(n)
           \/ Queuedout(n) \/ JoinFanin(n) \/ SplitFanout(n)

\* Mutation: the list is visited from its beginning.
CallTopDown == /\ pc = "scan"
               /\ Call(order[Len(order) + 1 - pos])
               /\ UNCHANGED wiring

\* Graph::call_node(), the only place a wrapper is called from.
CallNode == /\ pc = "scan"
            /\ Call(order[pos])
            /\ UNCHANGED wiring

Terminated == pc \in {"done", "raised"} /\ UNCHANGED vars

Next == CallNode \/ Terminated

\* A graph as assembled with Graph::connect() alone.
LooseInit ==
  /\ FlowTypeOK /\ FlowInit
  /\ order \in Seq(Node)
  /\ \A n \in Ordered : Category[n] \in Wrapped
  /\ pos = Len(order)
  /\ pc = IF order = <<>> THEN "done" ELSE "scan"

\* A graph Graph::connected() has accepted: every port has an edge, and no
\* two output ports share one.
WellPlugged ==
  /\ \A n \in Ordered : Plugged(iedge, Inputs(n)) /\ Plugged(oedge, Outputs(n))
  /\ \A p, r \in OutPort : oedge[p] = oedge[r] /\ oedge[p] # NoEdge => p = r

Init == LooseInit /\ WellPlugged

\* The loop runs in the calling thread: it takes every step it can.
Spec == Init /\ [][Next]_vars /\ WF_vars(CallNode)

-----------------------------------------------------------------------------
(* Properties.                                                             *)

\* The node has nothing to do: its wrapper would not call the body, or it is
\* a source whose body has returned all it had.
Stuck(n) == ~Callable(n) \/ (Category[n] = "source" /\ left[n] = 0)

\* When execute() returns, the graph has quiesced: one more pass over the
\* nodes could do nothing (the exit of the `while (true)` in Graph.cxx).
Quiescent == pc = "done" => \A n \in Ordered : Stuck(n)

\* The low memory policy: what a source, function or fan-in delivers waits
\* alone on its edge, because the wrapper looks at the output port first.
OneSlot == \A p \in OutPort :
             Category[p[1]] \in {"source", "function", "fanin"}
               => Len(Contents(oedge, queue, p)) <= 1

\* A graph whose ports are all plugged never throws, whatever the order its nodes
\* are visited in: only a put on a port with no edge does (Port.cxx:78).
ThrowsUnplugged == WellPlugged => pc # "raised"

\* Every node an edge is plugged into is in the list.
AllListed == /\ \A p \in InPort : iedge[p] # NoEdge => p[1] \in Ordered
             /\ \A p \in OutPort : oedge[p] # NoEdge => p[1] \in Ordered

\* execute() returns only when every sink has been given its whole stream:
\* waiting for room on an output edge never costs a delivery, whatever the
\* nodes drop or multiply, and in whatever order they are visited.
Delivered == pc = "done" /\ AllListed => AllDelivered(wiring, got)

\* execute() ends.
Termination == <>(pc \in {"done", "raised"})
=============================================================================
