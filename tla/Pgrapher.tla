------------------------------ MODULE Pgrapher ------------------------------
(***************************************************************************)
(* The Pgrapher application: configure() builds a Pgraph::Graph from the   *)
(* "edges" of the configuration, making one wrapper per INode as it meets  *)
(* it, and execute() sorts the graph (Graph::sort_kahn) and runs it (the   *)
(* actions of Pgraph).                                                     *)
(***************************************************************************)
EXTENDS Pgraph, SequencesExt

CONSTANTS
  Configs,  \* the edge lists the application may be configured with
  InType,   \* InType[p], the signature of input port p
  OutType   \* OutType[p], the signature of output port p
ASSUME ConfigsAssumption == \A c \in Configs : c \in Seq(ToSet(c)) /\ Len(c) <= MaxEdge

VARIABLES
  cfg,        \* the edge list given to configure()
  connected,  \* how many of its edges are connected: Graph::m_edges
  made,       \* wrappers in creation order: Node::instance() is the index
  nincoming,  \* sort_kahn()'s count of unsorted edges into each node
  seeds       \* sort_kahn()'s nodes ready to be sorted

building == <<cfg, connected, made, nincoming, seeds>>
allvars  == <<vars, building>>

\* Edges of a configuration: [tail, tport, head, hport].  A tail or head that
\* is not in Node is a component that was never instantiated.
m_edges == SubSeq(cfg, 1, connected)
TailPort(e) == <<e.tail, e.tport>>
HeadPort(e) == <<e.head, e.hport>>
EndsOf(edges) == {edges[i].tail : i \in DOMAIN edges} \cup {edges[i].head : i \in DOMAIN edges}
m_nodes == EndsOf(m_edges)

Stages == PC \cup {"configure", "configured", "sort"}

\* The types of the application.  The nodes of the graph are those a wrapper
\* was made for, each once, and sort_kahn()'s counts never go below zero.
AppTypeOK ==
  /\ ExecTypeOK
  /\ pc \in Stages
  /\ connected \in 0 .. Len(cfg)
  /\ made \in Seq(Node) /\ IsInjective(made)
  /\ m_nodes = ToSet(made)
  /\ nincoming \in [Node -> Nat]
  /\ seeds \subseteq Node

-----------------------------------------------------------------------------
(* configure()                                                             *)

\* Factory::operator(): one wrapper per INode, made when first asked for.
Fac(n, ws) == IF n \in ToSet(ws) THEN ws ELSE Append(ws, n)

\* The checks of get_node(), of Factory::operator() and of Graph::connect().
Connectable(e) ==
  /\ {e.tail, e.head} \subseteq Node
  /\ {Category[e.tail], Category[e.head]} \subseteq Wrapped
  /\ e.tport \in 0 .. NumOut[e.tail] - 1
  /\ e.hport \in 0 .. NumIn[e.head] - 1
  /\ OutType[TailPort(e)] = InType[HeadPort(e)]

\* connect() replaces whatever edge the two ports had.  The two calls of the
\* factory are arguments of one function call: either may come first.
Connect ==
  /\ pc = "configure" /\ connected < Len(cfg)
  /\ LET e == cfg[connected + 1] IN
       /\ Connectable(e)
       /\ made' \in {Fac(e.head, Fac(e.tail, made)), Fac(e.tail, Fac(e.head, made))}
       /\ oedge' = [oedge EXCEPT ![TailPort(e)] = connected + 1]
       /\ iedge' = [iedge EXCEPT ![HeadPort(e)] = connected + 1]
  /\ connected' = connected + 1
  /\ UNCHANGED <<data, execution, cfg, nincoming, seeds>>

\* configure() throws; nothing reads the half built graph after that.
ConfigureRaises ==
  /\ pc = "configure" /\ connected < Len(cfg)
  /\ ~Connectable(cfg[connected + 1])
  /\ pc' = "raised"
  /\ UNCHANGED <<wiring, data, order, pos, building>>

\* Mutation: output ports are not looked at.
InputDisconnected(n) == ~Plugged(iedge, Inputs(n))

\* Graph::connected(), over the nodes some edge was connected to.
Disconnected(n) == ~Plugged(iedge, Inputs(n)) \/ ~Plugged(oedge, Outputs(n))

CheckConnected ==
  /\ pc = "configure" /\ connected = Len(cfg)
  /\ pc' = IF \E n \in m_nodes : Disconnected(n) THEN "raised" ELSE "configured"
  /\ UNCHANGED <<wiring, data, order, pos, building>>

-----------------------------------------------------------------------------
(* sort_kahn(), the first thing execute() does                             *)

\* Mutation: several edges between two nodes count once.
Adjacent(t, h) ==
  IF \E i \in DOMAIN m_edges : m_edges[i].tail = t /\ m_edges[i].head = h THEN 1 ELSE 0

\* How many edges lead from node t to node h: how often m_edges_forward[t]
\* has h.
Multiplicity(t, h) ==
  Cardinality({i \in DOMAIN m_edges : m_edges[i].tail = t /\ m_edges[i].head = h})

\* Mutation: the nodes an edge comes from are counted, not the edges.
Feeders(n) == Cardinality({m_edges[i].tail : i \in {j \in DOMAIN m_edges : m_edges[j].head = n}})
Incoming(n) == Cardinality({i \in DOMAIN m_edges : m_edges[i].head = n})

SortInit ==
  /\ pc = "configured"
  /\ nincoming' = [n \in Node |-> Incoming(n)]
  /\ seeds' = {n \in m_nodes : nincoming'[n] = 0}
  /\ pc' = "sort"
  /\ UNCHANGED <<wiring, data, order, pos, cfg, connected, made>>

Instance(n) == CHOOSE i \in DOMAIN made : made[i] = n
FirstSeed == CHOOSE n \in seeds : \A s \in seeds : Instance(n) <= Instance(s)

\* The count of a head drops once per edge, and the head becomes a seed when
\* it reaches zero.  Mutation: it becomes one when it is met.
Reached == {h \in Node : Multiplicity(FirstSeed, h) > 0}
Freed == {h \in Node : nincoming[h] \in 1 .. Multiplicity(FirstSeed, h)}

SortPop ==
  /\ pc = "sort" /\ seeds # {}
  /\ order' = Append(order, FirstSeed)
  /\ nincoming' = [h \in Node |-> nincoming[h] - Multiplicity(FirstSeed, h)]
  /\ seeds' = (seeds \ {FirstSeed}) \cup Freed
  /\ UNCHANGED <<wiring, data, pos, pc, cfg, connected, made>>

\* The loop of execute() starts at the end of the sorted list.
SortDone ==
  /\ pc = "sort" /\ seeds = {}
  /\ pos' = Len(order)
  /\ pc' = IF order = <<>> THEN "done" ELSE "scan"
  /\ UNCHANGED <<wiring, data, order, building>>

-----------------------------------------------------------------------------
AppInit ==
  /\ cfg \in Configs
  /\ FlowInit
  /\ iedge = [p \in InPort |-> NoEdge] /\ oedge = [p \in OutPort |-> NoEdge]
  /\ order = <<>> /\ pos = 0 /\ pc = "configure"
  /\ connected = 0 /\ made = <<>>
  /\ nincoming = [n \in Node |-> 0] /\ seeds = {}

Configure == Connect \/ ConfigureRaises \/ CheckConnected
SortKahn  == SortInit \/ SortPop \/ SortDone
Execute   == CallNode /\ UNCHANGED building
Ended     == Terminated /\ UNCHANGED building

AppNext == Configure \/ SortKahn \/ Execute \/ Ended

\* The application runs in one thread and never waits.
AppSpec == AppInit /\ [][AppNext]_allvars
                   /\ WF_allvars(Configure \/ SortKahn \/ Execute)

-----------------------------------------------------------------------------
(* Properties.                                                             *)

\* Every edge still has both its ends: the tail port it was connected to
\* puts on it and the head port gets from it.
ExclusivePlug ==
  \A i \in DOMAIN m_edges : /\ oedge[TailPort(m_edges[i])] = i
                            /\ iedge[HeadPort(m_edges[i])] = i

\* An execution never meets a port with no edge: what connected() accepted
\* and sort_kahn() listed is safe to call.
Runnable == pc \in {"scan", "done"} =>
              \A n \in Ordered : Plugged(iedge, Inputs(n)) /\ Plugged(oedge, Outputs(n))

\* The nodes a path of edges leads to from n.
Downstream(n) ==
  LET Step(S) == S \cup {m_edges[i].head : i \in {j \in DOMAIN m_edges : m_edges[j].tail \in S}}
      reach[k \in 0 .. Len(m_edges)] ==
        IF k = 0 THEN {m_edges[i].head : i \in {j \in DOMAIN m_edges : m_edges[j].tail = n}}
        ELSE Step(reach[k - 1])
  IN  reach[Len(m_edges)]

Cyclic == {n \in m_nodes : n \in Downstream(n)}

\* The list a node is called from never has it before a node it takes input
\* from, however the instances were numbered.
Topological ==
  /\ IsInjective(order)
  /\ \A i \in DOMAIN order, j \in DOMAIN m_edges :
       m_edges[j].head = order[i]
         => \E k \in 1 .. i - 1 : order[k] = m_edges[j].tail

\* What is left out of the list, silently, is exactly what a cycle is or
\* feeds.
SortsTheAcyclic ==
  pc \in {"scan", "done"} =>
    Ordered = m_nodes \ (Cyclic \cup UNION {Downstream(n) : n \in Cyclic})

\* The wiring the configuration asks for: the last edge to name a port wins.
Planned(ports, PortOf(_)) ==
  [p \in ports |->
     LET naming == {i \in DOMAIN cfg : PortOf(cfg[i]) = p}
     IN  IF naming = {} THEN NoEdge
         ELSE CHOOSE i \in naming : \A j \in naming : j <= i]

PlannedIn  == Planned(InPort, HeadPort)
PlannedOut == Planned(OutPort, TailPort)

Flow == INSTANCE DataFlow WITH iedge <- PlannedIn, oedge <- PlannedOut

\* The whole application, from configure() to the return of execute(),
\* implements the Kahn network its configuration describes.
ImplementsFlow == Flow!FlowSpec

\* When execute() returns every sink has been given its whole stream, in whatever
\* order the edges are configured: sort_kahn() has listed every node the streams
\* pass through, and waiting for room on an output edge costs no delivery.
AppDelivered == pc = "done" => AllDelivered(wiring, got)

\* The application always comes to an end.
AppTermination == <>(pc \in {"done", "raised"})
=============================================================================
