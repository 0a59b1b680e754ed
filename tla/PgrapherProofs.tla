--------------------------- MODULE PgrapherProofs ---------------------------
(***************************************************************************)
(* Theorems about the whole Pgrapher application, for every configuration: *)
(* connect(), connected() and sort_kahn() bring the engine into a state    *)
(* the theorems of PgraphProofs are about, the order of the nodes is       *)
(* topological, and only what a cycle is or feeds is left out of it.       *)
(***************************************************************************)
EXTENDS Pgrapher, PgraphProofs, FiniteSetTheorems, WellFoundedInduction

-----------------------------------------------------------------------------
(* Lists of edges and of nodes.                                            *)

\* A configuration is a list of no more edges than there are names for.
LEMMA ConfigList ==
  ASSUME NEW c \in Configs
  PROVE  Len(c) \in Nat /\ Len(c) <= MaxEdge /\ DOMAIN c = 1 .. Len(c)
BY ConfigsAssumption

\* The edges connected so far are the first ones of the configuration.
LEMMA FirstEdges ==
  ASSUME NEW c \in Configs, NEW k \in 0 .. Len(c)
  PROVE  /\ DOMAIN SubSeq(c, 1, k) = 1 .. k
         /\ \A i \in 1 .. k : SubSeq(c, 1, k)[i] = c[i]
BY ConfigsAssumption

\* The factory adds the node it is asked for, unless it is there.
LEMMA FactoryAdds ==
  ASSUME NEW n \in Node, NEW ws \in Seq(Node), IsInjective(ws)
  PROVE  /\ Fac(n, ws) \in Seq(Node) /\ IsInjective(Fac(n, ws))
         /\ ToSet(Fac(n, ws)) = ToSet(ws) \cup {n}
<1>1. CASE n \in ToSet(ws)
  BY <1>1 DEF Fac
<1>2. CASE n \notin ToSet(ws)
  <2> DEFINE w == Append(ws, n)
  <2>1. /\ w \in Seq(Node) /\ DOMAIN w = 1 .. Len(ws) + 1 /\ Len(ws) \in Nat
        /\ \A i \in 1 .. Len(ws) : w[i] = ws[i]
        /\ w[Len(ws) + 1] = n /\ DOMAIN ws = 1 .. Len(ws)
    OBVIOUS
  <2>2. Fac(n, ws) = w
    BY <1>2 DEF Fac
  <2> HIDE DEF w
  <2>3. IsInjective(w)
    BY <1>2, <2>1 DEF IsInjective, ToSet
  <2>4. ToSet(w) = ToSet(ws) \cup {n}
    BY <2>1 DEF ToSet
  <2> QED BY <2>1, <2>2, <2>3, <2>4
<1> QED BY <1>1, <1>2

-----------------------------------------------------------------------------
(* The inductive invariant, in parts.                                      *)

\* The edges connected so far passed connect()'s checks, the nodes at their ends
\* are those a wrapper was made for, and a port refers to an edge that names it.
Built ==
  /\ cfg \in Configs /\ connected \in 0 .. Len(cfg)
  /\ \A i \in 1 .. connected : Connectable(cfg[i])
  /\ made \in Seq(Node) /\ IsInjective(made) /\ m_nodes = ToSet(made)
  /\ iedge \in [InPort -> Edge \cup {NoEdge}]
  /\ oedge \in [OutPort -> Edge \cup {NoEdge}]
  /\ \A p \in InPort : iedge[p] # NoEdge =>
       iedge[p] \in 1 .. connected /\ HeadPort(cfg[iedge[p]]) = p
  /\ \A p \in OutPort : oedge[p] # NoEdge =>
       oedge[p] \in 1 .. connected /\ TailPort(cfg[oedge[p]]) = p

\* The edges into h that do not come from S.
Into(h, S) == {i \in DOMAIN m_edges : m_edges[i].head = h /\ m_edges[i].tail \notin S}

\* The loop invariant of sort_kahn(): a node's count is that of its edges from
\* nodes not in the list, and the nodes that wait are the free ones not in it.
Counting ==
  /\ nincoming \in [Node -> Nat] /\ seeds \subseteq Node
  /\ pc = "sort" =>
       /\ \A n \in Node : nincoming[n] = Cardinality(Into(n, Ordered))
       /\ seeds = {n \in m_nodes \ Ordered : nincoming[n] = 0}

\* What every stage knows of the list.
Listed ==
  /\ order \in Seq(Node) /\ Ordered \subseteq m_nodes /\ Topological
  /\ pc \in {"configure", "configured"} => order = <<>>

\* What connected() has found out.
Accepted == pc \in {"configured", "sort", "scan", "done"} =>
              connected = Len(cfg) /\ \A n \in m_nodes : ~Disconnected(n)

\* No object moves before the execution, and its position is always in the list.
Staged ==
  /\ pc \in Stages
  /\ queue \in [Edge -> Seq(Token)] /\ got \in [Node -> Seq(Token)]
  /\ left \in [Node -> Nat] /\ \A n \in Node : left[n] <= Length[n]
  /\ pc \in {"configure", "configured", "sort"} => FlowInit /\ pos = 0
  /\ pos \in 0 .. Len(order) /\ (pc = "scan" => pos > 0)

\* A node is left out of the list only because of one that feeds it and is left
\* out, too.
LeftOut == pc \in {"scan", "done"} =>
             \A n \in m_nodes \ Ordered : Into(n, Ordered) # {}

AppInv == Built /\ Counting /\ Listed /\ Accepted /\ Staged /\ LeftOut

\* The nodes of the graph are nodes that have a wrapper.
LEMMA NodesOfGraph ==
  ASSUME Built
  PROVE  /\ DOMAIN m_edges = 1 .. connected
         /\ \A i \in 1 .. connected : m_edges[i] = cfg[i]
         /\ m_nodes \subseteq Node
         /\ \A n \in m_nodes : Category[n] \in Wrapped
<1>1. /\ DOMAIN m_edges = 1 .. connected
      /\ \A i \in 1 .. connected : m_edges[i] = cfg[i]
  BY FirstEdges DEF Built, m_edges
<1> QED BY <1>1 DEF Built, m_nodes, EndsOf, Connectable

\* The invariant has the types of the application.
LEMMA AppInvTypes ==
  ASSUME AppInv
  PROVE  AppTypeOK
<1>1. FlowTypeOK
  BY DEF AppInv, Built, Staged, FlowTypeOK
<1>2. \A n \in Ordered : Category[n] \in Wrapped
  BY NodesOfGraph DEF AppInv, Listed
<1> QED BY <1>1, <1>2 DEF AppInv, Built, Counting, Listed, Staged, AppTypeOK, ExecTypeOK

\* What does not change keeps its part of the invariant.
LEMMA BuiltKept ==
  ASSUME Built, UNCHANGED <<wiring, cfg, connected, made>>
  PROVE  Built' /\ UNCHANGED <<m_edges, m_nodes>>
BY DEF Built, wiring, m_nodes, m_edges, EndsOf, Connectable, HeadPort, TailPort

-----------------------------------------------------------------------------
(* configure()                                                             *)

\* connect() keeps what is known of edges, wrappers and ports.
LEMMA ConnectBuilds ==
  ASSUME Built, Connect
  PROVE  Built'
<1> DEFINE e == cfg[connected + 1]
           k == connected + 1
<1>1. /\ cfg' = cfg /\ connected' = k /\ cfg \in Configs /\ k \in 1 .. Len(cfg)
      /\ connected \in Nat /\ k \in Edge /\ Len(cfg) \in Nat
  BY ConfigList, DfpAssumption DEF Built, Connect, Edge
<1>2. /\ Connectable(e) /\ e.tail \in Node /\ e.head \in Node
      /\ TailPort(e) \in OutPort /\ HeadPort(e) \in InPort
      /\ \A i \in 1 .. k : Connectable(cfg[i])
  <2>1. Connectable(e)
    BY DEF Connect
  <2>2. \A i \in 1 .. k : Connectable(cfg[i])
    BY <1>1, <2>1 DEF Built
  <2> QED BY <2>1, <2>2 DEF Connectable, TailPort, HeadPort, InPort, OutPort
<1>3. /\ made' \in Seq(Node) /\ IsInjective(made')
      /\ ToSet(made') = ToSet(made) \cup {e.tail, e.head}
  <2> DEFINE m1 == Fac(e.tail, made)
             m2 == Fac(e.head, made)
  <2>1. /\ m1 \in Seq(Node) /\ IsInjective(m1) /\ ToSet(m1) = ToSet(made) \cup {e.tail}
        /\ m2 \in Seq(Node) /\ IsInjective(m2) /\ ToSet(m2) = ToSet(made) \cup {e.head}
    BY <1>2, FactoryAdds DEF Built
  <2>2. made' \in {Fac(e.head, m1), Fac(e.tail, m2)}
    BY DEF Connect
  <2> HIDE DEF m1, m2
  <2> QED BY <1>2, <2>1, <2>2, FactoryAdds
<1>4. m_nodes' = m_nodes \cup {e.tail, e.head}
  <2>1. /\ DOMAIN m_edges = 1 .. connected /\ DOMAIN m_edges' = 1 .. k
        /\ \A i \in 1 .. connected : m_edges[i] = cfg[i]
        /\ \A i \in 1 .. k : m_edges'[i] = cfg[i]
    BY <1>1, FirstEdges DEF m_edges, Built
  <2> QED BY <1>1, <2>1 DEF m_nodes, EndsOf
<1>5. /\ iedge' = [iedge EXCEPT ![HeadPort(e)] = k]
      /\ oedge' = [oedge EXCEPT ![TailPort(e)] = k]
  BY DEF Connect
<1> HIDE DEF e
<1>6. /\ iedge' \in [InPort -> Edge \cup {NoEdge}]
      /\ oedge' \in [OutPort -> Edge \cup {NoEdge}]
  BY <1>1, <1>2, <1>5 DEF Built
<1>7. ASSUME NEW p \in InPort, iedge'[p] # NoEdge
      PROVE  iedge'[p] \in 1 .. k /\ HeadPort(cfg[iedge'[p]]) = p
  <2>1. CASE p = HeadPort(e)
    BY <1>1, <1>2, <1>5, <2>1 DEF Built, e
  <2>2. CASE p # HeadPort(e)
    BY <1>1, <1>2, <1>5, <1>7, <2>2 DEF Built
  <2> QED BY <2>1, <2>2
<1>8. ASSUME NEW p \in OutPort, oedge'[p] # NoEdge
      PROVE  oedge'[p] \in 1 .. k /\ TailPort(cfg[oedge'[p]]) = p
  <2>1. CASE p = TailPort(e)
    BY <1>1, <1>2, <1>5, <2>1 DEF Built, e
  <2>2. CASE p # TailPort(e)
    BY <1>1, <1>2, <1>5, <1>8, <2>2 DEF Built
  <2> QED BY <2>1, <2>2
<1>9. \A i \in 1 .. connected' : Connectable(cfg[i])'
  BY <1>1, <1>2 DEF Connectable
<1> QED
  BY <1>1, <1>3, <1>4, <1>6, <1>7, <1>8, <1>9 DEF Built, HeadPort, TailPort

\* configure() keeps the invariant, whatever it is given.
LEMMA ConfigureStep ==
  ASSUME AppInv, Configure
  PROVE  AppInv'
<1>1. CASE Connect
  <2>1. Built'
    BY <1>1, ConnectBuilds DEF AppInv
  <2>2. pc' = "configure" /\ order' = <<>> /\ UNCHANGED <<data, execution, nincoming, seeds>>
    BY <1>1 DEF Connect, AppInv, Listed, execution
  <2>3. Listed'
    BY <2>2 DEF Listed, Topological, Ordered, IsInjective
  <2>4. Staged'
    BY <1>1, <2>2 DEF AppInv, Staged, FlowInit, data, execution, Connect
  <2> QED BY <2>1, <2>2, <2>3, <2>4 DEF AppInv, Counting, Accepted, LeftOut
<1>2. CASE ConfigureRaises \/ CheckConnected
  <2>1. UNCHANGED <<wiring, data, order, pos, building>> /\ pc = "configure" /\ order = <<>>
    BY <1>2 DEF ConfigureRaises, CheckConnected, AppInv, Listed
  <2>2. \/ pc' = "raised"
        \/ pc' = "configured" /\ connected = Len(cfg) /\ \A n \in m_nodes : ~Disconnected(n)
    BY <1>2 DEF ConfigureRaises, CheckConnected
  <2>3. Built' /\ UNCHANGED <<m_edges, m_nodes>>
    BY <2>1, BuiltKept DEF AppInv, building
  <2>4. Listed'
    BY <2>1, <2>2 DEF AppInv, Listed, Topological, Ordered, IsInjective
  <2>5. Staged'
    BY <2>1, <2>2 DEF AppInv, Staged, FlowInit, data, Stages, PC
  <2>6. Accepted'
    BY <2>1, <2>2, <2>3 DEF Accepted, Disconnected, Inputs, Outputs, Plugged, wiring, building
  <2> QED BY <2>1, <2>2, <2>3, <2>4, <2>5, <2>6 DEF AppInv, Counting, LeftOut, building
<1> QED BY <1>1, <1>2 DEF Configure

-----------------------------------------------------------------------------
(* sort_kahn()                                                             *)

\* The edges into a node are finitely many.
LEMMA FiniteEdges ==
  ASSUME Built, NEW h, NEW S
  PROVE  IsFiniteSet(Into(h, S)) /\ Cardinality(Into(h, S)) \in Nat
<1>1. DOMAIN m_edges = 1 .. connected /\ connected \in Int
  BY NodesOfGraph, ConfigList DEF Built
<1>2. IsFiniteSet(DOMAIN m_edges)
  BY <1>1, FS_Interval
<1>3. Into(h, S) \subseteq DOMAIN m_edges
  BY DEF Into
<1> QED BY <1>2, <1>3, FS_Subset, FS_CardinalityType

\* The counts begin with the edges from all nodes.
LEMMA SortInitStep ==
  ASSUME AppInv, SortInit
  PROVE  AppInv'
<1>1. /\ UNCHANGED <<wiring, data, order, pos, cfg, connected, made>>
      /\ pc = "configured" /\ pc' = "sort" /\ order = <<>>
      /\ nincoming' = [n \in Node |-> Incoming(n)]
      /\ seeds' = {n \in m_nodes : nincoming'[n] = 0}
  BY DEF SortInit, AppInv, Listed
<1>2. Built' /\ UNCHANGED <<m_edges, m_nodes>> /\ m_nodes \subseteq Node
  BY <1>1, BuiltKept, NodesOfGraph DEF AppInv
<1>3. Ordered = {} /\ Ordered' = {}
  BY <1>1 DEF Ordered
<1>4. ASSUME NEW n \in Node
      PROVE  nincoming'[n] = Cardinality(Into(n, {})) /\ nincoming'[n] \in Nat
  <2>1. Into(n, {}) = {i \in DOMAIN m_edges : m_edges[i].head = n}
    BY DEF Into
  <2>2. nincoming'[n] = Cardinality({i \in DOMAIN m_edges : m_edges[i].head = n})
    BY <1>1 DEF Incoming
  <2> QED BY <2>1, <2>2, FiniteEdges DEF AppInv
<1>5. \A n : Into(n, Ordered)' = Into(n, {})
  BY <1>2, <1>3 DEF Into
<1>6. Counting'
  <2>1. nincoming' \in [Node -> Nat]
    BY <1>1, <1>4
  <2> QED BY <1>1, <1>2, <1>3, <1>4, <1>5, <2>1 DEF Counting
<1>7. Listed'
  BY <1>1, <1>2 DEF AppInv, Listed, Topological, Ordered, IsInjective
<1>8. Staged'
  BY <1>1 DEF AppInv, Staged, FlowInit, data, Stages
<1>9. Accepted'
  BY <1>1, <1>2 DEF AppInv, Accepted, Disconnected, Inputs, Outputs, Plugged, wiring
<1> QED BY <1>1, <1>2, <1>6, <1>7, <1>8, <1>9 DEF AppInv, LeftOut

\* Among the nodes that wait one was made first.
LEMMA FirstSeedWaits ==
  ASSUME Built, seeds \subseteq m_nodes, seeds # {}
  PROVE  FirstSeed \in seeds
<1>1. ASSUME NEW n \in m_nodes PROVE Instance(n) \in Nat
  <2>1. \E i \in DOMAIN made : made[i] = n
    BY DEF Built, ToSet
  <2>2. Instance(n) \in DOMAIN made
    BY <2>1 DEF Instance
  <2> QED BY <2>2 DEF Built
<1> DEFINE numbers == {Instance(n) : n \in seeds}
<1>2. numbers \subseteq Nat /\ numbers # {}
  BY <1>1
<1>3. PICK m \in numbers : \A k \in numbers : m <= k
  BY <1>2, LeastNatural
<1>4. \E n \in seeds : \A s \in seeds : Instance(n) <= Instance(s)
  BY <1>3
<1> QED BY <1>4 DEF FirstSeed

\* A node leaves the count of each node it feeds once per edge.
LEMMA CountDrops ==
  ASSUME Built, NEW f, NEW h, NEW S, f \notin S
  PROVE  /\ Multiplicity(f, h) \in Nat
         /\ Cardinality(Into(h, S \cup {f})) = Cardinality(Into(h, S)) - Multiplicity(f, h)
<1> DEFINE From == {i \in DOMAIN m_edges : m_edges[i].tail = f /\ m_edges[i].head = h}
<1>1. /\ From \subseteq Into(h, S) /\ Multiplicity(f, h) = Cardinality(From)
      /\ Into(h, S \cup {f}) = Into(h, S) \ From /\ Into(h, S) \cap From = From
  BY DEF Into, Multiplicity
<1>2. IsFiniteSet(Into(h, S))
  BY FiniteEdges
<1>3. IsFiniteSet(From) /\ Cardinality(From) \in Nat
  BY <1>1, <1>2, FS_Subset, FS_CardinalityType
<1> HIDE DEF From
<1>4. Cardinality(Into(h, S) \ From) = Cardinality(Into(h, S)) - Cardinality(From)
  BY <1>1, <1>2, <1>3, FS_Difference
<1> QED BY <1>1, <1>3, <1>4

\* Taking the first of the nodes that wait keeps the counts and the order.
LEMMA SortPopStep ==
  ASSUME AppInv, SortPop
  PROVE  AppInv'
<1> DEFINE f == FirstSeed
<1>1. /\ UNCHANGED <<wiring, data, pos, pc, cfg, connected, made>> /\ pc = "sort"
      /\ order' = Append(order, f)
      /\ nincoming' = [h \in Node |-> nincoming[h] - Multiplicity(f, h)]
      /\ seeds' = (seeds \ {f}) \cup Freed
  BY DEF SortPop
<1>2. /\ Built' /\ UNCHANGED <<m_edges, m_nodes>> /\ m_nodes \subseteq Node
      /\ DOMAIN m_edges = 1 .. connected
  BY <1>1, BuiltKept, NodesOfGraph DEF AppInv
<1>3. /\ \A n \in Node : nincoming[n] = Cardinality(Into(n, Ordered)) /\ nincoming[n] \in Nat
      /\ seeds = {n \in m_nodes \ Ordered : nincoming[n] = 0}
  BY <1>1 DEF AppInv, Counting
<1>4. f \in seeds /\ f \in Node /\ f \notin Ordered /\ f \in m_nodes /\ nincoming[f] = 0
  BY <1>2, <1>3, FirstSeedWaits DEF AppInv, SortPop
<1>5. Freed = {n \in Node : nincoming[n] \in 1 .. Multiplicity(f, n)}
  BY DEF Freed
<1> HIDE DEF f
<1>6. /\ order \in Seq(Node) /\ order' \in Seq(Node) /\ Len(order') = Len(order) + 1
      /\ \A i \in 1 .. Len(order) : order'[i] = order[i]
      /\ order'[Len(order) + 1] = f /\ Len(order) \in Nat
  BY <1>1, <1>4 DEF AppInv, Listed
<1>7. Ordered' = Ordered \cup {f}
  BY <1>6 DEF Ordered
<1>8. ASSUME NEW n, NEW S PROVE Into(n, S)' = Into(n, S')
  BY <1>2 DEF Into
<1>9. ASSUME NEW n \in Node
      PROVE  /\ nincoming'[n] = Cardinality(Into(n, Ordered'))
             /\ nincoming'[n] = nincoming[n] - Multiplicity(f, n)
             /\ nincoming'[n] \in Nat /\ Multiplicity(f, n) \in Nat
  <2>1. Cardinality(Into(n, Ordered \cup {f})) = nincoming[n] - Multiplicity(f, n)
    BY <1>3, <1>4, CountDrops DEF AppInv
  <2>2. Cardinality(Into(n, Ordered \cup {f})) \in Nat /\ Multiplicity(f, n) \in Nat
    BY <1>4, FiniteEdges, CountDrops DEF AppInv
  <2> QED BY <1>1, <1>7, <2>1, <2>2
<1>10. ASSUME NEW n \in Node, NEW S PROVE Into(n, S) = {} <=> Cardinality(Into(n, S)) = 0
  BY FiniteEdges, FS_EmptySet DEF AppInv
<1>11. ASSUME NEW n \in Ordered PROVE nincoming[n] = 0
  <2>1. PICK i \in DOMAIN order : order[i] = n
    BY DEF Ordered
  <2>2. \A j \in DOMAIN m_edges : m_edges[j].head = n => m_edges[j].tail \in Ordered
    BY <1>6, <2>1 DEF AppInv, Listed, Topological, Ordered
  <2>3. Into(n, Ordered) = {} /\ n \in Node
    BY <2>2, <1>6 DEF Into, Ordered
  <2> QED BY <1>3, <1>10, <2>3
<1>12. ASSUME NEW n \in Freed
       PROVE  n \in m_nodes \ Ordered' /\ nincoming'[n] = 0
  <2>1. n \in Node /\ nincoming[n] \in 1 .. Multiplicity(f, n)
    BY <1>5
  <2>2. nincoming'[n] = 0 /\ n \notin Ordered /\ n # f /\ Multiplicity(f, n) # 0
    BY <1>3, <1>4, <1>9, <1>11, <2>1
  <2>3. n \in m_nodes
    BY <2>2, FS_EmptySet DEF Multiplicity, m_nodes, EndsOf
  <2> QED BY <1>7, <2>2, <2>3
<1>13. seeds' = {n \in m_nodes \ Ordered' : nincoming'[n] = 0}
  <2>1. ASSUME NEW n \in m_nodes \ Ordered', nincoming'[n] = 0 PROVE n \in seeds'
    BY <1>1, <1>2, <1>3, <1>5, <1>7, <1>9, <2>1
  <2>2. ASSUME NEW n \in seeds \ {f} PROVE n \in m_nodes \ Ordered' /\ nincoming'[n] = 0
    BY <1>2, <1>3, <1>7, <1>9
  <2> QED BY <1>1, <1>2, <1>12, <2>1, <2>2
<1>14. Counting'
  <2>1. nincoming' \in [Node -> Nat] /\ seeds' \subseteq Node
    BY <1>1, <1>2, <1>9, <1>13
  <2> QED BY <1>1, <1>2, <1>8, <1>9, <1>13, <2>1 DEF Counting
<1>15. Topological'
  <2>1. IsInjective(order) /\ DOMAIN order = 1 .. Len(order) /\ DOMAIN order' = 1 .. Len(order) + 1
    BY <1>6 DEF AppInv, Listed, Topological
  <2>2. IsInjective(order')
    BY <1>4, <1>6, <2>1 DEF IsInjective, Ordered
  <2>3. ASSUME NEW i \in DOMAIN order', NEW j \in DOMAIN m_edges, m_edges[j].head = order'[i]
        PROVE  \E k \in 1 .. i - 1 : order'[k] = m_edges[j].tail
    <3>1. CASE i \in 1 .. Len(order)
      <4>1. PICK k \in 1 .. i - 1 : order[k] = m_edges[j].tail
        BY <1>6, <2>1, <2>3, <3>1 DEF AppInv, Listed, Topological
      <4> QED BY <1>6, <3>1, <4>1
    <3>2. CASE i = Len(order) + 1
      <4>1. m_edges[j].head = f /\ Into(f, Ordered) = {}
        BY <1>3, <1>4, <1>6, <1>10, <2>3, <3>2
      <4>2. m_edges[j].tail \in Ordered
        BY <4>1 DEF Into
      <4> QED BY <1>6, <2>1, <3>2, <4>2 DEF Ordered
    <3> QED BY <1>6, <2>1, <3>1, <3>2
  <2> QED BY <1>2, <2>2, <2>3 DEF Topological
<1>16. Listed'
  BY <1>1, <1>2, <1>4, <1>6, <1>7, <1>15 DEF AppInv, Listed
<1>17. Staged'
  <2>1. pos = 0 /\ FlowInit
    BY <1>1 DEF AppInv, Staged
  <2> QED BY <1>1, <1>6, <2>1 DEF AppInv, Staged, FlowInit, data
<1>18. Accepted'
  BY <1>1, <1>2 DEF AppInv, Accepted, Disconnected, Inputs, Outputs, Plugged, wiring
<1> QED BY <1>1, <1>2, <1>14, <1>16, <1>17, <1>18 DEF AppInv, LeftOut

\* The loop has ended: what is not in the list still has an edge from without.
LEMMA SortDoneStep ==
  ASSUME AppInv, SortDone
  PROVE  AppInv'
<1>1. /\ UNCHANGED <<wiring, data, order, building>> /\ pc = "sort" /\ seeds = {}
      /\ pos' = Len(order) /\ pc' \in {"done", "scan"} /\ (pc' = "scan" => order # <<>>)
  BY DEF SortDone
<1>2. Built' /\ UNCHANGED <<m_edges, m_nodes>> /\ UNCHANGED <<Ordered, nincoming, seeds>>
  BY <1>1, BuiltKept DEF AppInv, building, Ordered
<1>3. LeftOut'
  <2>1. ASSUME NEW n \in m_nodes \ Ordered PROVE Into(n, Ordered) # {}
    <3>1. n \in Node /\ nincoming[n] = Cardinality(Into(n, Ordered)) /\ nincoming[n] # 0
      BY <1>1, NodesOfGraph DEF AppInv, Counting
    <3> QED BY <3>1, FS_EmptySet
  <2>2. \A n, S : Into(n, S)' = Into(n, S')
    BY <1>2 DEF Into
  <2> QED BY <1>2, <2>1, <2>2 DEF LeftOut
<1>4. Staged'
  <2>1. Len(order) \in Nat /\ (order # <<>> => Len(order) > 0)
    BY DEF AppInv, Listed
  <2> QED BY <1>1, <2>1 DEF AppInv, Staged, data, Stages, PC
<1>5. Listed'
  BY <1>1, <1>2 DEF AppInv, Listed, Topological
<1>6. Accepted'
  BY <1>1, <1>2 DEF AppInv, Accepted, Disconnected, Inputs, Outputs, Plugged, wiring, building
<1>7. Counting'
  BY <1>1, <1>2 DEF AppInv, Counting
<1> QED BY <1>2, <1>3, <1>4, <1>5, <1>6, <1>7 DEF AppInv

-----------------------------------------------------------------------------
(* execute()                                                               *)

\* The list of a graph that connected() has accepted is one PgraphProofs is about.
LEMMA AcceptedIsSound ==
  ASSUME AppInv, pc \in {"scan", "done"}
  PROVE  Sound
<1>1. ASSUME NEW n \in Ordered
      PROVE  Plugged(iedge, Inputs(n)) /\ Plugged(oedge, Outputs(n))
  BY DEF AppInv, Listed, Accepted, Disconnected
<1>2. ASSUME NEW p \in OutPort, NEW r \in OutPort, oedge[p] = oedge[r], oedge[p] # NoEdge
      PROVE  p = r
  BY <1>2 DEF AppInv, Built
<1>3. TypeOK
  BY AppInvTypes DEF AppTypeOK, TypeOK, AppInv, Staged, PC
<1> QED BY <1>1, <1>2, <1>3 DEF Sound, WellPlugged

\* Calls of wrappers keep the invariant and raise nothing.
LEMMA ExecuteStep ==
  ASSUME AppInv, Execute
  PROVE  AppInv' /\ pc' # "raised"
<1>1. pc = "scan" /\ CallNode /\ UNCHANGED building
  BY DEF Execute, CallNode
<1>2. Sound
  BY <1>1, AcceptedIsSound
<1>3. Sound' /\ UNCHANGED <<wiring, order>>
  BY <1>1, <1>2, SoundStep, OrderKept DEF Next, Sound, NoThrow
<1>4. pc' \in {"scan", "done"}
  BY <1>1, <1>2, CallEffect DEF Sound, NoThrow, Hit, Miss
<1>5. Built' /\ UNCHANGED <<m_edges, m_nodes, Ordered>>
  BY <1>1, <1>3, BuiltKept DEF AppInv, building, Ordered
<1>6. Staged'
  BY <1>3, <1>4 DEF Sound, TypeOK, ExecTypeOK, FlowTypeOK, Staged, Stages, PC
<1>7. Listed'
  BY <1>1, <1>3, <1>4, <1>5 DEF AppInv, Listed, Topological
<1>8. Accepted'
  BY <1>1, <1>3, <1>5 DEF AppInv, Accepted, Disconnected, Inputs, Outputs, Plugged, wiring, building
<1>9. Counting' /\ LeftOut'
  <2>1. \A n, S : Into(n, S)' = Into(n, S')
    BY <1>5 DEF Into
  <2>2. Counting'
    BY <1>1, <1>4 DEF AppInv, Counting, building
  <2>3. LeftOut'
    BY <1>1, <1>5, <2>1 DEF AppInv, LeftOut
  <2> QED BY <2>2, <2>3
<1> QED BY <1>4, <1>5, <1>6, <1>7, <1>8, <1>9 DEF AppInv

\* Every step keeps the invariant.
LEMMA AppStep ==
  ASSUME AppInv, [AppNext]_allvars
  PROVE  AppInv'
<1>1. CASE UNCHANGED allvars
  <2>1. UNCHANGED <<wiring, data, execution, building, m_edges, m_nodes, Ordered>> /\ Built'
    BY <1>1, BuiltKept DEF allvars, vars, AppInv, building, Ordered, execution
  <2>2. \A n, S : Into(n, S)' = Into(n, S')
    BY <2>1 DEF Into
  <2>3. Listed' /\ Staged'
    BY <2>1 DEF AppInv, Listed, Topological, Staged, FlowInit, execution, data
  <2>4. Counting' /\ LeftOut'
    BY <2>1, <2>2 DEF AppInv, Counting, LeftOut, execution, building
  <2>5. Accepted'
    BY <2>1 DEF AppInv, Accepted, Disconnected, Inputs, Outputs, Plugged, wiring, execution, building
  <2> QED BY <2>1, <2>3, <2>4, <2>5 DEF AppInv
<1>2. CASE Ended
  BY <1>1, <1>2 DEF Ended, Terminated, allvars
<1> QED
  BY <1>1, <1>2, ConfigureStep, SortInitStep, SortPopStep, SortDoneStep, ExecuteStep
     DEF AppNext, SortKahn

\* And the application starts with it.
LEMMA AppStart == AppInit => AppInv
<1> SUFFICES ASSUME AppInit PROVE AppInv
  OBVIOUS
<1>1. DOMAIN m_edges = {} /\ order = <<>> /\ made = <<>> /\ connected = 0 /\ cfg \in Configs
  BY FirstEdges, ConfigList DEF AppInit, m_edges
<1>2. Built
  <2>1. m_nodes = ToSet(made) /\ IsInjective(made) /\ made \in Seq(Node)
    BY <1>1 DEF m_nodes, EndsOf, ToSet, IsInjective
  <2> QED BY <1>1, <2>1, ConfigList DEF AppInit, Built
<1>3. Listed
  BY <1>1 DEF AppInit, Listed, Ordered, Topological, IsInjective
<1>4. Staged
  BY DfpAssumption DEF AppInit, Staged, FlowInit, Stages
<1> QED BY <1>1, <1>2, <1>3, <1>4 DEF AppInit, AppInv, Counting, Accepted, LeftOut

LEMMA AppInvariant == AppSpec => []AppInv
<1>1. AppInv /\ [AppNext]_allvars => AppInv'
  BY AppStep
<1> QED BY <1>1, AppStart, PTL DEF AppSpec

-----------------------------------------------------------------------------
(* What follows.                                                           *)

\* The application keeps its types: m_nodes are the nodes a wrapper was made for,
\* each once, and the counts of sort_kahn() never go below zero.
THEOREM AppTypeCorrect == AppSpec => []AppTypeOK
<1>1. AppInv => AppTypeOK
  BY AppInvTypes
<1> QED BY <1>1, AppInvariant, PTL

\* However a graph is configured, and in whatever order its wrappers are made, no
\* node is in the list of sort_kahn() before one that feeds it, or twice.
THEOREM SortIsTopological == AppSpec => []Topological
<1>1. AppInv => Topological
  BY DEF AppInv, Listed
<1> QED BY <1>1, AppInvariant, PTL

\* execute() only ever calls nodes whose ports all have an edge.
THEOREM OnlyPluggedNodes == AppSpec => []Runnable
<1>1. AppInv => Runnable
  BY AcceptedIsSound DEF Sound, WellPlugged, Runnable
<1> QED BY <1>1, AppInvariant, PTL

\* Before the execution there is no object on any edge.
LEMMA NothingMoves ==
  ASSUME AppInv, Configure \/ SortKahn
  PROVE  UNCHANGED data /\ FlowInit
BY DEF AppInv, Staged, Configure, SortKahn, Connect, ConfigureRaises, CheckConnected,
       SortInit, SortPop, SortDone

\* What is being executed has nothing but calls of wrappers, and what is not has
\* nothing but stages before.
LEMMA StepKinds ==
  ASSUME [AppNext]_allvars
  PROVE  \/ Configure \/ SortKahn
         \/ Execute /\ [Next]_vars
         \/ UNCHANGED allvars
BY DEF AppNext, Execute, Ended, Terminated, Next, allvars

\* An exception may come out of configure(), but never out of execute().
THEOREM ExecutionRaisesNothing == AppSpec => [][pc = "scan" => pc' # "raised"]_allvars
<1>1. AppInv /\ [AppNext]_allvars => [pc = "scan" => pc' # "raised"]_allvars
  <2> SUFFICES ASSUME AppInv, [AppNext]_allvars, pc = "scan" PROVE pc' # "raised"
    OBVIOUS
  <2>1. CASE Configure \/ SortKahn
    BY <2>1 DEF Configure, Connect, ConfigureRaises, CheckConnected, SortKahn, SortInit,
                SortPop, SortDone
  <2>2. CASE UNCHANGED allvars
    BY <2>2 DEF allvars, vars, execution
  <2> QED BY <2>1, <2>2, StepKinds, ExecuteStep
<1> QED BY <1>1, AppInvariant, PTL DEF AppSpec

\* Whatever the configuration, also with ports named twice, what a source, function
\* or fan-in delivers is alone on its edge.
THEOREM AppLowMemory == AppSpec => []OneSlot
<1>1. AppInit => OneSlot
  BY DEF AppInit, FlowInit, OneSlot, Contents
<1>2. AppInv /\ OneSlot /\ [AppNext]_allvars => OneSlot'
  <2> SUFFICES ASSUME AppInv, OneSlot, [AppNext]_allvars PROVE OneSlot'
    OBVIOUS
  <2>1. CASE Configure \/ SortKahn
    <3>1. queue' = [e \in Edge |-> <<>>] /\ oedge' \in [OutPort -> Edge \cup {NoEdge}]
      BY <2>1, NothingMoves, AppStep DEF FlowInit, data, AppInv, Built
    <3> QED BY <3>1 DEF OneSlot, Contents
  <2>2. CASE Execute
    <3>1. Sound /\ CallNode /\ order[pos] \in Node /\ UNCHANGED wiring
      BY <2>2, AcceptedIsSound, CurrentNode DEF Execute, CallNode, Sound
    <3>2. CASE UNCHANGED data
      BY <3>1, <3>2 DEF OneSlot, Contents, wiring, data
    <3>3. CASE Fire(order[pos]) /\ Callable(order[pos])
      BY <3>1, <3>3, OneSlotStep DEF OneSlot, Waits
    <3> QED BY <3>1, <3>2, <3>3, CallEffect DEF Sound, NoThrow
  <2>3. CASE UNCHANGED allvars
    BY <2>3 DEF OneSlot, Contents, allvars, vars, wiring, data
  <2> QED BY <2>1, <2>2, <2>3, StepKinds
<1> QED BY <1>1, <1>2, AppInvariant, PTL DEF AppSpec

\* If no body but a source's returns false, the application ends its execution only
\* when no node could do anything.
THEOREM AppQuiescence ==
  ASSUME NoRefusal
  PROVE  AppSpec => []Quiescent
<1> DEFINE Seen == pc \in {"scan", "done"} => Visited
<1>1. AppInit => Seen
  BY DEF AppInit
<1>2. AppInv /\ Seen /\ [AppNext]_allvars => Seen'
  <2> SUFFICES ASSUME AppInv, Seen, [AppNext]_allvars PROVE Seen'
    OBVIOUS
  <2>1. CASE Configure \/ SortInit \/ SortPop
    BY <2>1 DEF Configure, Connect, ConfigureRaises, CheckConnected, SortInit, SortPop, execution
  <2>2. CASE SortDone
    <3>1. Len(order) \in Nat /\ order' = order /\ pos' = Len(order)
          /\ (pc' = "done" => Len(order) = 0)
      BY <2>2 DEF SortDone, AppInv, Listed
    <3> QED BY <3>1 DEF Visited
  <2>3. CASE Execute
    BY <2>3, AcceptedIsSound, VisitedStep, StepKinds DEF Execute, CallNode, Next, Sound, NoThrow
  <2>4. CASE UNCHANGED allvars
    BY <2>4 DEF allvars, vars, wiring, data, execution, Visited, Stuck, Callable, OutEmpty,
         SomeOutEmpty, InFull, Contents, Inputs, Outputs
  <2> QED BY <2>1, <2>2, <2>3, <2>4, StepKinds DEF SortKahn
<1>3. Seen => Quiescent
  BY DEF Visited, Quiescent, Ordered
<1> QED BY <1>1, <1>2, <1>3, AppInvariant, PTL DEF AppSpec

-----------------------------------------------------------------------------
(* The application implements the network its configuration describes.     *)

\* A port refers to the last of the connected edges that name it.
LastIn(p) ==
  IF \E i \in 1 .. connected : HeadPort(cfg[i]) = p
  THEN /\ iedge[p] \in 1 .. connected /\ HeadPort(cfg[iedge[p]]) = p
       /\ \A j \in 1 .. connected : HeadPort(cfg[j]) = p => j <= iedge[p]
  ELSE iedge[p] = NoEdge
LastOut(p) ==
  IF \E i \in 1 .. connected : TailPort(cfg[i]) = p
  THEN /\ oedge[p] \in 1 .. connected /\ TailPort(cfg[oedge[p]]) = p
       /\ \A j \in 1 .. connected : TailPort(cfg[j]) = p => j <= oedge[p]
  ELSE oedge[p] = NoEdge
LastWins == (\A p \in InPort : LastIn(p)) /\ (\A p \in OutPort : LastOut(p))

\* connect() gives both ports of an edge its number, which is the largest so far.
LEMMA LastWinsStep ==
  ASSUME AppInv, LastWins, [AppNext]_allvars
  PROVE  LastWins'
<1>1. CASE Connect
  <2> DEFINE k == connected + 1
             e == cfg[k]
  <2>1. /\ cfg' = cfg /\ connected' = k /\ connected \in Nat
        /\ iedge' = [iedge EXCEPT ![HeadPort(e)] = k]
        /\ oedge' = [oedge EXCEPT ![TailPort(e)] = k]
        /\ iedge \in [InPort -> Edge \cup {NoEdge}] /\ oedge \in [OutPort -> Edge \cup {NoEdge}]
    BY <1>1, ConfigList DEF Connect, AppInv, Built
  <2>2. \A i \in 1 .. k : i = k \/ i \in 1 .. connected
    BY <2>1
  <2>3. ASSUME NEW p \in InPort PROVE LastIn(p)'
    <3>1. CASE p = HeadPort(e)
      <4>1. iedge'[p] = k
        BY <2>1, <3>1
      <4> QED BY <2>1, <2>2, <3>1, <4>1 DEF LastIn, HeadPort
    <3>2. CASE p # HeadPort(e)
      <4>1. iedge'[p] = iedge[p] /\ LastIn(p)
        BY <2>1, <3>2 DEF LastWins
      <4> HIDE DEF e
      <4>2. \A i \in 1 .. k : HeadPort(cfg[i]) = p => i \in 1 .. connected
        BY <2>2, <3>2 DEF e
      <4> QED BY <2>1, <2>2, <4>1, <4>2 DEF LastIn, HeadPort
    <3> QED BY <3>1, <3>2
  <2>4. ASSUME NEW p \in OutPort PROVE LastOut(p)'
    <3>1. CASE p = TailPort(e)
      <4>1. oedge'[p] = k
        BY <2>1, <3>1
      <4> QED BY <2>1, <2>2, <3>1, <4>1 DEF LastOut, TailPort
    <3>2. CASE p # TailPort(e)
      <4>1. oedge'[p] = oedge[p] /\ LastOut(p)
        BY <2>1, <3>2 DEF LastWins
      <4> HIDE DEF e
      <4>2. \A i \in 1 .. k : TailPort(cfg[i]) = p => i \in 1 .. connected
        BY <2>2, <3>2 DEF e
      <4> QED BY <2>1, <2>2, <4>1, <4>2 DEF LastOut, TailPort
    <3> QED BY <3>1, <3>2
  <2> QED BY <2>3, <2>4 DEF LastWins
<1>2. CASE UNCHANGED <<wiring, cfg, connected>>
  BY <1>2 DEF LastWins, LastIn, LastOut, wiring, HeadPort, TailPort
<1>3. CASE \/ ConfigureRaises \/ CheckConnected \/ SortKahn \/ Execute
  BY <1>2, <1>3 DEF ConfigureRaises, CheckConnected, SortKahn, SortInit, SortPop, SortDone,
       Execute, CallNode, building
<1> QED BY <1>1, <1>2, <1>3, StepKinds DEF Configure, allvars, vars, building

\* Before any edge is connected no port is wired.
LEMMA LastWinsStart == AppInit => LastWins
<1> SUFFICES ASSUME AppInit PROVE LastWins
  OBVIOUS
<1>1. 1 .. connected = {}
  BY DEF AppInit
<1> QED BY <1>1 DEF AppInit, LastWins, LastIn, LastOut

\* The greatest of some numbers is what CHOOSE finds.
LEMMA GreatestIs ==
  ASSUME NEW S, S \subseteq Nat, NEW m \in S, \A j \in S : j <= m
  PROVE  (CHOOSE i \in S : \A j \in S : j <= i) = m
<1> DEFINE c == CHOOSE i \in S : \A j \in S : j <= i
<1>1. c \in S /\ \A j \in S : j <= c
  OBVIOUS
<1>2. c <= m /\ m <= c /\ c \in Nat /\ m \in Nat
  BY <1>1
<1> QED BY <1>2

\* When all edges are connected the ports are wired as planned.
LEMMA WiredAsPlanned ==
  ASSUME AppInv, LastWins, connected = Len(cfg)
  PROVE  PlannedIn = iedge /\ PlannedOut = oedge
<1>1. DOMAIN cfg = 1 .. connected /\ connected \in Nat
  BY ConfigList DEF AppInv, Built
<1>2. iedge \in [InPort -> Edge \cup {NoEdge}] /\ oedge \in [OutPort -> Edge \cup {NoEdge}]
  BY DEF AppInv, Built
<1>3. ASSUME NEW p \in InPort PROVE PlannedIn[p] = iedge[p]
  <2> DEFINE naming == {i \in DOMAIN cfg : HeadPort(cfg[i]) = p}
  <2>1. PlannedIn[p] = IF naming = {} THEN NoEdge
                       ELSE CHOOSE i \in naming : \A j \in naming : j <= i
    BY DEF PlannedIn, Planned
  <2>2. LastIn(p)
    BY DEF LastWins
  <2>3. naming # {} => iedge[p] \in naming /\ \A j \in naming : j <= iedge[p]
    BY <1>1, <2>2 DEF LastIn
  <2>4. naming = {} => iedge[p] = NoEdge
    BY <1>1, <2>2 DEF LastIn
  <2>5. naming \subseteq Nat
    BY <1>1
  <2> HIDE DEF naming
  <2> QED BY <2>1, <2>3, <2>4, <2>5, GreatestIs
<1>4. ASSUME NEW p \in OutPort PROVE PlannedOut[p] = oedge[p]
  <2> DEFINE naming == {i \in DOMAIN cfg : TailPort(cfg[i]) = p}
  <2>1. PlannedOut[p] = IF naming = {} THEN NoEdge
                        ELSE CHOOSE i \in naming : \A j \in naming : j <= i
    BY DEF PlannedOut, Planned
  <2>2. LastOut(p)
    BY DEF LastWins
  <2>3. naming # {} => oedge[p] \in naming /\ \A j \in naming : j <= oedge[p]
    BY <1>1, <2>2 DEF LastOut
  <2>4. naming = {} => oedge[p] = NoEdge
    BY <1>1, <2>2 DEF LastOut
  <2>5. naming \subseteq Nat
    BY <1>1
  <2> HIDE DEF naming
  <2> QED BY <2>1, <2>3, <2>4, <2>5, GreatestIs
<1>5. /\ PlannedIn = [p \in InPort |-> PlannedIn[p]]
      /\ PlannedOut = [p \in OutPort |-> PlannedOut[p]]
  BY DEF PlannedIn, PlannedOut, Planned
<1> QED BY <1>2, <1>3, <1>4, <1>5

\* The instance reads the queues as the engine does.
LEMMA SameQueues ==
  /\ Flow!Edge = Edge
  /\ \A w, P : Flow!EdgesAt(w, P) = EdgesAt(w, P)
  /\ \A n, c : Flow!Ports(n, c) = Ports(n, c)
  /\ \A w, q, p : Flow!Contents(w, q, p) = Contents(w, q, p)
  /\ \A w, q, P : Flow!Heads(w, q, P) = Heads(w, q, P)
  /\ \A q, E : Flow!Pop(q, E) = Pop(q, E)
  /\ \A q, E, s : Flow!Push(q, E, s) = Push(q, E, s)
  /\ \A n, r : Flow!Fresh(n, r) = Fresh(n, r)
  /\ \A n, t : Flow!Refuses(n, t) = Refuses(n, t)
  /\ \A n, t : Flow!Emission(n, t) = Emission(n, t)
  /\ \A n, t : Flow!Answer(n, t) = Answer(n, t)
<1>1. Flow!Edge = Edge
  BY DEF Flow!Edge, Edge
<1>2. \A w, P : Flow!EdgesAt(w, P) = EdgesAt(w, P)
  BY DEF Flow!EdgesAt, EdgesAt, Flow!NoEdge, NoEdge
<1>3. \A n, c : Flow!Ports(n, c) = Ports(n, c)
  BY DEF Flow!Ports, Ports
<1>4. \A w, q, p : Flow!Contents(w, q, p) = Contents(w, q, p)
  BY DEF Flow!Contents, Contents, Flow!NoEdge, NoEdge
<1>5. \A w, q, P : Flow!Heads(w, q, P) = Heads(w, q, P)
  BY DEF Flow!Heads, Heads
<1>6. \A q, E : Flow!Pop(q, E) = Pop(q, E)
  BY DEF Flow!Pop, Pop
<1>7. \A q, E, s : Flow!Push(q, E, s) = Push(q, E, s)
  BY DEF Flow!Push, Push
<1>8. \A n, r : Flow!Fresh(n, r) = Fresh(n, r)
  BY DEF Flow!Fresh, Fresh
<1>9. \A n, t : Flow!Refuses(n, t) = Refuses(n, t)
  BY DEF Flow!Refuses, Refuses
<1>10. \A n, t : Flow!Emission(n, t) = Emission(n, t)
  BY DEF Flow!Emission, Emission
<1>11. \A n, t : Flow!Answer(n, t) = Answer(n, t)
  BY <1>9, <1>10 DEF Flow!Answer, Answer
<1> QED BY <1>1, <1>2, <1>3, <1>4, <1>5, <1>6, <1>7, <1>8, <1>9, <1>10, <1>11

\* With the wiring as planned a firing is a firing of the planned network.
LEMMA PlannedFiring ==
  ASSUME PlannedIn = iedge, PlannedOut = oedge, UNCHANGED <<PlannedIn, PlannedOut>>,
         NEW n \in Node, Fire(n)
  PROVE  Flow!Fire(n)
<1>1. /\ Flow!Inputs(n) = Inputs(n)
      /\ Flow!InEdges(n) = InEdges(n)
      /\ Flow!OutEdges(n) = OutEdges(n)
  BY SameQueues DEF Inputs, Flow!Inputs, Outputs, Flow!Outputs, InEdges, Flow!InEdges,
                    OutEdges, Flow!OutEdges
<1>2. Flow!Given(n) = Given(n)
  BY <1>1, SameQueues DEF Given, Flow!Given
<1>3. Flow!Result(n) = Result(n)
  BY <1>2, SameQueues DEF Result, Flow!Result
<1>4. Flow!Enabled(n) = Enabled(n)
  BY <1>1, SameQueues DEF Enabled, Flow!Enabled, InFull, Flow!InFull
<1> QED BY <1>1, <1>2, <1>3, <1>4, SameQueues DEF Fire, Flow!Fire, Flow!wiring

\* From configure() to the return of execute() the application does what the Kahn
\* network may do that the last edge to name each port describes.
THEOREM AppImplementation == AppSpec => ImplementsFlow
<1>1. AppInit => Flow!FlowInit /\ LastWins
  BY SameQueues, LastWinsStart DEF AppInit, FlowInit, Flow!FlowInit
<1>2. AppInv /\ LastWins /\ [AppNext]_allvars => [Flow!FlowNext]_<<Flow!wiring, Flow!data>>
  <2> SUFFICES ASSUME AppInv, LastWins, [AppNext]_allvars
               PROVE  [Flow!FlowNext]_<<Flow!wiring, Flow!data>>
    OBVIOUS
  <2>1. UNCHANGED <<PlannedIn, PlannedOut>>
    <3>1. cfg' = cfg
      BY DEF AppNext, Configure, Connect, ConfigureRaises, CheckConnected, SortKahn, SortInit,
             SortPop, SortDone, Execute, Ended, allvars, building
    <3> QED BY <3>1 DEF PlannedIn, PlannedOut, Planned, HeadPort, TailPort
  <2>2. CASE UNCHANGED data
    BY <2>1, <2>2 DEF Flow!wiring, Flow!data, data
  <2>3. CASE Execute
    <3>1. Sound /\ CallNode /\ order[pos] \in Node /\ connected = Len(cfg)
      BY <2>3, AcceptedIsSound, CurrentNode DEF Execute, CallNode, Sound, AppInv, Accepted
    <3>2. Fire(order[pos]) \/ UNCHANGED data
      BY <3>1, CallEffect DEF Sound, NoThrow
    <3>3. Fire(order[pos]) => Flow!Fire(order[pos])
      BY <2>1, <3>1, WiredAsPlanned, PlannedFiring
    <3> QED BY <2>2, <3>1, <3>2, <3>3 DEF Flow!FlowNext
  <2> QED BY <2>2, <2>3, StepKinds, NothingMoves DEF allvars, vars
<1>3. AppInv /\ LastWins /\ [AppNext]_allvars => LastWins'
  BY LastWinsStep
<1> QED BY <1>1, <1>2, <1>3, AppInvariant, PTL DEF AppSpec, ImplementsFlow, Flow!FlowSpec

-----------------------------------------------------------------------------
(* What is left out of the list.                                           *)

\* The nodes that the edges from nodes of S lead to.
Fed(S) == {m_edges[i].head : i \in {j \in DOMAIN m_edges : m_edges[j].tail \in S}}

\* A function may be applied any number of times.
LEMMA Iterates ==
  ASSUME NEW U, NEW a \in U, NEW f \in [U -> U], NEW n \in Nat
  PROVE  \E g \in [0 .. n -> U] : g[0] = a /\ \A k \in 1 .. n : g[k] = f[g[k - 1]]
<1> DEFINE Upto(m) == {g \in [0 .. m -> U] : g[0] = a /\ \A k \in 1 .. m : g[k] = f[g[k - 1]]}
           S == {m \in Nat : Upto(m) # {}}
<1>1. 0 \in S
  <2>1. [k \in 0 .. 0 |-> a] \in Upto(0)
    OBVIOUS
  <2> QED BY <2>1
<1>2. ASSUME NEW m \in Nat, m \in S PROVE m + 1 \in S
  <2>1. PICK g \in Upto(m) : TRUE
    BY <1>2
  <2> DEFINE h == [k \in 0 .. m + 1 |-> IF k <= m THEN g[k] ELSE f[g[m]]]
  <2>2. g \in [0 .. m -> U] /\ g[0] = a /\ \A k \in 1 .. m : g[k] = f[g[k - 1]]
    BY <2>1
  <2>3. h \in [0 .. m + 1 -> U] /\ h[0] = a
    BY <2>2
  <2>4. ASSUME NEW k \in 1 .. m + 1 PROVE h[k] = f[h[k - 1]]
    <3>1. k - 1 \in 0 .. m /\ h[k - 1] = g[k - 1]
      OBVIOUS
    <3>2. CASE k <= m
      <4>1. k \in 1 .. m /\ h[k] = g[k]
        BY <3>2
      <4> QED BY <2>2, <3>1, <4>1
    <3>3. CASE k = m + 1
      <4>1. h[k] = f[g[m]] /\ k - 1 = m
        BY <3>3
      <4> QED BY <3>1, <4>1
    <3> QED BY <3>2, <3>3
  <2> HIDE DEF h
  <2> QED BY <2>3, <2>4
<1> HIDE DEF Upto
<1>3. n \in S
  BY <1>1, <1>2, AllNaturals
<1> QED BY <1>3 DEF Upto

\* Downstream() widens the set of heads as often as there are edges.
LEMMA Widening ==
  ASSUME Built, NEW n \in Node
  PROVE  \E g \in [0 .. connected -> SUBSET m_nodes] :
           /\ g[0] = Fed({n})
           /\ \A k \in 1 .. connected : g[k] = g[k - 1] \cup Fed(g[k - 1])
           /\ Downstream(n) = g[connected]
<1> DEFINE a == {m_edges[i].head : i \in {j \in DOMAIN m_edges : m_edges[j].tail = n}}
           f == [S \in SUBSET m_nodes |-> S \cup Fed(S)]
           Loop(g) == g = [k \in 0 .. Len(m_edges) |->
                             IF k = 0 THEN a
                             ELSE g[k - 1] \cup {m_edges[i].head :
                                    i \in {j \in DOMAIN m_edges : m_edges[j].tail \in g[k - 1]}}]
<1>1. connected \in Nat /\ Len(m_edges) = connected
  BY NodesOfGraph DEF Built, m_edges
<1>2. \A S : Fed(S) \subseteq m_nodes
  BY DEF Fed, m_nodes, EndsOf
<1>3. a = Fed({n})
  BY DEF Fed
<1>4. PICK g \in [0 .. connected -> SUBSET m_nodes] :
             g[0] = a /\ \A k \in 1 .. connected : g[k] = f[g[k - 1]]
  <2>1. a \in SUBSET m_nodes /\ f \in [SUBSET m_nodes -> SUBSET m_nodes]
    BY <1>2, <1>3
  <2> HIDE DEF a, f
  <2>2. \E g \in [0 .. connected -> SUBSET m_nodes] :
             g[0] = a /\ \A k \in 1 .. connected : g[k] = f[g[k - 1]]
    <3> DEFINE U == SUBSET m_nodes
    <3>1. a \in U /\ f \in [U -> U] /\ connected \in Nat
      BY <1>1, <2>1
    <3> HIDE DEF U
    <3>2. \E g \in [0 .. connected -> U] :
             g[0] = a /\ \A k \in 1 .. connected : g[k] = f[g[k - 1]]
      BY <3>1, Iterates
    <3> QED BY <3>2 DEF U
  <2> QED BY <2>2
<1>5. Loop(g)
  <2>1. ASSUME NEW k \in 1 .. connected PROVE g[k] = g[k - 1] \cup Fed(g[k - 1])
    <3>1. g[k - 1] \in SUBSET m_nodes
      BY <1>1
    <3> QED BY <1>4, <3>1
  <2>2. g = [k \in 0 .. connected |-> IF k = 0 THEN a ELSE g[k - 1] \cup Fed(g[k - 1])]
    <3> HIDE DEF a, f
    <3> QED BY <1>1, <1>3, <1>4, <2>1
  <2> QED BY <1>1, <2>2 DEF Fed
<1>6. PICK h : h = (CHOOSE r : Loop(r)) /\ Loop(h)
  BY <1>5
<1>7. Downstream(n) = h[connected]
  BY <1>1, <1>6 DEF Downstream
<1>8. h = [k \in 0 .. connected |-> IF k = 0 THEN a ELSE h[k - 1] \cup Fed(h[k - 1])]
  BY <1>1, <1>6 DEF Fed
<1> HIDE DEF a, Loop
<1>9. h[0] = Fed({n}) /\ \A k \in 1 .. connected : h[k] = h[k - 1] \cup Fed(h[k - 1])
  <2>1. PICK u : u = h
    OBVIOUS
  <2>2. h = [k \in 0 .. connected |-> IF k = 0 THEN a ELSE u[k - 1] \cup Fed(u[k - 1])]
    BY <1>8, <2>1
  <2>3. ASSUME NEW k \in 1 .. connected PROVE h[k] = u[k - 1] \cup Fed(u[k - 1])
    BY <1>1, <2>2
  <2>4. h[0] = a
    BY <1>1, <2>2
  <2> QED BY <1>3, <2>1, <2>3, <2>4
<1>10. \A k \in 0 .. connected : h[k] \in SUBSET m_nodes
  <2> DEFINE S == {k \in Nat : k <= connected => h[k] \in SUBSET m_nodes}
  <2>1. 0 \in S
    BY <1>2, <1>9
  <2>2. ASSUME NEW k \in Nat, k \in S PROVE k + 1 \in S
    <3> SUFFICES ASSUME k + 1 <= connected PROVE h[k + 1] \in SUBSET m_nodes
      OBVIOUS
    <3>1. k + 1 \in 1 .. connected /\ (k + 1) - 1 = k /\ h[k] \in SUBSET m_nodes
      BY <1>1, <2>2
    <3> QED BY <1>2, <1>9, <3>1
  <2> HIDE DEF S
  <2>3. Nat \subseteq S
    BY <2>1, <2>2, AllNaturals
  <2> QED BY <1>1, <2>3 DEF S
<1>11. h \in [0 .. connected -> SUBSET m_nodes]
  BY <1>8, <1>10
<1> QED BY <1>7, <1>9, <1>11

\* Downstream(n) is in every set that has the heads of n's edges and those of its
\* own members' edges.
LEMMA DownstreamLeast ==
  ASSUME Built, NEW n \in Node, NEW B, Fed({n}) \subseteq B, Fed(B) \subseteq B
  PROVE  Downstream(n) \subseteq B
<1>1. PICK g \in [0 .. connected -> SUBSET m_nodes] :
           /\ g[0] = Fed({n})
           /\ \A k \in 1 .. connected : g[k] = g[k - 1] \cup Fed(g[k - 1])
           /\ Downstream(n) = g[connected]
  BY Widening
<1>2. connected \in Nat
  BY DEF Built
<1> DEFINE S == {k \in Nat : k <= connected => g[k] \subseteq B}
<1>3. 0 \in S
  BY <1>1
<1>4. ASSUME NEW k \in Nat, k \in S PROVE k + 1 \in S
  <2> SUFFICES ASSUME k + 1 <= connected PROVE g[k + 1] \subseteq B
    OBVIOUS
  <2>1. k + 1 \in 1 .. connected /\ (k + 1) - 1 = k /\ g[k] \subseteq B
    BY <1>2, <1>4
  <2>2. Fed(g[k]) \subseteq Fed(B)
    BY <2>1 DEF Fed
  <2> QED BY <1>1, <2>1, <2>2
<1> HIDE DEF S
<1>5. Nat \subseteq S
  BY <1>3, <1>4, AllNaturals
<1> QED BY <1>1, <1>2, <1>5 DEF S

\* There are no more heads than edges.
LEMMA FewHeads ==
  ASSUME Built, NEW S, S \subseteq {m_edges[i].head : i \in DOMAIN m_edges}
  PROVE  IsFiniteSet(S) /\ Cardinality(S) \in 0 .. connected
<1> DEFINE H == {m_edges[i].head : i \in 1 .. connected}
           f == [i \in 1 .. connected |-> m_edges[i].head]
<1>1. connected \in Nat /\ DOMAIN m_edges = 1 .. connected
  BY NodesOfGraph DEF Built
<1>2. f \in Surjection(1 .. connected, H)
  BY DEF Surjection
<1>3. IsFiniteSet(1 .. connected) /\ Cardinality(1 .. connected) = connected
  <2>1. IsFiniteSet(1 .. connected)
        /\ Cardinality(1 .. connected) = IF 1 > connected THEN 0 ELSE connected - 1 + 1
    BY <1>1, FS_Interval
  <2> QED BY <1>1, <2>1
<1> HIDE DEF f
<1>4. IsFiniteSet(H) /\ Cardinality(H) <= connected
  BY <1>2, <1>3, FS_Surjection
<1>5. S \in SUBSET H
  BY <1>1
<1> HIDE DEF H
<1>6. IsFiniteSet(S) /\ Cardinality(S) <= Cardinality(H)
  BY <1>4, <1>5, FS_Subset
<1>7. Cardinality(S) \in Nat /\ Cardinality(H) \in Nat
  BY <1>4, <1>6, FS_CardinalityType
<1> QED BY <1>1, <1>4, <1>6, <1>7

\* Downstream(n) is such a set itself: as long as a step adds a node, so does every
\* one before it, and there are no more heads than steps.
LEMMA DownstreamClosed ==
  ASSUME Built, NEW n \in Node
  PROVE  /\ Fed({n}) \subseteq Downstream(n) /\ Fed(Downstream(n)) \subseteq Downstream(n)
         /\ Downstream(n) \subseteq m_nodes
<1>1. PICK g \in [0 .. connected -> SUBSET m_nodes] :
           /\ g[0] = Fed({n})
           /\ \A k \in 1 .. connected : g[k] = g[k - 1] \cup Fed(g[k - 1])
           /\ Downstream(n) = g[connected]
  BY Widening
<1>2. connected \in Nat
  BY DEF Built
<1> DEFINE H == {m_edges[i].head : i \in DOMAIN m_edges}
<1>3. \A A : Fed(A) \subseteq H
  BY DEF Fed
<1> HIDE DEF H
<1>4. ASSUME NEW k \in Nat, k + 1 <= connected
      PROVE  k \in 0 .. connected /\ k + 1 \in 0 .. connected
             /\ g[k + 1] = g[k] \cup Fed(g[k])
  <2>1. k + 1 \in 1 .. connected /\ (k + 1) - 1 = k
    BY <1>2, <1>4
  <2> QED BY <1>1, <1>2, <2>1
<1>5. \A k \in Nat : k <= connected => g[0] \subseteq g[k] /\ g[k] \subseteq H
  <2> DEFINE S == {k \in Nat : k <= connected => g[0] \subseteq g[k] /\ g[k] \subseteq H}
  <2>1. 0 \in S
    BY <1>1, <1>3
  <2>2. ASSUME NEW k \in Nat, k \in S PROVE k + 1 \in S
    BY <1>2, <1>3, <1>4, <2>2
  <2> HIDE DEF S
  <2>3. Nat \subseteq S
    BY <2>1, <2>2, AllNaturals
  <2> QED BY <2>3 DEF S
<1>6. Fed(g[connected]) \subseteq g[connected]
  <2> SUFFICES ASSUME ~(Fed(g[connected]) \subseteq g[connected]) PROVE FALSE
    OBVIOUS
  <2> DEFINE Closed == {k \in Nat : k <= connected => Fed(g[k]) \subseteq g[k]}
             S == {k \in Nat : connected - k \in Nat =>
                                 ~(Fed(g[connected - k]) \subseteq g[connected - k])}
             C == {k \in Nat : k <= connected => Cardinality(g[k]) >= k + 1}
  <2>1. \A k \in Nat : k <= connected => ~(Fed(g[k]) \subseteq g[k])
    <3>1. 0 \in S
      BY <1>2
    <3>2. ASSUME NEW k \in Nat, k \in S PROVE k + 1 \in S
      <4> SUFFICES ASSUME connected - (k + 1) \in Nat,
                          Fed(g[connected - (k + 1)]) \subseteq g[connected - (k + 1)]
                   PROVE  FALSE
        OBVIOUS
      <4>1. PICK j \in Nat : j = connected - (k + 1)
        OBVIOUS
      <4>2. j + 1 = connected - k /\ j + 1 <= connected /\ j + 1 \in Nat
        BY <1>2, <4>1
      <4>3. g[j + 1] = g[j] \cup Fed(g[j]) /\ Fed(g[j]) \subseteq g[j]
        BY <1>4, <4>1, <4>2
      <4>4. g[j + 1] = g[j]
        BY <4>3
      <4>5. ~(Fed(g[j + 1]) \subseteq g[j + 1])
        BY <3>2, <4>2
      <4> QED BY <4>3, <4>4, <4>5
    <3> HIDE DEF S
    <3>3. Nat \subseteq S
      BY <3>1, <3>2, AllNaturals
    <3>4. ASSUME NEW k \in Nat, k <= connected PROVE ~(Fed(g[k]) \subseteq g[k])
      <4>1. connected - k \in Nat /\ connected - (connected - k) = k
        BY <1>2, <3>4
      <4> QED BY <3>3, <4>1 DEF S
    <3> QED BY <3>4
  <2>2. \A k \in Nat : k <= connected => IsFiniteSet(g[k]) /\ Cardinality(g[k]) \in 0 .. connected
    BY <1>5, FewHeads DEF H
  <2>3. 0 \in C
    <3>1. g[0] # {}
      BY <1>2, <2>1 DEF Fed
    <3>2. Cardinality(g[0]) # 0 /\ Cardinality(g[0]) \in Nat
      BY <1>2, <2>2, <3>1, FS_EmptySet
    <3> QED BY <3>2
  <2>4. ASSUME NEW k \in Nat, k \in C PROVE k + 1 \in C
    <3> SUFFICES ASSUME k + 1 <= connected PROVE Cardinality(g[k + 1]) >= (k + 1) + 1
      OBVIOUS
    <3>1. g[k] \in SUBSET g[k + 1] /\ g[k] # g[k + 1] /\ k <= connected
      BY <1>2, <1>4, <2>1
    <3>2. /\ IsFiniteSet(g[k + 1]) /\ Cardinality(g[k + 1]) \in Nat
          /\ Cardinality(g[k]) \in Nat /\ Cardinality(g[k]) >= k + 1
      <4>1. Cardinality(g[k]) >= k + 1
        BY <2>4, <3>1
      <4>2. k + 1 \in Nat /\ k \in Nat
        BY <2>4
      <4> HIDE DEF C
      <4> QED BY <2>2, <3>1, <4>1, <4>2
    <3>3. Cardinality(g[k]) <= Cardinality(g[k + 1])
          /\ Cardinality(g[k]) # Cardinality(g[k + 1])
      BY <3>1, <3>2, FS_Subset
    <3> QED BY <3>2, <3>3
  <2> HIDE DEF C
  <2>5. Nat \subseteq C
    BY <2>3, <2>4, AllNaturals
  <2>6. Cardinality(g[connected]) >= connected + 1 /\ Cardinality(g[connected]) \in 0 .. connected
    BY <1>2, <2>2, <2>5 DEF C
  <2> QED BY <1>2, <2>6
<1>7. /\ connected <= connected /\ connected \in 0 .. connected
      /\ g[0] \subseteq g[connected] /\ g[connected] \in SUBSET m_nodes
  <2>1. connected <= connected /\ connected \in 0 .. connected
    BY <1>2
  <2>2. g[0] \subseteq g[connected]
    BY <1>2, <1>5, <2>1
  <2>3. g[connected] \in SUBSET m_nodes
    BY <1>1, <2>1
  <2> QED BY <2>1, <2>2, <2>3
<1>8. Downstream(n) = g[connected] /\ g[0] = Fed({n})
  BY <1>1
<1> HIDE DEF H
<1> QED BY <1>6, <1>7, <1>8, Zenon

\* Being downstream is transitive.
LEMMA FurtherDownstream ==
  ASSUME Built, NEW n \in Node, NEW m \in Node, m \in Downstream(n)
  PROVE  Downstream(m) \subseteq Downstream(n)
<1>1. Fed(Downstream(n)) \subseteq Downstream(n)
  BY DownstreamClosed
<1>2. Fed({m}) \subseteq Fed(Downstream(n))
  BY DEF Fed
<1> QED BY <1>1, <1>2, DownstreamLeast

\* The nodes of the graph are finitely many.
LEMMA FiniteNodes ==
  ASSUME Built
  PROVE  IsFiniteSet(m_nodes)
<1>1. Len(made) \in Nat /\ made \in Seq(Node) /\ m_nodes = ToSet(made)
  BY DEF Built
<1>2. made \in Surjection(1 .. Len(made), ToSet(made))
  BY <1>1 DEF Surjection, ToSet
<1>3. IsFiniteSet(1 .. Len(made))
  BY <1>1, FS_Interval
<1> QED BY <1>1, <1>2, <1>3, FS_Surjection

\* A listed node is behind every node it is downstream of.
LEMMA BehindItsFeeders ==
  ASSUME AppInv, NEW n \in m_nodes, NEW i \in DOMAIN order, order[i] \in Downstream(n)
  PROVE  \E k \in 1 .. i - 1 : order[k] = n
<1>1. /\ Built /\ m_nodes \subseteq Node /\ order \in Seq(Node)
      /\ \A h \in DOMAIN order, j \in DOMAIN m_edges : m_edges[j].head = order[h]
           => \E k \in 1 .. h - 1 : order[k] = m_edges[j].tail
  BY NodesOfGraph DEF AppInv, Listed, Topological
<1> DEFINE B == {x \in m_nodes : \A h \in DOMAIN order : order[h] = x =>
                                   \E k \in 1 .. h - 1 : order[k] = n}
<1>2. ASSUME NEW S, \A x \in S : x = n \/ x \in B PROVE Fed(S) \subseteq B
  <2> SUFFICES ASSUME NEW j \in DOMAIN m_edges, m_edges[j].tail \in S,
                      NEW h \in DOMAIN order, order[h] = m_edges[j].head
               PROVE  \E k \in 1 .. h - 1 : order[k] = n
    BY DEF Fed, m_nodes, EndsOf
  <2>1. PICK l \in 1 .. h - 1 : order[l] = m_edges[j].tail
    BY <1>1
  <2>2. l \in DOMAIN order /\ h \in 1 .. Len(order)
    BY <1>1
  <2>3. CASE order[l] = n
    BY <2>3
  <2>4. CASE order[l] \in B
    <3>1. PICK k \in 1 .. l - 1 : order[k] = n
      BY <2>2, <2>4
    <3> QED BY <2>2, <3>1
  <2> QED BY <1>2, <2>1, <2>3, <2>4
<1>3. Fed({n}) \subseteq B /\ Fed(B) \subseteq B
  BY <1>2
<1> HIDE DEF B
<1>4. order[i] \in B
  BY <1>1, <1>3, DownstreamLeast
<1> QED BY <1>4 DEF B

\* A node that is left out is downstream of a cycle: of those it is downstream of and
\* that are left out, the one with the fewest such nodes of its own.
LEMMA LeftOutByCycle ==
  ASSUME AppInv, pc \in {"scan", "done"}, NEW n \in m_nodes \ Ordered
  PROVE  \E c \in Cyclic : n \in Downstream(c)
<1> DEFINE L == m_nodes \ Ordered
           A(x) == {y \in L : x \in Downstream(y)}
<1>1. Built /\ m_nodes \subseteq Node
  BY NodesOfGraph DEF AppInv
<1>2. ASSUME NEW x \in L PROVE A(x) # {}
  <2>1. PICK j \in DOMAIN m_edges : m_edges[j].head = x /\ m_edges[j].tail \notin Ordered
    BY DEF AppInv, LeftOut, Into
  <2>2. m_edges[j].tail \in L
    BY <2>1 DEF m_nodes, EndsOf
  <2>3. x \in Fed({m_edges[j].tail})
    BY <2>1 DEF Fed
  <2>4. Fed({m_edges[j].tail}) \subseteq Downstream(m_edges[j].tail)
    BY <1>1, <2>2, DownstreamClosed
  <2> QED BY <2>2, <2>3, <2>4
<1>3. ASSUME NEW x \in L, NEW y \in A(x)
      PROVE  y \in L /\ x \in Downstream(y) /\ A(y) \subseteq A(x)
  <2>1. ASSUME NEW z \in A(y) PROVE z \in A(x)
    <3>1. Downstream(y) \subseteq Downstream(z)
      BY <1>1, FurtherDownstream
    <3> QED BY <3>1
  <2> QED BY <2>1
<1>4. ASSUME NEW x PROVE IsFiniteSet(A(x)) /\ Cardinality(A(x)) \in Nat
  <2>1. IsFiniteSet(m_nodes)
    BY <1>1, FiniteNodes
  <2>2. A(x) \in SUBSET m_nodes
    OBVIOUS
  <2> HIDE DEF A
  <2> QED BY <2>1, <2>2, FS_Subset, FS_CardinalityType
<1> HIDE DEF A
<1>5. PICK y \in A(n) : \A z \in A(n) : Cardinality(A(y)) <= Cardinality(A(z))
  <2> DEFINE S == {Cardinality(A(z)) : z \in A(n)}
  <2>1. S \subseteq Nat /\ S # {}
    BY <1>2, <1>4
  <2> HIDE DEF S
  <2>2. PICK m \in S : \A k \in S : m <= k
    BY <2>1, LeastNatural
  <2> QED BY <2>2 DEF S
<1>6. y \in L /\ n \in Downstream(y) /\ A(y) \subseteq A(n)
  BY <1>3
<1>7. PICK z \in A(y) : TRUE
  BY <1>2, <1>6
<1>8. z \in L /\ A(z) \subseteq A(y) /\ z \in A(n)
  BY <1>3, <1>6
<1>9. A(z) = A(y)
  <2>1. A(z) \in SUBSET A(y) /\ Cardinality(A(y)) <= Cardinality(A(z))
    BY <1>5, <1>8
  <2>2. Cardinality(A(z)) <= Cardinality(A(y))
    BY <1>4, <2>1, FS_Subset
  <2>3. Cardinality(A(y)) = Cardinality(A(z))
    BY <1>4, <2>1, <2>2
  <2> QED BY <1>4, <2>1, <2>3, FS_Subset
<1>10. z \in m_nodes /\ z \in Downstream(z) /\ n \in Downstream(z)
  BY <1>7, <1>8, <1>9 DEF A
<1> QED BY <1>10 DEF Cyclic

\* Whatever the configuration, what the list leaves out, silently, is what a cycle is
\* or feeds, and nothing else.
THEOREM OnlyCyclesLeftOut == AppSpec => []SortsTheAcyclic
<1>1. AppInv => SortsTheAcyclic
  <2> SUFFICES ASSUME AppInv, pc \in {"scan", "done"}
               PROVE  Ordered = m_nodes \ (Cyclic \cup UNION {Downstream(c) : c \in Cyclic})
    BY DEF SortsTheAcyclic
  <2>1. /\ Ordered \subseteq m_nodes /\ order \in Seq(Node) /\ IsInjective(order)
    BY DEF AppInv, Listed, Topological
  <2>2. ASSUME NEW n \in Ordered, NEW c \in Cyclic PROVE n # c /\ n \notin Downstream(c)
    <3>1. c \in m_nodes /\ c \in Downstream(c)
      BY DEF Cyclic
    <3>2. c \notin Ordered
      <4> SUFFICES ASSUME NEW i \in DOMAIN order, order[i] = c PROVE FALSE
        BY DEF Ordered
      <4>1. PICK k \in 1 .. i - 1 : order[k] = c
        BY <3>1, BehindItsFeeders
      <4>2. k \in DOMAIN order /\ i \in 1 .. Len(order)
        BY <2>1, <4>1
      <4> QED BY <2>1, <4>1, <4>2 DEF IsInjective
    <3>3. n \notin Downstream(c)
      <4> SUFFICES ASSUME NEW i \in DOMAIN order, order[i] \in Downstream(c) PROVE FALSE
        BY DEF Ordered
      <4>1. PICK k \in 1 .. i - 1 : order[k] = c
        BY <3>1, BehindItsFeeders
      <4>2. k \in DOMAIN order
        BY <2>1, <4>1
      <4> QED BY <3>2, <4>1, <4>2 DEF Ordered
    <3> QED BY <3>2, <3>3
  <2>3. ASSUME NEW n \in m_nodes \ Ordered
        PROVE  n \in UNION {Downstream(c) : c \in Cyclic}
    BY LeftOutByCycle
  <2> QED BY <2>1, <2>2, <2>3
<1> QED BY <1>1, AppInvariant, PTL
-----------------------------------------------------------------------------
(* The application delivers.                                               *)

\* Nothing moves while edges are connected, and calls keep to the streams.
LEMMA AppOnTheWay == AppSpec => [](AppInv /\ OnTheWay)
<1> DEFINE Connecting == pc = "configure"
<1>1. AppInv /\ Connecting => OnTheWay
  BY WayStart DEF AppInv, Staged
<1>2. AppInit => Connecting
  BY DEF AppInit
<1>3. AppInv /\ OnTheWay /\ [AppNext]_allvars => OnTheWay' \/ Connecting'
  <2> SUFFICES ASSUME AppInv, OnTheWay, [AppNext]_allvars PROVE OnTheWay' \/ pc' = "configure"
    OBVIOUS
  <2>1. CASE Connect
    BY <2>1 DEF Connect, execution
  <2>2. CASE ConfigureRaises \/ CheckConnected \/ SortKahn
    <3>1. UNCHANGED <<wiring, data>>
      BY <2>2 DEF ConfigureRaises, CheckConnected, SortKahn, SortInit, SortPop, SortDone
    <3> QED BY <3>1, WayKept
  <2>3. CASE Execute
    <3>1. Sound /\ CallNode /\ order[pos] \in Node /\ UNCHANGED wiring /\ FlowTypeOK
      BY <2>3, AcceptedIsSound, CurrentNode DEF Execute, CallNode, Sound, TypeOK, ExecTypeOK
    <3>2. Fire(order[pos]) \/ UNCHANGED data
      BY <3>1, CallEffect DEF Sound, NoThrow
    <3> QED BY <3>1, <3>2, WayStep, WayKept
  <2>4. CASE UNCHANGED allvars
    BY <2>4, WayKept DEF allvars, vars
  <2> QED BY <2>1, <2>2, <2>3, <2>4, StepKinds DEF Configure
<1> QED BY <1>1, <1>2, <1>3, AppInvariant, PTL DEF AppSpec

\* Whatever the configuration, the application keeps every sink in step with the
\* stream the wiring it has built means for it.
THEOREM AppInStep == AppSpec => []InStep
<1>1. OnTheWay => InStep
  BY WayInStep
<1> QED BY <1>1, AppOnTheWay, PTL

\* No configuration names a port twice.
PortsNamedOnce ==
  \A c \in Configs : \A i, j \in DOMAIN c :
    HeadPort(c[i]) = HeadPort(c[j]) \/ TailPort(c[i]) = TailPort(c[j]) => i = j

\* Then the edges sort_kahn() counts are the edges there are, and in an acyclic
\* graph it lists every node an edge is plugged into.
LEMMA AcyclicAllListed ==
  ASSUME AppInv, LastWins, PortsNamedOnce, pc = "done", wiring \in DOMAIN Meaning
  PROVE  AllListed
<1> DEFINE S == m_nodes \ Ordered
           K == Meaning[wiring]
<1>1. /\ cfg \in Configs /\ connected = Len(cfg) /\ DOMAIN cfg = 1 .. connected
      /\ DOMAIN m_edges = 1 .. connected /\ \A i \in 1 .. connected : m_edges[i] = cfg[i]
      /\ m_nodes \subseteq Node /\ \A i \in 1 .. connected : Connectable(cfg[i])
  BY NodesOfGraph, ConfigList DEF AppInv, Built, Accepted
<1>2. \A i \in 1 .. connected : cfg[i].head \in m_nodes /\ cfg[i].tail \in m_nodes
  BY <1>1 DEF m_nodes, EndsOf
<1>3. ASSUME NEW i \in 1 .. connected
      PROVE  /\ TailPort(cfg[i]) \in OutPort /\ HeadPort(cfg[i]) \in InPort
             /\ oedge[TailPort(cfg[i])] = i /\ iedge[HeadPort(cfg[i])] = i
             /\ i # NoEdge /\ TailPort(cfg[i])[1] = cfg[i].tail /\ HeadPort(cfg[i])[1] = cfg[i].head
  <2> DEFINE p == TailPort(cfg[i])
             r == HeadPort(cfg[i])
  <2>1. p \in OutPort /\ r \in InPort /\ p[1] = cfg[i].tail /\ r[1] = cfg[i].head
    BY <1>1 DEF Connectable, TailPort, HeadPort, OutPort, InPort
  <2>2. LastOut(p) /\ LastIn(r)
    BY <2>1 DEF LastWins
  <2>3. /\ oedge[p] \in 1 .. connected /\ TailPort(cfg[oedge[p]]) = p
        /\ iedge[r] \in 1 .. connected /\ HeadPort(cfg[iedge[r]]) = r
    BY <2>2 DEF LastOut, LastIn
  <2>4. oedge[p] = i /\ iedge[r] = i
    BY <1>1, <2>3 DEF PortsNamedOnce
  <2>5. i # NoEdge
    BY <1>1 DEF NoEdge
  <2> QED BY <2>1, <2>4, <2>5
<1>4. FedWithin(iedge, oedge, S)
  <2> SUFFICES ASSUME NEW n \in S
               PROVE  \E p \in OutPort, r \in InPort :
                        oedge[p] = iedge[r] /\ oedge[p] # NoEdge /\ r[1] = n /\ p[1] \in S
    BY DEF FedWithin
  <2>1. PICK i \in 1 .. connected : cfg[i].head = n /\ cfg[i].tail \notin Ordered
    BY <1>1 DEF AppInv, LeftOut, Into
  <2> QED BY <1>2, <1>3, <2>1
<1>5. Solves(iedge, oedge, K) /\ S \in SUBSET Node
  BY <1>1, Meant
<1>6. Climbs(iedge, oedge, K.depth)
  BY <1>5 DEF Solves
<1> HIDE DEF S, K
<1>7. S = {}
  BY <1>4, <1>5, <1>6, NoDescent
<1>8. ASSUME NEW p \in InPort, iedge[p] # NoEdge PROVE p[1] \in m_nodes
  <2>1. iedge[p] \in 1 .. connected /\ HeadPort(cfg[iedge[p]]) = p
    BY <1>8 DEF AppInv, Built
  <2> QED BY <1>2, <1>3, <2>1
<1>9. ASSUME NEW p \in OutPort, oedge[p] # NoEdge PROVE p[1] \in m_nodes
  <2>1. oedge[p] \in 1 .. connected /\ TailPort(cfg[oedge[p]]) = p
    BY <1>9 DEF AppInv, Built
  <2> QED BY <1>2, <1>3, <2>1
<1> QED BY <1>7, <1>8, <1>9 DEF AllListed, S

\* If no body but a source's returns false and no port is named twice, the
\* application ends its execution of an acyclic graph only when every sink has got
\* its whole stream, in whatever order the edges are listed and whatever the graph
\* drops or multiplies.  An edge that lost both its ports to later ones is still
\* counted by sort_kahn(), which may take a graph without a cycle to have one.
THEOREM AppDelivery ==
  ASSUME NoRefusal, PortsNamedOnce
  PROVE  AppSpec => []AppDelivered
<1>1. AppInv /\ OnTheWay /\ LastWins /\ Quiescent => AppDelivered
  <2> SUFFICES ASSUME AppInv, OnTheWay, LastWins, Quiescent,
                      pc = "done", wiring \in DOMAIN Meaning
               PROVE  AllDelivered(wiring, got)
    BY DEF AppDelivered, AllDelivered
  <2>1. AllListed
    BY AcyclicAllListed
  <2>2. TypeOK
    BY AcceptedIsSound DEF Sound
  <2>3. Delivered
    BY <2>2, QuietDelivered
  <2> QED BY <2>1, <2>3 DEF Delivered
<1>2. AppSpec => []LastWins
  <2>1. AppInit => LastWins
    BY LastWinsStart
  <2>2. AppInv /\ LastWins /\ [AppNext]_allvars => LastWins'
    BY LastWinsStep
  <2> QED BY <2>1, <2>2, AppInvariant, PTL DEF AppSpec
<1>3. AppSpec => []Quiescent
  BY AppQuiescence
<1> QED BY <1>1, <1>2, <1>3, AppOnTheWay, PTL
=============================================================================
