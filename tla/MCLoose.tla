------------------------------ MODULE MCLoose ------------------------------
(***************************************************************************)
(* Pgraph::Graph used on its own, as the tests of pgraph use it: no check  *)
(* that ports are plugged, and the nodes called in any order at all.       *)
(***************************************************************************)
EXTENDS Pgraph, MCGraphs

MCMaxEdge == 5

\* Graphs with every port plugged, and the same with an output port forgotten.
Whole == {
  << E("s1", 0, "fan", 0), E("fan", 0, "join", 0), E("fan", 1, "out", 0),
     E("out", 0, "join", 1), E("join", 0, "end", 0) >>,
  << E("s1", 0, "fun", 0), E("fun", 0, "join", 0), E("s2", 0, "join", 1),
     E("join", 0, "end", 0) >> }
Torn == {
  << E("s1", 0, "fan", 0), E("fan", 0, "fun", 0), E("fun", 0, "end", 0) >>,
  << E("s1", 0, "fan", 0), E("fan", 1, "fun", 0), E("fun", 0, "end", 0) >>,
  << E("s1", 0, "out", 0), E("s2", 0, "end", 0) >> }
Graphs == Whole \cup Torn

MCInit == /\ \E g \in Graphs : /\ iedge = PlugIn(g) /\ oedge = PlugOut(g)
                               /\ order \in SetToSeqs(NodesOf(g))
          /\ FlowInit
          /\ pos = Len(order) /\ pc = "scan"
MCSpec == MCInit /\ [][Next]_vars /\ WF_vars(CallNode)

Streams == Meanings(Graphs)
MCMeaning == Streams
=============================================================================
