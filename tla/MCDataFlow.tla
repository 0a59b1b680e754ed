----------------------------- MODULE MCDataFlow -----------------------------
(***************************************************************************)
(* The Kahn network on four small graphs, every firing order.              *)
(***************************************************************************)
EXTENDS DataFlow, MCGraphs

MCMaxEdge == 6
MCRefused == [n \in MCNode |-> IF n = "fun" THEN {<<"s1", 2>>} ELSE {}]

Graphs == {
  \* a pipeline
  << E("s1", 0, "fun", 0), E("fun", 0, "out", 0), E("out", 0, "end", 0) >>,
  \* two sources joined, one of them through a node that refuses an object
  << E("s1", 0, "fun", 0), E("fun", 0, "join", 0), E("s2", 0, "join", 1),
     E("join", 0, "end", 0) >>,
  \* a fan-out joined again, one arm dropping and multiplying objects
  << E("s1", 0, "fan", 0), E("fan", 0, "join", 0), E("fan", 1, "out", 0),
     E("out", 0, "join", 1), E("join", 0, "end", 0) >>,
  \* a fan-out joined again through two parallel edges
  << E("s2", 0, "fan", 0), E("fan", 0, "join", 1), E("fan", 1, "join", 0),
     E("join", 0, "fun", 0), E("fun", 0, "end", 0) >> }

MCInit == /\ \E g \in Graphs : iedge = PlugIn(g) /\ oedge = PlugOut(g)
          /\ FlowInit

Rest == (\A n \in Node : ~Enabled(n)) /\ UNCHANGED <<wiring, data>>

MCNext == FlowNext \/ Rest
MCSpec == MCInit /\ [][MCNext]_<<wiring, data>> /\ WF_<<wiring, data>>(FlowNext)

Streams == Meanings(Graphs)
MCMeaning == Streams
=============================================================================
