----------------------------- MODULE MCTbbFlow -----------------------------
(***************************************************************************)
(* The TBB engine on small graphs, every interleaving of its tasks.        *)
(***************************************************************************)
EXTENDS TbbFlow, MCGraphs

MCMaxEdge == 5
MCRefused == [n \in MCNode |-> CASE n = "out" -> {<<"s1", 2>>} [] n = "end" -> {<<"s1", 1>>}
                                 [] OTHER -> {}]
MCThreads == 2

\* Bodies that return false where the wrapper has no answer to it.
RefusingFunction == [n \in MCNode |-> IF n = "fun" THEN {<<"s1", 2>>, <<"s2", 2>>} ELSE {}]
RefusingFanout == [n \in MCNode |-> IF n = "fan" THEN {<<"s1", 2>>} ELSE {}]
RefusingAny == [n \in MCNode |-> RefusingFunction[n] \cup RefusingFanout[n]]

Graphs == {
  << E("s1", 0, "fun", 0), E("fun", 0, "out", 0), E("out", 0, "end", 0) >>,
  << E("s1", 0, "fun", 0), E("fun", 0, "join", 0), E("s2", 0, "join", 1),
     E("join", 0, "end", 0) >>,
  << E("s1", 0, "fan", 0), E("fan", 0, "join", 0), E("fan", 1, "fun", 0),
     E("fun", 0, "join", 1), E("join", 0, "end", 0) >> }

MCInit == /\ \E g \in Graphs : iedge = PlugIn(g) /\ oedge = PlugOut(g)
          /\ Quiet
MCSpec == MCInit /\ [][Next]_vars /\ WF_vars(Work)

Streams == Meanings(Graphs)
MCMeaning == Streams

\* wait_for_all() comes back, one way or the other.
Returns == <>Idle

\* wait_for_all() returns, and by then every stream has been delivered.
Completes == <>(Idle /\ AllDelivered(wires, got))
=============================================================================
