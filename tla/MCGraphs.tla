------------------------------ MODULE MCGraphs ------------------------------
(***************************************************************************)
(* The nodes the models of TLC run are made of, and how a list of edges    *)
(* plugs their ports.                                                      *)
(***************************************************************************)
EXTENDS KahnStreams

MCNode == {"s1", "s2", "fan", "fun", "out", "join", "end"}
MCCategory ==
  [n \in MCNode |-> CASE n \in {"s1", "s2"} -> "source" [] n = "fan" -> "fanout"
                      [] n = "fun" -> "function" [] n = "out" -> "queuedout"
                      [] n = "join" -> "fanin" [] n = "end" -> "sink"]
MCNumIn  == [n \in MCNode |-> CASE n \in {"s1", "s2"} -> 0 [] n = "join" -> 2 [] OTHER -> 1]
MCNumOut == [n \in MCNode |-> CASE n = "end" -> 0 [] n = "fan" -> 2 [] OTHER -> 1]
MCLength == [n \in MCNode |-> CASE n = "s1" -> 3 [] n = "s2" -> 2 [] OTHER -> 0]
MCFiltered == [n \in MCNode |-> IF n = "out" THEN {<<"s1", 1>>} ELSE {}]
MCCopies == [n \in MCNode |-> 2]
NoneRefused == [n \in MCNode |-> {}]

E(t, i, h, j) == [tail |-> t, tport |-> i, head |-> h, hport |-> j]
NodesOf(g) == {e.tail : e \in ToSet(g)} \cup {e.head : e \in ToSet(g)}

\* The edge at each port of a graph whose ports are named at most once.
PlugIn(g)  == [p \in InPort |-> CHOOSE i \in 0 .. Len(g) :
                 IF i = 0 THEN \A e \in ToSet(g) : <<e.head, e.hport>> # p
                 ELSE <<g[i].head, g[i].hport>> = p]
PlugOut(g) == [p \in OutPort |-> CHOOSE i \in 0 .. Len(g) :
                 IF i = 0 THEN \A e \in ToSet(g) : <<e.tail, e.tport>> # p
                 ELSE <<g[i].tail, g[i].tport>> = p]

\* The meaning of each of a set of graphs, by its plugging.  (The models name the
\* value twice: TLC keeps that of a definition, but evaluates what a .cfg
\* substitutes for a constant at each use.)
Meanings(graphs) == [w \in {<<PlugIn(g), PlugOut(g)>> : g \in graphs} |-> Solution(w)]

\* For the runs that do not ask what is delivered.
NoMeaning == <<>>
=============================================================================
