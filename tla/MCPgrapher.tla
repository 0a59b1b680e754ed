----------------------------- MODULE MCPgrapher -----------------------------
(***************************************************************************)
(* The Pgrapher application on small graphs that are wired as intended,    *)
(* with their edges listed in every order.                                 *)
(***************************************************************************)
EXTENDS Pgrapher, MCGraphs

MCMaxEdge == 5
MCRefused == [n \in MCNode |-> IF n = "fun" THEN {<<"s2", 1>>} ELSE {}]
MCInType  == [p \in InPort |-> "depo"]
MCOutType == [p \in OutPort |-> "depo"]

\* One object out for one object in at every node.
Balanced == {
  { E("s1", 0, "fun", 0), E("fun", 0, "end", 0) },
  { E("s2", 0, "fun", 0), E("fun", 0, "join", 0), E("s1", 0, "join", 1),
    E("join", 0, "end", 0) },
  { E("s1", 0, "fan", 0), E("fan", 0, "join", 0), E("fan", 1, "fun", 0),
    E("fun", 0, "join", 1), E("join", 0, "end", 0) },
  { E("s1", 0, "fan", 0), E("fan", 0, "join", 1), E("fan", 1, "join", 0),
    E("join", 0, "fun", 0), E("fun", 0, "end", 0) } }

\* A node that drops some objects and multiplies others.
Unbalanced == {
  { E("s1", 0, "out", 0), E("out", 0, "join", 0), E("s2", 0, "join", 1),
    E("join", 0, "end", 0) },
  { E("s1", 0, "fan", 0), E("fan", 0, "join", 0), E("fan", 1, "out", 0),
    E("out", 0, "join", 1), E("join", 0, "end", 0) } }

\* A node that refuses the first copy of whatever another multiplies.
Refusing == { E("s1", 0, "out", 0), E("out", 0, "fun", 0), E("fun", 0, "end", 0) }
RefusedCopies == [n \in MCNode |-> IF n = "fun" THEN {<<"out", 1>>} ELSE {}]
RefusingConfigs == SetToSeqs(Refusing)

MCConfigs == UNION {SetToSeqs(G) : G \in Balanced \cup Unbalanced}

Streams == Meanings(MCConfigs)
MCMeaning == Streams

\* The low memory policy of the bottom up visit: where nodes give one object
\* for one object, no edge of the graph ever holds a second one.
LowMemory == ToSet(cfg) \in Balanced => \A e \in Edge : Len(queue[e]) <= 1
=============================================================================
