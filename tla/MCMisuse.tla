------------------------------ MODULE MCMisuse ------------------------------
(***************************************************************************)
(* The Pgrapher application on edge lists nobody meant to write: cycles,   *)
(* ports named twice or not at all, ports of different types, components   *)
(* that do not exist or that no wrapper is made for.                       *)
(***************************************************************************)
EXTENDS Pgrapher

E(t, i, h, j) == [tail |-> t, tport |-> i, head |-> h, hport |-> j]

MCNode == {"s1", "s2", "fan", "fun", "join", "end", "odd"}
MCCategory ==
  [n \in MCNode |-> CASE n \in {"s1", "s2"} -> "source" [] n = "fan" -> "fanout"
                      [] n = "fun" -> "function" [] n = "odd" -> "other"
                      [] n = "join" -> "fanin" [] n = "end" -> "sink"]
MCNumIn  == [n \in MCNode |-> CASE n \in {"s1", "s2"} -> 0 [] n = "join" -> 2 [] OTHER -> 1]
MCNumOut == [n \in MCNode |-> CASE n = "end" -> 0 [] n = "fan" -> 2 [] OTHER -> 1]
MCMaxEdge == 5
MCLength == [n \in MCNode |-> IF n \in {"s1", "s2"} THEN 2 ELSE 0]
MCRefused == [n \in MCNode |-> {}]
MCFiltered == [n \in MCNode |-> {}]
MCCopies == [n \in MCNode |-> 1]
NoMeaning == <<>>
MCInType  == [p \in InPort |-> "depo"]
MCOutType == [p \in OutPort |-> IF p[1] = "s2" THEN "frame" ELSE "depo"]

Cycles == {
  \* a join fed from its own output, with the only sink behind the cycle
  { E("s1", 0, "join", 0), E("join", 0, "fan", 0), E("fan", 0, "join", 1),
    E("fan", 1, "end", 0) },
  \* the same beside a path from a source to nowhere on the cycle
  { E("s1", 0, "fan", 0), E("fan", 0, "end", 0), E("fan", 1, "join", 0),
    E("join", 0, "fun", 0), E("fun", 0, "join", 1) },
  \* a node that feeds itself
  { E("fun", 0, "fun", 0), E("s1", 0, "end", 0) } }

Doubled == {
  \* an output port named by two edges
  { E("s1", 0, "fun", 0), E("fun", 0, "end", 0), E("s1", 0, "join", 1),
    E("fun", 0, "join", 0), E("join", 0, "end", 0) },
  \* an input port named by two edges
  { E("s1", 0, "fan", 0), E("fan", 0, "end", 0), E("fan", 1, "end", 0) } }

Rejected == {
  { E("s1", 0, "join", 0), E("join", 0, "end", 0) },    \* a port not plugged
  { E("s1", 0, "fun", 0) },
  { E("s1", 0, "fun", 0), E("fun", 0, "fan", 0), E("fan", 1, "end", 0) },
  { E("s1", 0, "fun", 0), E("s2", 0, "end", 0) },       \* types do not match
  { E("s1", 0, "gone", 0) },                            \* no such component
  { E("s1", 0, "odd", 0), E("odd", 0, "end", 0) },      \* no such wrapper
  { E("s1", 1, "end", 0) }, { E("s1", 0, "end", 1) } }  \* no such port

MCConfigs == {<<>>} \cup UNION {SetToSeqs(G) : G \in Cycles \cup Doubled \cup Rejected}
DoubledConfigs == UNION {SetToSeqs(G) : G \in Doubled}
=============================================================================
