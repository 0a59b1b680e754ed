--------------------------- MODULE KahnEquations ---------------------------
(***************************************************************************)
(* What an acyclic graph means, whatever runs it: the streams that pass    *)
(* over its edges are a solution of one equation for each node (Kahn,      *)
(* 1974).  Meaning gives the solution for some of the wirings there are;   *)
(* it is the yardstick the executions of DataFlow, Pgraph and TbbFlow are  *)
(* measured with.                                                          *)
(***************************************************************************)
EXTENDS Dfp, SequencesExt

CONSTANT Meaning  \* Meaning[<<iedge, oedge>>], the streams of that wiring

\* Edges join one output port to one input port each.
Joins(ie, oe) ==
  /\ ie \in [InPort -> Edge \cup {NoEdge}] /\ oe \in [OutPort -> Edge \cup {NoEdge}]
  /\ \A p, r \in InPort : ie[p] = ie[r] /\ ie[p] # NoEdge => p = r
  /\ \A p, r \in OutPort : oe[p] = oe[r] /\ oe[p] # NoEdge => p = r
  /\ EdgesAt(ie, InPort) = EdgesAt(oe, OutPort)

\* Edges lead upwards.
Climbs(ie, oe, depth) ==
  /\ depth \in [Node -> Nat]
  /\ \A p \in OutPort, r \in InPort :
       oe[p] = ie[r] /\ oe[p] # NoEdge => depth[p[1]] < depth[r[1]]

\* The body of n is called with the members of calls: what a source has left to
\* give, or the k-th object of each input for as long as they all have one.
Called(n, calls, ie, stream) ==
  IF Category[n] = "source" THEN calls = [k \in 1 .. Length[n] |-> {<<n, k>>}]
  ELSE /\ \A p \in Ports(n, NumIn[n]) : Len(calls) <= Len(stream[ie[p]])
       /\ \E p \in Ports(n, NumIn[n]) : Len(calls) = Len(stream[ie[p]])
       /\ \A k \in DOMAIN calls :
            calls[k] = UNION {stream[ie[p]][k] : p \in Ports(n, NumIn[n])}

\* The answers of n to its calls, one after another, are s; those to the first k
\* calls are the first upto[k] objects of s.
Answered(n, calls, s, upto) ==
  /\ upto \in [0 .. Len(calls) -> 0 .. Len(s)]
  /\ upto[0] = 0 /\ upto[Len(calls)] = Len(s)
  /\ \A k \in DOMAIN calls :
       /\ upto[k] = upto[k - 1] + Len(Answer(n, calls[k]))
       /\ \A i \in DOMAIN Answer(n, calls[k]) : s[upto[k - 1] + i] = Answer(n, calls[k])[i]

\* K solves the equations of a wiring: K.calls of each node, K.stream of each edge.
Solves(ie, oe, K) ==
  /\ Joins(ie, oe)
  /\ Climbs(ie, oe, K.depth)
  /\ K.calls \in [Node -> Seq(Token)]
  /\ K.stream \in [Edge \cup {NoEdge} -> Seq(Token)] /\ K.stream[NoEdge] = <<>>
  /\ \A n \in Node : Called(n, K.calls[n], ie, K.stream)
  /\ \A p \in OutPort :
       oe[p] # NoEdge => Answered(p[1], K.calls[p[1]], K.stream[oe[p]], K.upto[p[1]])

ASSUME MeaningAssumption == \A w \in DOMAIN Meaning : Solves(w[1], w[2], Meaning[w])

-----------------------------------------------------------------------------
Sinks == {n \in Node : Category[n] = "sink"}

\* The sinks have been given beginnings of their streams, or all of them.
SomeDelivered(w, got) ==
  w \in DOMAIN Meaning => \A n \in Sinks : IsPrefix(got[n], Meaning[w].calls[n])
AllDelivered(w, got) ==
  w \in DOMAIN Meaning => \A n \in Sinks : got[n] = Meaning[w].calls[n]
=============================================================================
