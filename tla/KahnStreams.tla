---------------------------- MODULE KahnStreams ----------------------------
(***************************************************************************)
(* The solution of the equations of an acyclic wiring w = <<iedge, oedge>> *)
(* (KahnEquations), computed without running the graph: the stream on each *)
(* edge is a function of the streams into its tail, and so of the sources. *)
(* Recursive, hence for the runs of TLC only.                              *)
(***************************************************************************)
EXTENDS Dfp, SequencesExt, FiniteSetsExt

\* Pairs the k-th object of a with the k-th object of b.
Paired(a, b) == <<>> \o [k \in 1 .. Min({Len(a), Len(b)}) |-> a[k] \cup b[k]]

\* The node at the tail of edge e, if there is one.
Tails(w, e) == {p[1] : p \in {o \in OutPort : w[2][o] = e /\ e # NoEdge}}

\* All that n puts on an edge when it is called with c.
Answers(n, c) == FoldLeft(LAMBDA s, t : s \o Answer(n, t), <<>>, c)

RECURSIVE Calls(_, _), Depth(_, _)

\* Everything that ever passes over edge e.
Stream(w, e) == FoldSet(LAMBDA n, acc : Answers(n, Calls(w, n)), <<>>, Tails(w, e))

\* Everything the body of n is ever called with: its k-th call takes the k-th
\* object of each of its inputs.
Calls(w, n) ==
  IF Category[n] = "source" THEN [k \in 1 .. Length[n] |-> {<<n, k>>}]
  ELSE LET Into(j) == Stream(w, w[1][<<n, j>>])
       IN  FoldSet(LAMBDA j, acc : Paired(Into(j), acc), Into(0), 1 .. NumIn[n] - 1)

\* How many edges the longest path to n has.
Depth(w, n) ==
  LET feeders == UNION {Tails(w, w[1][p]) : p \in Ports(n, NumIn[n])}
  IN  IF feeders = {} THEN 0 ELSE 1 + Max({Depth(w, m) : m \in feeders})

Solution(w) ==
  LET calls == [n \in Node |-> Calls(w, n)]
  IN  [calls  |-> calls,
       stream |-> [e \in Edge \cup {NoEdge} |-> Stream(w, e)],
       upto   |-> [n \in Node |-> [k \in 0 .. Len(calls[n]) |->
                                     Len(Answers(n, SubSeq(calls[n], 1, k)))]],
       depth  |-> [n \in Node |-> Depth(w, n)]]
=============================================================================
