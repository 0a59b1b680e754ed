----------------------------- MODULE MCMainJob -----------------------------
(***************************************************************************)
(* Jobs with a shared sink: two nodes in a row with the entries of the     *)
(* configuration in any order, a second file that overrides the first, two *)
(* nodes side by side, three nodes, a file for each event, no application, *)
(* and no sink.  The stream has an event made of two inputs, of which the  *)
(* second has nothing for what the first has filled, or does not touch it, *)
(* an empty event, and one whose second input fills points again.          *)
(***************************************************************************)
EXTENDS MainJob

CONSTANTS n1, n2, n3, n4

Input(ident, run, fills, skips) ==
  [ident |-> ident, meta |-> <<run, ident>>, fills |-> fills, skips |-> skips]
MCStream == << Input(5, 1, {"patches", "points", "layer"}, {}),
               Input(5, 1, {"patches"}, {"layer"}),
               [Input(7, 1, {}, {}) EXCEPT !.meta = NoMeta],
               Input(8, 2, {"points"}, {"layer"}), Input(8, 2, {"points"}, {}), EOS >>
MCRunOf == [i \in {5, 7, 8} |-> IF i = 8 THEN 2 ELSE 1]
MCFirstRSE == <<1, 5>>
MCMode == [n \in Node |-> [meta |-> n = n1,
                           from |-> CASE n = n1 -> "ident" [] n = n2 -> "event"
                                      [] n = n3 -> "config" [] n = n4 -> "config"]]
MCBody == [n \in Node |-> CASE n = n1 -> <<"patches", "points">>
                             [] n = n2 -> <<"layer", "tagger", "points">>
                             [] n = n3 -> <<"points", "layer">>
                             [] n = n4 -> <<"points">>]
MCUpstream == [n \in Node |-> IF n = n2 THEN n1 ELSE n]

An(c, d) == [comp |-> c, data |-> d]
App == An(WireCell, {"Pgrapher"})

\* n1 and n2 begin at different indices, which only shows where each writes.
InARow == LET entries == {An(Sink, FALSE), An(n1, 0), An(n2, 1)}
          IN  {<< Append(s, App) >> : s \in SetToSeqs(entries)}
Overridden == << <<An(n2, 0), App, An(n1, 0)>>, <<An(n1, 2), An(Sink, FALSE)>> >>
SideBySide == << <<An(Sink, FALSE), An(n3, 0), An(n4, 0), App>> >>
Three == << <<An(n1, 0), An(Sink, FALSE), App, An(n3, 0), An(n2, 0)>> >>
PerEvent == << <<An(Sink, TRUE), An(n2, 0), An(n1, 0), App>> >>
NoApp == << <<An(Sink, FALSE), An(n1, 0)>> >>
NoSink == << <<An(n1, 0), App>> >>

MCInit ==
  /\ MainInit /\ NodeInit /\ SinkInit
  /\ \/ engine = "tbb" /\ cfgfiles \in InARow \cup {Overridden, SideBySide, NoApp, NoSink}
     \/ engine = "pgraph" /\ cfgfiles \in {PerEvent, Three}
MCSpec == MCInit /\ [][JobNext]_jobvars /\ JobFairness
=============================================================================
