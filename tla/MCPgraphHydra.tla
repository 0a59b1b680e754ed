--------------------------- MODULE MCPgraphHydra ---------------------------
(***************************************************************************)
(* The example of pgraph/docs/examination/algorithm.md:333-357: two sources*)
(* of depos, a DepoMerger and a sink; and the same with frames and a       *)
(* FrameSync.                                                              *)
(***************************************************************************)
EXTENDS PgraphHydra

MCNode == {"cosmics", "beam", "merger", "sync", "dump"}
MCCategory == [n \in MCNode |-> CASE n \in {"cosmics", "beam"} -> "source"
                                  [] n = "dump" -> "sink" [] OTHER -> "other"]
MCNumIn == [n \in MCNode |-> CASE n \in {"cosmics", "beam"} -> 0 [] n = "dump" -> 1 [] OTHER -> 2]
MCNumOut == [n \in MCNode |-> IF n = "dump" THEN 0 ELSE 1]
MCLength == [n \in MCNode |-> CASE n = "cosmics" -> 3 [] n = "beam" -> 2 [] OTHER -> 0]
MCNone == [n \in MCNode |-> {}]
MCCopies == [n \in MCNode |-> 0]
NoMeaning == <<>>
MCBody == [n \in MCNode |-> IF n = "merger" THEN "DepoMerger" ELSE "FrameSync"]
MCWhen == [n \in MCNode |-> IF n = "cosmics" THEN <<1, 3>> ELSE <<2>>]

\* The hydra h between the sources and the sink.
Graph(h) ==
  /\ iedge = [p \in InPort |-> CASE p = <<h, 0>> -> 1 [] p = <<h, 1>> -> 2
                                 [] p = <<"dump", 0>> -> 3 [] OTHER -> NoEdge]
  /\ oedge = [p \in OutPort |-> CASE p = <<"cosmics", 0>> -> 1 [] p = <<"beam", 0>> -> 2
                                  [] p = <<h, 0>> -> 3 [] OTHER -> NoEdge]
  /\ order = <<"cosmics", "beam", h, "dump">>

MCInit == /\ \E h \in {"merger", "sync"} : Graph(h)
          /\ FlowInit /\ HydraInit
          /\ pos = Len(order) /\ pc = "scan"
MCSpec == MCInit /\ [][HydraNext]_<<vars, hydravars>>
=============================================================================
