---------------------------- MODULE PgraphHydra ----------------------------
(***************************************************************************)
(* Hydra nodes in Pgraph: the wrapper Hydra of Wrappers.h, the typed layer *)
(* of IHydraNode.h below it, and the two hydras of the toolkit that merge  *)
(* streams, DepoMerger and FrameSync.  Nodes of category "other" are       *)
(* hydras here.  The last object of a source is the end of its stream.     *)
(***************************************************************************)
EXTENDS Pgraph, SequencesExt

CONSTANTS
  Body,  \* Body[n], "DepoMerger" or "FrameSync", of a hydra n
  When   \* When[s][k], the time of a depo or the ident of a frame

VARIABLES
  m_eos,  \* m_eos[n] of a DepoMerger
  m_iqs   \* m_iqs[n] of a FrameSync, a sequence of queues
hydravars == <<m_eos, m_iqs>>

EOS == {}   \* a null pointer
Ended(t) == t = EOS \/ \E i \in t : i[2] = Length[i[1]]
At(t) == LET i == CHOOSE i \in t : TRUE IN When[i[1]][i[2]]

HydraInit ==
  /\ m_eos = [n \in Node |-> FALSE]
  /\ m_iqs = [n \in Node |-> [i \in 1..NumIn[n] |-> <<>>]]

-----------------------------------------------------------------------------
(* Bodies, on queues that they may pop: what is left of the input queues,  *)
(* and what they put to the one output queue.                              *)

Popped(iqs, is) == [i \in DOMAIN iqs |-> IF i \in is THEN Tail(iqs[i]) ELSE iqs[i]]

\* The heads DepoMerger takes: the depos that come first, both if at one time.
First(iqs) == {i \in DOMAIN iqs :
                 /\ ~Ended(Head(iqs[i]))
                 /\ \A j \in DOMAIN iqs : ~Ended(Head(iqs[j])) => At(Head(iqs[i])) <= At(Head(iqs[j]))}
Depos(iqs) == LET is == SetToSortSeq(First(iqs), <) IN [k \in DOMAIN is |-> Head(iqs[is[k]])]

\* FrameSync::flush(): the smallest head, also if another port is empty, and an
\* end when each port has one; again, until there is neither.
RECURSIVE Flush(_)
Flush(iqs) ==
  LET some == {i \in DOMAIN iqs : iqs[i] # <<>>}
      frames == {i \in some : ~Ended(Head(iqs[i]))}
  IN  IF frames # {}
      THEN LET i == CHOOSE i \in frames : \A j \in frames :
                      \/ At(Head(iqs[i])) < At(Head(iqs[j]))
                      \/ At(Head(iqs[i])) = At(Head(iqs[j])) /\ i <= j
               rest == Flush(Popped(iqs, {i}))
           IN  [out |-> <<Head(iqs[i])>> \o rest.out, left |-> rest.left]
      ELSE IF some = DOMAIN iqs
           THEN LET rest == Flush(Popped(iqs, some))
                IN  [out |-> <<EOS>> \o rest.out, left |-> rest.left]
           ELSE [out |-> <<>>, left |-> iqs]

-----------------------------------------------------------------------------
\* The wrapper copies the queues of all ports.
Copied(n) == [i \in 1..NumIn[n] |-> Contents(iedge, queue, <<n, i - 1>>)]

\* The typed layer copies them once more for the body and returns nothing of
\* its copy: inqv is after the call what it was before.
AfterCall(inqv, typed) == inqv

\* The wrapper pops its ports down to the sizes of inqv, and appends the output.
Send(n, inqv, typed, out) ==
  LET want == AfterCall(inqv, typed)
      port(e) == CHOOSE i \in 1..NumIn[n] : iedge[<<n, i - 1>>] = e
      trimmed == [e \in Edge |->
        IF e \in InEdges(n)
        THEN SubSeq(queue[e], Len(queue[e]) - Len(want[port(e)]) + 1, Len(queue[e]))
        ELSE queue[e]]
  IN  /\ queue' = Push(trimmed, OutEdges(n), out)
      /\ Hit

\* All ports must have something.
HydraCallable(n) == Category[n] = "other" /\ InFull(n)

HydraMiss(n) == Category[n] = "other" /\ ~InFull(n) /\ Miss /\ UNCHANGED <<data, hydravars>>

DepoMerger(n) ==
  /\ HydraCallable(n) /\ Body[n] = "DepoMerger"
  /\ LET inqv == Copied(n) IN
       IF m_eos[n] THEN Miss /\ UNCHANGED <<queue, m_eos>>
       ELSE IF First(inqv) # {}
       THEN Send(n, inqv, Popped(inqv, First(inqv)), Depos(inqv)) /\ UNCHANGED m_eos
       ELSE Send(n, inqv, inqv, <<EOS>>) /\ m_eos' = [m_eos EXCEPT ![n] = TRUE]
  /\ UNCHANGED <<left, got, m_iqs>>

FrameSync(n) ==
  /\ HydraCallable(n) /\ Body[n] = "FrameSync"
  /\ LET inqv == Copied(n)
         flushed == Flush([i \in DOMAIN inqv |-> m_iqs[n][i] \o inqv[i]])
     IN  /\ m_iqs' = [m_iqs EXCEPT ![n] = flushed.left]
         /\ Send(n, inqv, inqv, flushed.out)
  /\ UNCHANGED <<left, got, m_eos>>

HydraNext ==
  \/ /\ pc = "scan"
     /\ \/ HydraMiss(order[pos]) \/ DepoMerger(order[pos]) \/ FrameSync(order[pos])
        \/ Category[order[pos]] # "other" /\ Call(order[pos]) /\ UNCHANGED hydravars
     /\ UNCHANGED wiring
  \/ Terminated /\ UNCHANGED hydravars

-----------------------------------------------------------------------------
\* A merger consumes what it forwards ("by consuming whichever head deposition
\* has the smaller time", docs/components/DepoMerger.md:3): no object of a source
\* comes out of it twice.
NothingTwice ==
  \A n \in Node : \A i, j \in DOMAIN got[n] : got[n][i] = got[n][j] /\ got[n][i] # EOS => i = j
=============================================================================
