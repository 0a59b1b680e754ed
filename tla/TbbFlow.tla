------------------------------ MODULE TbbFlow ------------------------------
(***************************************************************************)
(* The multi threaded engine: the subgraph of TBB flow graph nodes each    *)
(* INode is wrapped in (tbb/inc/WireCellTbb/*Cat.h) and the run of         *)
(* DataFlowGraph until wait_for_all() returns.                             *)
(*                                                                         *)
(*   source            input_node                                          *)
(*   function          function_node -> sequencer_node                     *)
(*   fanin (and join)  join_node -> function_node -> sequencer_node        *)
(*   fanout            function_node -> split_node -> a sequencer_node     *)
(*                     for each output port                                *)
(*   queuedout         multifunction_node -> sequencer_node                *)
(*   sink              function_node                                       *)
(*                                                                         *)
(* Bodies run one call at a time: concurrency is 1 where it is not forced  *)
(* (INode::concurrency() is overridden nowhere).  Input FIFOs are          *)
(* unbounded.  When a body returns, TBB starts the next call before it     *)
(* puts the result, so results may overtake each other on the way to the   *)
(* sequencer.                                                              *)
(***************************************************************************)
EXTENDS KahnEquations

CONSTANT Threads   \* how many bodies may run at a time ("max_threads")
ASSUME ThreadsAssumption == Threads \in Nat \ {0}

VARIABLES
  iedge, oedge,  \* make_edge(): the edge at each receiver and sender port
  left,    \* left[n], how many objects source n still has
  got,     \* got[n], the objects handed to the body of sink n
  inbox,   \* inbox[e], FIFO at the head of edge e: the input queue of a
           \* function_node, or of one port of a join_node
  body,    \* body[n], <<ins>> while the body of n runs on ins, else <<>>
  seqno,   \* seqno[n], the m_seqno of the body of n
  flight,  \* flight[p], results <<seqno, object>> not yet at the sequencer
  held,    \* held[p], what the sequencer_node of output port p keeps
  nextno,  \* nextno[p], the number that sequencer forwards next
  status   \* "run", or how the run was cut short

wires == <<iedge, oedge>>
vars  == <<wires, left, got, inbox, body, seqno, flight, held, nextno, status>>

Inputs(n)  == Ports(n, NumIn[n])
Outputs(n) == Ports(n, NumOut[n])

\* An empty boost::any: what a body that returned false leaves in its output.
Void == {}

Message == Nat \X Token
Running == {n \in Node : body[n] # <<>>}

\* The types of the engine: at most one call of a body at a time, and no source
\* asked for more than it has.
TypeOK ==
  /\ iedge \in [InPort -> Edge \cup {NoEdge}]
  /\ oedge \in [OutPort -> Edge \cup {NoEdge}]
  /\ left \in [Node -> Nat]
  /\ got \in [Node -> Seq(Token)]
  /\ inbox \in [Edge -> Seq(Token)]
  /\ \A n \in Node : body[n] \in Seq([0 .. NumIn[n] - 1 -> Token]) /\ Len(body[n]) <= 1
  /\ seqno \in [Node -> Nat]
  /\ \A p \in OutPort : flight[p] \subseteq Message /\ held[p] \subseteq Message
  /\ nextno \in [OutPort -> Nat]
  /\ status \in {"run", "threw", "asserted"}

\* Nothing has been spawned yet.
Quiet ==
  /\ left = Length
  /\ got = [n \in Node |-> <<>>]
  /\ inbox = [e \in Edge |-> <<>>]
  /\ body = [n \in Node |-> <<>>]
  /\ seqno = [n \in Node |-> 0]
  /\ flight = [p \in OutPort |-> {}]
  /\ held = [p \in OutPort |-> {}]
  /\ nextno = [p \in OutPort |-> 0]
  /\ status = "run"

Init == /\ iedge \in [InPort -> Edge \cup {NoEdge}]
        /\ oedge \in [OutPort -> Edge \cup {NoEdge}]
        /\ Quiet

-----------------------------------------------------------------------------
\* Mutation: the source is asked again after it returned false.
Askable(n) == Category[n] = "source" /\ Plugged(oedge, Outputs(n))
HasMore(n) == Category[n] = "source" /\ left[n] > 0 /\ Plugged(oedge, Outputs(n))

\* input_node: one call of the body after another, each result put before the
\* next call.  There is no sequencer and no wait for room downstream.
Generate(n) ==
  /\ HasMore(n)
  /\ inbox' = Push(inbox, EdgesAt(oedge, Outputs(n)), <<Fresh(n, left[n])>>)
  /\ left' = [left EXCEPT ![n] = @ - 1]
  /\ seqno' = [seqno EXCEPT ![n] = @ + 1]
  /\ UNCHANGED <<wires, got, body, flight, held, nextno, status>>

\* A call of the body of n begins: one object from every input queue.  The
\* join_node hands over tuples in order, so it and its function_node are one.
Start(n) ==
  /\ Category[n] # "source" /\ n \notin Running
  /\ Cardinality(Running) < Threads
  /\ \A p \in Inputs(n) : Contents(iedge, inbox, p) # <<>>
  /\ body' = [body EXCEPT ![n] = <<[i \in 0 .. NumIn[n] - 1 |-> Head(inbox[iedge[<<n, i>>]])]>>]
  /\ inbox' = Pop(inbox, EdgesAt(iedge, Inputs(n)))
  /\ UNCHANGED <<wires, left, got, seqno, flight, held, nextno, status>>

\* The call ends.  Seen(n) is all the objects the body was given.
Ins(n)  == body[n][1]
Seen(n) == UNION {Ins(n)[i] : i \in DOMAIN Ins(n)}
Return(n) == n \in Running /\ body' = [body EXCEPT ![n] = <<>>]

\* Mutation: what the call was given is put back, to be tried again.
ThrowAgain(n) ==
  LET At(e) == {i \in DOMAIN Ins(n) : iedge[<<n, i>>] = e} IN
    /\ Return(n)
    /\ \E i \in DOMAIN Ins(n) : Ins(n)[i] = Void
    /\ inbox' = [e \in Edge |-> IF At(e) = {} THEN inbox[e]
                               ELSE <<Ins(n)[CHOOSE i \in At(e) : TRUE]>> \o inbox[e]]
    /\ UNCHANGED <<wires, left, got, seqno, flight, held, nextno, status>>

\* The typed interface casts each input: an empty any throws bad_any_cast,
\* which cancels the graph and comes out of wait_for_all().
Throw(n) ==
  /\ Return(n)
  /\ \E i \in DOMAIN Ins(n) : Ins(n)[i] = Void
  /\ status' = "threw"
  /\ UNCHANGED <<wires, left, got, inbox, seqno, flight, held, nextno>>

\* A sink: its return value is ignored.
FinishSink(n) ==
  /\ Category[n] = "sink" /\ Return(n)
  /\ \A i \in DOMAIN Ins(n) : Ins(n)[i] # Void
  /\ got' = [got EXCEPT ![n] = Append(@, Seen(n))]
  /\ UNCHANGED <<wires, left, inbox, seqno, flight, held, nextno, status>>

\* The objects a queuedout body leaves in its queue.  Mutation: those of a
\* body that returned false are put as well.
QueuedAnyway(n) == Emission(n, Seen(n))
Queued(n) == Answer(n, Seen(n))

\* How many sequence numbers a call takes.  Mutations: one for each call, and
\* none when the body returned false.
CallNumber(n) == 1
NumbersAccepted(n) == IF Refuses(n, Seen(n)) THEN 0
                      ELSE IF Category[n] = "queuedout" THEN Len(Queued(n)) ELSE 1
Numbers(n) == IF Category[n] = "queuedout" THEN Len(Queued(n)) ELSE 1

\* A function_node body: false is ignored, and the message sent is then an
\* empty any.  The fan-out has no vector to make its tuple from instead.
FinishFunction(n) ==
  /\ Category[n] \in {"function", "fanin", "fanout"} /\ Return(n)
  /\ \A i \in DOMAIN Ins(n) : Ins(n)[i] # Void
  /\ seqno' = [seqno EXCEPT ![n] = @ + Numbers(n)]
  /\ \/ /\ Category[n] = "fanout" => ~Refuses(n, Seen(n))
        /\ LET out == IF Refuses(n, Seen(n)) THEN Void ELSE Seen(n)
           IN  flight' = [p \in OutPort |-> IF p[1] = n THEN flight[p] \cup {<<seqno[n], out>>}
                                            ELSE flight[p]]
        /\ UNCHANGED status
     \/ /\ Category[n] = "fanout" /\ Refuses(n, Seen(n))
        /\ status' = "asserted"
        /\ UNCHANGED flight
  /\ UNCHANGED <<wires, left, got, inbox, held, nextno>>

\* A multifunction_node body: it puts its results itself, numbering each; a
\* refused object takes no number.  The puts only fill the sequencer, from
\* which they are passed on one by one, so they are one step.
FinishQueuedout(n) ==
  /\ Category[n] = "queuedout" /\ Return(n)
  /\ \A i \in DOMAIN Ins(n) : Ins(n)[i] # Void
  /\ LET outq == Queued(n)
     IN  held' = [p \in OutPort |->
                    IF p[1] = n THEN held[p] \cup {<<seqno[n] + i - 1, outq[i]>> : i \in DOMAIN outq}
                    ELSE held[p]]
  /\ seqno' = [seqno EXCEPT ![n] = @ + Numbers(n)]
  /\ UNCHANGED <<wires, left, got, inbox, flight, nextno, status>>

\* Mutation: results go on without a sequencer.
PutOn(p) ==
  /\ oedge[p] # NoEdge
  /\ \E m \in flight[p] : /\ flight' = [flight EXCEPT ![p] = @ \ {m}]
                          /\ inbox' = [inbox EXCEPT ![oedge[p]] = Append(@, m[2])]
  /\ UNCHANGED <<wires, left, got, body, seqno, held, nextno, status>>

\* A result reaches the sequencer of its port, whichever comes first.
PutResult(p) ==
  /\ \E m \in flight[p] : /\ flight' = [flight EXCEPT ![p] = @ \ {m}]
                          /\ held' = [held EXCEPT ![p] = @ \cup {m}]
  /\ UNCHANGED <<wires, left, got, inbox, body, seqno, nextno, status>>

Due(p) == {m \in held[p] : m[1] = nextno[p]}

\* The sequencer_node passes on the message it is waiting for.
Forward(p) ==
  /\ oedge[p] # NoEdge
  /\ \E m \in Due(p) : /\ held' = [held EXCEPT ![p] = @ \ {m}]
                       /\ inbox' = [inbox EXCEPT ![oedge[p]] = Append(@, m[2])]
  /\ nextno' = [nextno EXCEPT ![p] = @ + 1]
  /\ UNCHANGED <<wires, left, got, body, seqno, flight, status>>

NodeStep(n) == \/ Generate(n) \/ Start(n) \/ Throw(n)
               \/ FinishSink(n) \/ FinishFunction(n) \/ FinishQueuedout(n)
PortStep(p) == PutResult(p) \/ Forward(p)
Work == status = "run" /\ ((\E n \in Node : NodeStep(n)) \/ (\E p \in OutPort : PortStep(p)))

\* No task is left: wait_for_all() returns (or rethrows).
Idle ==
  \/ status # "run"
  \/ /\ \A n \in Node : /\ n \notin Running
                        /\ ~HasMore(n)
                        /\ ~(Category[n] # "source" /\ \A p \in Inputs(n) : Contents(iedge, inbox, p) # <<>>)
     /\ \A p \in OutPort : /\ flight[p] = {}
                           /\ oedge[p] # NoEdge => Due(p) = {}
Returned == Idle /\ UNCHANGED vars

Next == Work \/ Returned

\* TBB's worker threads run every task that is spawned, and bodies end.
Spec == Init /\ [][Next]_vars /\ WF_vars(Work)

-----------------------------------------------------------------------------
(* Properties.                                                             *)

\* The messages on the way through the sequencer of port p carry each number
\* from the one it waits for to the last one given out, each once: the
\* sequencer never waits for a number that will not come.
NoGap ==
  \A p \in OutPort : Category[p[1]] # "source" /\ status = "run" =>
    LET onway == flight[p] \cup held[p] IN
      /\ flight[p] \cap held[p] = {}
      /\ \A m \in onway : m[1] \in nextno[p] .. seqno[p[1]] - 1
      /\ \A k \in nextno[p] .. seqno[p[1]] - 1 : \E m \in onway : m[1] = k
      /\ \A m1, m2 \in onway : m1[1] = m2[1] => m1 = m2

\* vectorToTuple() is always given as many objects as it needs: the assert
\* of TupleHelpers.h.
TupleIsFilled == status # "asserted"

\* The objects on edge e, oldest first: the one the body at its head is
\* working on, those in the input queue, and those on the way through the
\* sequencer at its tail in the order of their numbers.
OnEdge(e) ==
  LET heads == {p \in InPort : iedge[p] = e}
      tails == {p \in OutPort : oedge[p] = e}
      taken == {p \in heads : p[1] \in Running}
      Numbered(p, k) == (CHOOSE m \in flight[p] \cup held[p] : m[1] = k)[2]
  IN  (IF taken = {} THEN <<>> ELSE LET p == CHOOSE p \in taken : TRUE IN <<Ins(p[1])[p[2]]>>)
      \o inbox[e]
      \o (IF tails = {} THEN <<>>
          ELSE LET p == CHOOSE p \in tails : TRUE
               IN  [k \in 1 .. Cardinality(flight[p] \cup held[p]) |-> Numbered(p, nextno[p] + k - 1)])

Flow == INSTANCE DataFlow WITH queue <- [e \in Edge |-> OnEdge(e)]

\* The engine implements the Kahn network: the end of a body is the firing of
\* its node, and every other task changes nothing an edge is seen to hold.
ImplementsFlow == Flow!FlowSpec

\* No interleaving of the tasks makes a sink see an object lost, repeated,
\* overtaken or paired with the wrong partner.
InStep == SomeDelivered(wires, got)

\* wait_for_all() returns, unless rethrowing, only when every sink has been given
\* its whole stream: no message is left in a queue or a sequencer on its way.
Delivered == Idle /\ status = "run" => AllDelivered(wires, got)
=============================================================================
