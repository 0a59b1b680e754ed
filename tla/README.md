# Wire-Cell Toolkit: TLA+ models of its engines, jobs and shared services

The Wire-Cell Toolkit simulates and reconstructs data of liquid argon time
projection chambers.  Its algorithms are *nodes* of a data flow graph that a
configuration describes; two *engines* execute such a graph, `Pgraph` in one
thread and `TbbFlow` on the flow graph of Intel TBB.  The physics lives in the
nodes.  The logic that every job depends on, and that no unit test exercises in
more than one order, lives in the engines, in the program that builds and ends a
job, and in the services that nodes share (semaphores, caches, an output file):
that is what these modules model, check and prove.

Contents: [the system](#the-system) · [what is hard](#what-is-hard) ·
[modules](#modules) · [abstractions](#abstractions) · [runs](#runs) ·
[fairness](#fairness) · [proofs](#proofs) · [findings](#findings) ·
[not modelled](#not-modelled) · [plan](#plan)

## The system

| part | source | state | operations |
|---|---|---|---|
| node interfaces | `iface/` | each node's own | a body call per category: source, sink, function, queuedout, fanin/join, fanout/split, hydra |
| Pgraph engine | `pgraph/` | ports with an edge or none, a queue per edge, the node lists of the graph | `Graph::connect`, `connected`, `sort_kahn`, `execute`; a wrapper per category |
| Pgrapher application | `pgraph/src/Pgrapher.cxx` | the graph, wrappers by INode | `configure`, `execute` |
| TBB engine | `tbb/` | a subgraph of TBB nodes per INode: input FIFOs, sequence numbers, sequencers | `DataFlowGraph::connect`, `run`; a body per category |
| DfpGraph | `util/src/DfpGraph.cxx` | parsed edges | reads the TBB application's configuration |
| the program | `apps/`, `util/ConfigManager.cxx`, `util/NamedFactory.h` | merged configuration, named instances | load, instantiate, configure, execute, finalize |
| synchronisation | `util/Semaphore.h`, `ThreadSafeCache.h`, `aux/Semaphore.cxx` | counters, a mutex, a map with an LRU list | acquire/release, get/put, get-or-compute |
| torch nodes and kernels | `spng/TorchContext`, `DeconKernel`, `ResponseKernel` | autograd mode, a cache per kernel | enter/exit around a body, `spectrum()` |
| shared Bee sink | `clus/BeeSink.cxx`, `util/Bee.cxx` | references, the open zip, its index | configure, acquire, write, release |
| clustering node | `clus/MultiAlgBlobClustering.cxx` | last ident, event index and numbers, objects to write | body call, end of stream, flush, finalize |
| streaming bodies | `aux/FrameSync`, `gen/DepoMerger`, other `gen/Depo*` | buffers kept from call to call | one body call; end of stream |
| physics | `gen`, `sigproc`, `spng`, `img`, `clus`, `match`, `flash`, `mcs`, ... | numerical | numerical |
| files, services | `sio`, `hio`, `root`, `zio`, `pytorch`, `triton`, `cuda` | files, sockets, external run times | conversion |

How they interact.  An application makes INodes by name and hands them to an
engine with a list of edges *(tail, port, head, port)*.  The engine makes one
wrapper for each INode.  In `Pgraph` wrappers share `std::deque`s between
ports; `Graph::execute()` calls one wrapper after another in its own thread.  In
`TbbFlow` a wrapper is a group of TBB nodes connected with `make_edge`; TBB's
threads call the bodies, and a message carries a sequence number so that
`sequencer_node`s can restore the order.  Objects are `boost::any`s holding
shared pointers; a null pointer is the end of a stream and for an engine an
object like any other.

`Main` makes all components a configuration names, configures them in its order,
runs the application and finalizes them from its destructor, also after an
exception.  Components find one another by name, so nodes that an engine keeps
apart share services: a semaphore around the body of every node on one torch
device, kernels whose caches other kernels' computations reach into, one Bee zip
that clustering nodes write to at an index each counts for itself.

## What is hard

Full list with lines in `PROJECT.json`, "hazards".  In short:

* **Waiting on one another.**  Pgraph wrappers do not run while their output
  holds an object.  A fan-out may run when *some* output is empty.  Guards a
  little stricter deadlock graphs that split and join again (the mutant
  `CallableDrained`); a little laxer, and sources flood the graph
  (`CallableEager`).
* **Ending.**  `execute()` ends on the first visit with no success.  The
  restart after each success and the direction of the visit decide whether it
  ends, and whether it ends too early.
* **Order not promised by the language.**  Instance numbers depend on the
  evaluation order of function arguments (`Pgrapher.cxx:63`), the sort on
  instance numbers, the visit on the sort.
* **Misuse of connect().**  Ports named twice, cycles, several edges between two
  nodes: accepted or refused, and with what effect.
* **Results overtaking.**  Under TBB the results of one body may overtake one
  another before the sequencer, and tuples may overtake in a `split_node`.
* **Numbers without messages.**  A sequencer waits for ever, and silently, for a
  number no message has.
* **Queues that are copies.**  A hydra body pops queues that are a copy of a copy
  of the edges; what the engine removes from the edges is read off another copy.
* **Locks inside of locks.**  A body holds the semaphore, then the lock of a
  kernel's cache while it computes, then that of the kernel it asks; and any of
  these computations may raise.
* **Notifying outside of the mutex.**  `FastSemaphore` counts in an atomic and
  wakes through a second semaphore that notifies after it has unlocked.
* **Who writes where.**  Nodes write an event when the *next* one arrives, into a
  file shared with nodes at other events, and the numbers under which they do must
  by then be neither too old nor too new.
* **Ending after a failure.**  `finalize()` comes to components in any state of
  completion; what was computed must still get into the file, and the file must
  be closed once, by the last.
* **False.**  What a body's `false` means differs by engine: the object is gone
  (Pgraph), an empty object goes on (TBB function), no number is taken (TBB
  queuedout), an assertion fails (TBB fanout).

## Modules

```
Dfp            nodes, ports, what bodies return, pops and pushes   <- DfpProofs
 ├ KahnEquations   what a graph means: the streams on its edges, by equations
 │  ├ DataFlow         the abstract specification: a Kahn network
 │  │  └ Pgraph            Graph::execute() and the wrappers       <- PgraphProofs
 │  │     ├ Pgrapher           configure(), connect(), sort_kahn() <- PgrapherProofs
 │  │     └ PgraphHydra        hydra nodes; DepoMerger, FrameSync
 │  └ TbbFlow          the TBB engine's run                        <- TbbFlowProofs
 └ KahnStreams     solves the equations (recursive; TLC only)

Limiter        the abstract specification of a semaphore
Threads
 ├ FastSemaphore       both semaphores                             <- FastSemaphoreProofs
 ├ ThreadSafeCache     the LRU cache, its lock held while computing <- ThreadSafeCacheProofs
 └ TorchTasks          (both) bodies on a torch device             <- TorchTasksProofs

BeeSink        the shared zip
 └ BlobClustering  the nodes that write to it
    └ MainJob          a job of the program, from load to finalize <- MainJobProofs

MCGraphs       nodes and wiring shared by the models
 MCDataFlow  MCLoose (Pgraph)  MCPgrapher  MCTbbFlow     MCMisuse (Pgrapher)
MCPgraphHydra   MCTorchTasks   MCMainJob
```

**Dfp.**  `Category`, `NumIn`, `NumOut` are `INode::category()` and the sizes of
`input_types()`, `output_types()`.  Queues are sequences, `queue[e]` for edge
`e`; a port refers to an edge, or to `NoEdge` as `Port::m_edge` may be null.
`Emission` is what the typed interface `I*Node.h` lets a body return, and `Answer`
is what leaves the node for it.

**KahnEquations** says what "delivered" is measured by, without a step of any engine.
A graph means a stream for each edge and a list of calls for each node, and these are
a solution of one equation per node: the *k*-th call takes the *k*-th object of each
input as long as there is one at each (`Called`), and the answers to the calls, one
after another, are the stream on each output edge (`Answered`).  `Solves` adds that
edges join one port to one port and lead upwards.  The constant `Meaning` holds the
solution for some wirings, and `MeaningAssumption` is that they are solutions.

**DataFlow** is what both engines promise: a node that has an object at each of
its inputs may fire, takes one from each, and appends what its body returns to
its outputs.  It says nothing of order or of room.  Both engines are shown to
implement it; it is itself checked to be determinate.

**Pgraph.**  One step of `CallNode` is one iteration of the inner loop of
`Graph::execute()` (`Graph.cxx:137-159`): `order` is the local `nodes`, `pos`
the reverse iterator, `pc = "done"` the `return true`, `pc = "raised"` an
exception that leaves `execute()`.  `Source`, `Sink`, `Function`, `Queuedout`,
`JoinFanin`, `SplitFanout` are the classes of `Wrappers.h`, each the whole
`operator()()`: early returns (`Callable`), pops, the body, puts, and the `bool`
that makes the engine restart (`Hit`) or go on (`Miss`).  A put to a port with no
edge raises after the ports before it have been put to (`Deliver`, `Broken`).

**Pgrapher** adds the application: `Connect` one edge of the configuration with
both argument orders of the factory; `ConfigureRaises`, `CheckConnected`;
`SortInit`, `SortPop` (one iteration of `sort_kahn()`'s loop), `SortDone`; then
`CallNode`.  `made` is the creation order, hence `Node::instance()`; `m_edges`
and `m_nodes` are derived from how many edges are `connected`.

**TbbFlow.**  Per INode: input FIFOs `inbox` (of a `function_node`, or of the
ports of a `join_node`), the running `body`, its `m_seqno`, per output port the
results in `flight` and those `held` by the sequencer, whose next number is
`nextno`.  A call has a beginning (`Start`), an end (`FinishSink`,
`FinishFunction`, `FinishQueuedout`, `Throw`), and a delivery of its own
(`PutResult`, `Forward`), so calls of different nodes and results of one node
interleave.  `Idle` is the return of `wait_for_all()`.

**KahnStreams** computes the solution for an acyclic graph directly from the sources'
streams.  The runs that ask what is delivered give it to `Meaning` (`Meanings` of
`MCGraphs`), and TLC evaluates `MeaningAssumption` on it; the others give `NoMeaning`, of no wiring.
It is recursive, and so stays out of the modules with proofs.

**PgraphHydra.**  The class `Hydra` of `Wrappers.h` in the terms of `Pgraph`:
`HydraMiss` is its early return, `Copied` the queues it hands on, `Send` its call,
the trimming of its ports and the output.  `AfterCall` is the typed layer of
`IHydraNode.h`, as the wrapper sees it: what is in the any-queues after a call,
the body having popped `typed`.  `DepoMerger` and `FrameSync` are bodies;
`FrameSync::flush()` is recursive and so is its operator, hence no proofs here.

**FastSemaphore.**  `count` is the atomic, `inner` the count of the second
semaphore, `at[t]` where a thread is.  One step is one atomic access
(`FetchSub`, `FetchAdd`) or one critical section (`InnerAcquire`, `InnerWait`,
`InnerRelease`); `NotifyOne` is a step of its own because the code unlocks first.
Any sleeping thread may be the one notified, and `SpuriousWake` wakes one that was
not.  The fences and relaxed accesses order the caller's data, which the model
does not have: the accesses to one atomic are totally ordered in any case.

**ThreadSafeCache.**  `index` is `cache_map_`, `list` is `cache_list_`; `making[t]`
is the stack of computations a thread is in, each holding the mutex of its cache
(`Holders`).  `recent` is a history variable: the order of last use as if nothing
were ever evicted.  `Room` computes `shrink()`'s size in a `size_t` of `SizeT`
values.

**TorchTasks** composes the two.  `todo[t]` are the bodies a thread is given,
`phase[t]` the step in the current one: `Begin`/`Semaphoring` (`acquire()`),
`Enter` (the mode), `AskHit`, `AskMiss`, `AskBypass` (`spectrum()` of the kernel
`want[t]`), `Made` or `Unwinding` one lock at a time, `Exit` and `Leave`
(`~TorchSemaphore()`).  `Raise` may happen wherever a value is being made.

**BeeSink, BlobClustering, MainJob.**  `BeeSink` has no steps of its own: its
methods run under one mutex, so each is an operator conjoined into a node's step.
A node's call is cut at each write, because other nodes write in between: `CallEOS`,
`CallNext`, `CallSame` (the event logic of `operator()`), `FlushWrite` per object,
`EndStream`/`NewEvent`; then the body, which does what is in `todo` one by one: `Fill`
one object (dead patches and some points come before the visitors, others after the
visitor they are bound to or after all), or `Visit`, the tagger that writes at once; and
`Return`, or `Fail` at any of these points.  `MainJob` is `Main`: `Load` a
file and `Extend` the configuration by its entries one by one, `Loaded`, `Construct`,
`Configure` (or `SinkMissing`: a node's `find_tn()` raises), then `Run` under either
engine, then `Finalize`, one component after another.  `Raise` is the way from any
stage to `~Main()`.  What a file holds is a sequence of entries *(index, run and event,
object)*, and an object knows the inputs it was filled from.

## Abstractions

* **A datum is its provenance**, the set of source items and queued-out copies it
  was made from.  Loss, duplication, overtaking and pairing of objects that do
  not belong together all show; what a body computes does not matter.
* **Bodies are constants.**  `Length[n]` objects from a source, then false, and
  false ever after (every source in the repository ends so: it returns an end of
  stream, then false).  `Refused[n]` is where another body returns false;
  `Filtered[n]` and `Copies[n]` give a queuedout body's number of results.
  Bodies do not throw (under both engines that ends the job), and return the
  same for the same object.
* **Execution-order constants.**  `order` is any list of nodes in `Pgraph`; it is
  `sort_kahn()`'s in `Pgrapher`.
* **TBB is external.**  Taken from its documented behaviour and the way `tbb/`
  uses it: FIFO input queues, one call at a time at concurrency 1, a node's next
  call may start before its last result is put, a `sequencer_node` forwards
  numbers in order, an `input_node` puts before its next call, an exception
  cancels the graph and comes out of `wait_for_all()`.  `flight` is a set, so any
  order of arrival at a sequencer is possible.
* **A cached value is a function of its key** and is left out.  Shapes that hash
  to one key (`DeconKernel.cxx:92`) are one key.
* **Torch.**  Autograd mode is thread local and on in a new thread.  A body asks one
  kernel, once; the filter spectra a kernel also asks have no cache under a lock.
  An exception cancels the TBB graph: bodies that run end, none begins.
* **A configuration** is a list of (component, data) with the data cut down to the
  first index of a node or to whether a sink's name has a conversion.  The order of
  graph and components is free.  The engine in `MainJob` is reduced to which node
  may be called next (`MayCall`): what the modules above establish.
* **Bee objects.**  A node has three, for the three ways in which the inputs of one
  event meet in an object.  `"points"` (point sets and flashes) are reset by each input,
  as `fill_bee_points()` does unless `use_config_rse` is set (`UseConfigRSE`), when they
  add up.  `"patches"` (dead areas) always add up.  `"layer"` (particle trees) is
  replaced by what the input has, by nothing only with `emit_empty`.  An input without
  the object's grouping (`skips`) leaves it alone.  The code has several of each kind.
  `Body[n]` is any order of fills and tagger.  To fill an object is one step; a raise
  within it leaves the object as it was, filled, or reset only (`ResetOnly`).  The
  tagger writes one object instead of four.  The zip stream protocol is a sequence; a
  file opened twice begins anew.
* **Exceptions** are those `main()` catches.  Anything else aborts the process, and
  a raise out of `finalize()` would too: `FileIsThere` excludes the one that the
  shared sink could cause.
* No node in the repository asks for a `concurrency()` other than 1
  (`INode.h:44-54`); `queuedout` is the one wrapper that does not force it.

## Runs

| run | asks | result |
|---|---|---|
| `flow_any_order` | is the abstract network determinate? | in every firing order sinks get a prefix of the reference stream, at rest all of it |
| `pgrapher_graphs` | does the application do what its configuration describes? | topological list, no early end, at most one object per edge where the policy promises it, full delivery, refinement of `DataFlow`, end |
| `pgrapher_misuse` | what of a wrong configuration? | an execution never meets an unplugged port; what the sort leaves out is what a cycle is or feeds |
| `graph_alone` | is the sort needed for correctness? | no: any visiting order ends and delivers all; without the connection check an exception cuts it short but nothing wrong is delivered |
| `tbb_graphs` | do interleavings of tasks matter? | no: refinement of the same `DataFlow`, and every stream is delivered |
| `tbb_refusals` | what does an ignored `false` do? | no sink gets a wrong object, sequencers always get the next number, `wait_for_all()` comes back |
| `torch_tasks` | do threads that share semaphore, caches and mode get in each other's way? | no: never more than two inside, no wake-up lost, every thread ends with nothing held, whatever raises |
| `bee_jobs` | is what a job computes found in the file, where it belongs? | yes, under its own index and numbers, also after exceptions, but for what a later input of the event replaced; the file is closed by the last node |
| `doubled_port`, `refused_copy`, `tbb_fanout_false`, `merger_repeats` | statements of the repository | violated, see [findings](#findings) |

The properties, each stated at its definition:

* `InStep`, `Determinate`, `AppDelivered`, `Delivered`, `Completes` compare sinks with
  the solution of the equations.  `InStep` is at any time and of a beginning of the
  stream, the others are at rest and of all of it.
* `ThrowsUnplugged`: an exception comes out of `execute()` of a graph only if some listed
  node has a port without an edge.
* `Quiescent`: `execute()` returns only if another visit could do nothing.
* `OneSlot`, `LowMemory`: the low memory policy.  `OneSlot` is the guard of
  source, function and fan-in and needs that no two ports share an edge;
  `LowMemory` is about *every* edge and needs the bottom-up visit.
* `Topological`, `SortsTheAcyclic`, `Runnable`: the sort and the checks before it.
* `NoGap`: the numbers between `nextno` and `m_seqno` are on their way, once each.
  It and `InStep` are checked where bodies refuse (`tbb_refusals`, over the same graphs).
* `ImplementsFlow`: refinement, for Pgrapher under the wiring the configuration
  *plans* (the last edge to name a port), for TBB with an edge's contents read off
  the running body, the FIFO and the sequencer together.
* `Termination`, `AppTermination`, `Returns`: it ends.
* `ImplementsLimiter`: the threads past `acquire()` are never more than the limit, by
  refinement of `Limiter`.  `NoLostWakeup`: while a thread sleeps, each unit of the
  inner count has a thread awake to take it or a notification on its way.
* `Consistent`, `LeastRecentlyUsed`, `OneMaker`: map and list agree; what is kept was
  used after all that was evicted (the list is a prefix of `recent`); a value is
  made by one thread only.
* `GradRestored`: a body runs with autograd off, and a thread outside has it on.
  `BodiesDone`: every thread ends its work, with no lock and no place taken.
* `AtItsIndex`, `UniqueNames`: every entry of every file stands at the index and under
  the run and event numbers that the *stream* gives the inputs it was made from, and
  none is there twice.  The reference, `Ordinal` and `TrueRSE`, does not use the
  nodes' counters.
* `FileIsThere`, `Complete`, `JobEnds`: nobody finds the file closed; at the end of a
  job, whether it failed or not, no node keeps anything back, and what a call that
  returned had filled has been written, unless a later input of the same event made the
  node fill that object anew (`Superseded`); and the file is closed with no user left.
  That an event given in several inputs keeps only the last one's points, without
  `use_config_rse`, is what the code does and says (`MultiAlgBlobClustering.cxx:1066`);
  `Complete` says that this is all that is ever lost.

**Bounds and why they suffice.**  Up to seven nodes of all six categories and
five edges (six in `flow_any_order`): enough for a pipeline, a join of two
sources, a split that joins again with unequal arms, parallel edges between two
nodes.  Sources of 3 and 2 objects: with two a fan-out is called while one arm
still holds the first object; the third is there when refusal and filter have
taken their objects.  `Copies = 2`, so a queuedout node both drops and multiplies.
Two TBB threads make two bodies overlap; results are unordered at any number of
threads.  The order of edges in the configuration and both evaluation orders of
arguments are exhausted.  For `torch_tasks`: four threads and a limit of two, so that
two wait at a time, one may be woken while another takes its place, and three kernels, two of which ask the
third, with caches of no or one entry and three keys, so that hits, misses,
evictions and contention occur; the clients make up to five calls on a cache of
capacity 0 to 2 (`MaxOps`).  `SizeT = 16` is large enough that `capacity_ - 1` wraps
to more than the number of keys.  For `bee_jobs`: an event of two inputs, of
which the second fills only patches, leaves the layer alone and, in a node without
`use_config_rse`, resets the points; an event that is empty and has no metadata; one of two
inputs that both fill points; then the end.  A node fills before and after its tagger, or
has none.  Two nodes in a row with their entries and
the sink's in every order, an override by a second file, two nodes side by side,
three nodes, a zip per event, no application, no sink; all four sources
of event numbers (metadata, ident, table of runs, configuration).
For `merger_repeats`: the graph of `pgraph/docs/examination/algorithm.md:333`.
Deadlock is checked in every run: final states have a
stuttering action (`Ended`, `Terminated`, `Returned`, `Rest`, `Rested`, `Gone`) enabled only there.

## Fairness

`WF(CallNode)` and `WF(Configure \/ SortKahn \/ Execute)`: one thread executing a
loop that never waits.  `WF(Work)` for TBB: some task is run as long as there is
one; it does not assume that a given task is.  That TBB's scheduler keeps its
threads at work and that bodies return is what the code relies on.  For
`torch_tasks`, `WF(ThreadStep(t))` for each thread: the operating system runs every
thread.  Nothing is assumed of spurious wake-ups and exceptions, nor that a mutex or
a place goes to the thread that waited longest: each thread has finitely many
bodies, so none can be overtaken for ever.  For `bee_jobs`, `WF` of the main
thread's steps and of some body being run.  No property uses strong fairness.

## Proofs

Eight modules hold theorems, checked by TLAPS.  They are proved for every graph, every
number of nodes, threads, caches, keys, events and files, every body; TLC checks the
same properties on the instances above.

**Assumed of the constants** are the named ASSUMEs, which TLC evaluates in the runs.
`DfpAssumption`: a category fixes the number of ports (`INode`'s subclasses), and a
source's false means that nothing is left.  `MeaningAssumption`: what `Meaning` holds of a
wiring solves its equations.  It may hold of any wirings or none, so nothing is taken
on trust of an execution: a property of delivery speaks of the wirings in its domain.
`OneMeaning` says that it matters not which solution it holds, there being one at most;
`KahnStreams` computes it.  `ConfigsAssumption`: `MaxEdge` is at least
the length of any edge list, so it bounds nothing in the proofs.
`StreamAssumption`, `ModeAssumption`: inputs have an ident, and metadata or none; the
nodes are finitely many.  `ComponentAssumption`, `ZipAssumption`: different things have
different names.  The thread and cache modules assume finite sets and a limit of at
least one.

**Hypotheses of single theorems**, where the code keeps its promise only under a
condition:

| hypothesis | says | without it |
|---|---|---|
| `NoRefusal` | no body but a source's returns false | `Quiescent` fails, and with it `Delivered`: run `refused_copy` |
| `PortsNamedOnce` | no two edges of the configuration name one port | an edge that lost a port to a later one is still counted by `sort_kahn()`, which may then see a cycle where none is left and leave nodes out |
| `Wired` | ports refer to edges or to none | nothing: the type of what is plugged |
| `NoneRefuses` | no function, fan-in or fan-out body returns false | empty objects travel under TBB, or the run aborts: `tbb_fanout_false` |
| `OneToOne`, in `TbbImplementation` | every edge has one tail and one head | nothing: an edge is made by one `make_edge()`, of one port and one port; only the functions `iedge`, `oedge` could say otherwise |
| `EveryEventNamed` | every number is the name of a zip (`Nat` within `ZipFile`) | nothing: a name is made of any number by `%d`.  The run's `ZipFile` has those of its stream only |
| `Orderly` | the end of the stream is last; one ident, one metadata; `rse_map` has every ident for a node that takes its run from it; all inputs have metadata or none, for a node that counts events itself | a node may keep the run of the event before (`MultiAlgBlobClustering.cxx:630`) |
| `Apart` | where a zip is named after the event number, a node does not give one number to two events | two events share names in one file |
| `~templated` in `NothingLost`, `NothingTwiceInOneFile` | one zip for the job | `BeeSink::write()` makes the zip of an event anew when a node comes back to it (`BeeSink.cxx:72`) |

`Orderly` and `Apart` hold of the stream and modes of `bee_jobs`.

### Pgraph and the application

`PgraphProofs`, with the lemmas of `DfpProofs` on pops, pushes and emissions, is about
every order of the nodes:

* `FlowTypeCorrect`, `TypeCorrect`: `FlowTypeOK` of the abstract network, in any firing
  order, and `TypeOK` of the engine are inductive by themselves.  In particular
  `execute()` looks at no node outside the list and gets from no empty port.
* `NeverThrows`: `Spec => [](pc # "raised")`.  Invariant: `TypeOK`, every listed
  node is plugged (`WellPlugged`), `pc # "raised"`.
* `Implementation`: `Spec => FlowSpec`.  Each call fires its node or changes no
  data (`CallEffect`); firing is shown per category.  A call that is refused is
  also a firing: it takes its inputs.
* `Quiescence`: under `NoRefusal`, `Spec => []Quiescent`.  The inductive invariant is
  that every node after `pos` in the list is stuck: a miss leaves all data as they were
  (this is where refusals must be excluded), a hit begins the visit anew.
* `FlowInStep`, `Determinacy`: `InStep` and `Determinate` of the abstract network.  The
  invariant, `Progress`, gives each node the number *f* of calls it has made: what a sink
  got is the first *f* of its calls, what a source has left is the rest, and what is on an
  edge is the stretch of its stream from the calls of its head to the answers of its tail.
  Firing moves a node one call on (`NextCall`, `EdgeStep`, `ProgressStep`), since what is at
  the front of its edges is its next call.  At rest, a node that has calls left (`Lags`)
  starves: some input is empty though its stream is not at its end, so its feeder has calls
  left too.  Feeders are deeper down, and depths do not go down for ever (`Starved`,
  `NoDescent`).  So none lags, and all is delivered.
* `LooseInStep`, `OnlyUnpluggedThrows`, `LooseQuiescence`, `LooseDelivery`: `Graph` as a
  library, any list of nodes in any order, ports plugged or not.  What is delivered is
  right until an exception comes, it comes of unplugged ports only, and under `NoRefusal` a
  return means that all has been delivered to a list that has every wired node.  A node that
  lags at the end may be stuck for want of input *or* of room, so the argument is about
  those that want no room (`Blocks`): sinks, and nodes with an empty output edge.  Such a
  node waits for input, since the engine would have called it otherwise; the feeder it
  waits for lags, and the edge between them is empty, so the feeder blocks as well.  Depths do
  not go down for ever, so nothing blocks; in particular no sink lags.
* `LowMemoryPolicy`: `Spec => []OneSlot`.  It needs `WellPlugged`'s second half, that no
  two output ports share an edge, and `OutEmpty` from the guard.

`PgrapherProofs` is about the whole application, for every configuration, good or bad,
and every order in which wrappers are made.  `AppInv` has six parts:

* `Built`: the edges connected so far passed `connect()`'s checks, the nodes at their
  ends are those with a wrapper, and a port refers to an edge that names it.  The last
  gives both halves of `WellPlugged`, also where ports are named twice.
* `Counting`: the loop invariant of `sort_kahn()`.  A node's count is the number of edges
  into it from nodes not in the list, and the seeds are the unlisted nodes of the graph
  whose count is zero.  That the count drops by the *multiplicity* of the edges
  between two nodes is what makes it so.
* `Listed` (the list is topological), `Accepted` (what `connected()` found), `Staged`
  (nothing moves before the execution), `LeftOut` (an unlisted node has an unlisted
  feeder).

From it: `AppTypeCorrect`; `SortIsTopological`; `OnlyPluggedNodes` (`Runnable`);
`ExecutionRaisesNothing`, an exception comes out of `configure()` but not out of
`execute()`; `AppLowMemory`; `AppQuiescence`; `AppImplementation`, refinement of DataFlow
under the wiring the configuration plans, which connecting has arrived at when
`execute()` begins; `AppInStep`, which needs no more than that ports are plugged as `Built`
says.  These carry over the theorems of `PgraphProofs`, whose hypothesis `WellPlugged` is
thereby discharged for the program.

`AppDelivery` (`AppDelivered`) joins the two halves of the program.  `LooseDelivery`'s
argument asks that every plugged node be in the list.  If no port is named twice, the
edges `sort_kahn()` counts are the edges ports refer to (`LastWins`); a wiring with a meaning leads
upwards, so it has no cycle, and by `LeftOut` an unlisted node would have an unlisted
feeder, that one another, and so on down for ever.

`OnlyCyclesLeftOut` (`SortsTheAcyclic`): what the list leaves out is what a cycle is or
feeds.  `Downstream` is a recursive function, so the lemmas first say what it computes:
that it exists at all (`Iterates`, `Widening`), that it is within every set closed under
the edges (`DownstreamLeast`), and that as many steps as there are edges close it
(`DownstreamClosed`: a step that adds nothing is followed by none that does, and each
that adds something adds one of the heads, which are no more than the edges).  They use
induction over a *set* of numbers (`AllNaturals`, in `DfpProofs`), got from the least element of any such
set, since the library's induction theorems are out of reach here.  A listed node is
behind all it is downstream of, hence on no cycle; and of the unlisted nodes upstream of
an unlisted one, the one with the fewest of its own is on a cycle.

### The TBB engine

`TbbFlowProofs`, for any number of threads and any interleaving:

* `TbbTypeCorrect`: `TypeOK`; `Typed` adds that no source gives more than it has.
* `SequencersNeverStall`: `NoGap`.  `Sequenced`: per output port the numbers in `flight`
  and `held` are those from `nextno` to `m_seqno`, each once.  It holds also when bodies
  return false, since a function then sends an empty object and a queuedout takes no
  number.
* `OnlyRefusalsStopTheRun`: under `NoneRefuses` the status stays "run" and no tuple is made
  of an empty vector.  Invariant `Regular`: `Tidy`, and nothing anywhere is empty.
* `TbbImplementation`: under `NoneRefuses` and `OneToOne`, `Spec => ImplementsFlow`.  What is
  on an edge of the abstract network is, from its head on, what the body there works
  on, the FIFO, and the results on the way to and in the sequencer at its tail, in the
  order of their numbers.  A call fires the node when it *ends*; every other step
  stutters, which is shown for each by splitting the edge at its parts: overtaking on
  the way to a sequencer changes nothing, since results stand in the order of their
  numbers (`Line`).
* `TbbInStep` (`InStep`), with *no* hypothesis on what bodies return.  Where a body returns
  false and has no answer, the code sends an empty object, and no Kahn network does.  The
  invariant `OnTheWay` therefore speaks of the queues *q* there would be if the nodes
  *S* that have sent an empty object had not been called since: `Progress` holds of *q*;
  an edge from outside of *S* holds what it would, and one from a node of *S* holds
  that, then an empty object, then anything (`Spoilt`); nothing is said of what *S* is given.
  A body that is given an empty object throws, so a call that completes by a node
  outside of *S* takes what it would from *q* (`FullReady`, `FullCallAgrees`) or is
  the first refusal of that node, which joins *S* (`SpoiltOnce`).  Neither sources nor sinks
  are ever in *S*, so what a sink got stands until the run is cut short, and then nothing
  moves.
* `TbbDelivery` (`Delivered`), under `NoneRefuses`: nothing is spoilt (`PlainWay`), and at
  `wait_for_all()` all that is on an edge is in the queue at its head (`IdleEdges`, by
  `NoGap`: a sequencer with nothing on the way to it keeps nothing).  A node with calls left
  waits for a feeder with calls left (`AskedStarves`), as in `Determinacy`.

### Semaphore, caches, torch bodies

`FastSemaphoreProofs`, for any finite set of threads and any limit of at least one,
with spurious wake-ups:

* `SemaphoreInvariant`: `SemInv`, the types and `Accounting`.  The atomic is the limit
  less those inside and those waiting; the waiting are as many as the inner count,
  plus those about to raise it, plus what the atomic is below zero.  The two
  equations are what `acquire()`'s and `release()`'s tests of the *old* value keep.
* `WakeupsArrive`: `NoLostWakeup`, inductive together with the types: a notification
  is sent after the count is raised, and a thread that finds the count at zero
  sleeps in the step that looked.  The lemmas on `Cardinality` say what a step from
  one place to another does to the numbers of both.
* `LimitedThreads`: refinement of `Limiter`, for which only `Accounting` is needed: a
  thread passes the fast way if the count is positive, the slow way if the inner
  count is.

`ThreadSafeCacheProofs`, for any threads, keys, capacities and sequences of calls:

* `CachesConsistent`, `OldestEvicted`: the invariant `Shelved` says of each cache that the
  list has the keys of the map, each once, within the capacity, and that it is a prefix of
  `recent`.  Moving a key to the front of both keeps the prefix because the key is in
  both at the same place, and `shrink()` only shortens it.
* `OneMakerOnly`: `OneMaker`.  Invariant `CacheInv`: each cache is locked by at most one
  entry of all the threads' stacks, and the key of it is absent.

`TorchTasksProofs`:

* `LimitedBodies`, `BodiesWakeUp`: a step of a task is a step of the semaphore or leaves it
  alone.
* `MadeOnce`, `KernelCachesConsistent`, `KernelsForgetTheOldest`: a task uses the caches as
  clients may (`CachesUsed`, `TaskSpec => CacheSpec`), so the theorems on caches hold of
  kernels that compute under one lock while they ask for another.
* `ModeRestored`: `GradRestored`.  Invariant `ModeInv`: a working thread's context
  holds `TRUE`, since every thread that writes it has autograd on when it does.  This
  is the argument that the shared member is harmless, and it fails as soon as a
  thread comes in with autograd off.
* `TasksTypeCorrect`: `TaskTypeOK`, from the invariants of both.

### Jobs

`MainJobProofs`, for any files, entries, nodes and streams, under either engine, with an
exception at any point where one may come:

* `FileStaysOpen` (`FileIsThere`), `JobTypeCorrect`, `AllReleased`.  `JobInv`: `Typed`;
  `Listed`, the merged configuration names a component once, so nobody is finalized
  twice; `Counted`, `m_refs` is the number of `Users`, those who acquired the sink and
  whose `finalize()` is yet to come; `Opened`, a zip is open, or opened per event, once
  the sink is configured and as long as there is a user and events; `Working`, only a
  node that acquired the sink has something to write.
* `EverythingAtItsIndex` (`AtItsIndex`), under `Orderly`.  `PlaceInv`: each node is
  `Unstarted`, `Within` the event of some input *k*, or `Finished`.  Within: its index
  is its first plus the events begun before *k*, its numbers are those of *k*, and all
  its buffers hold is of the same event.  The point is the call in which a new event
  arrives: the flush writes the old event under the old index and numbers, though the
  new ident is known.
* `NothingTwice` (`UniqueNames`), under `Apart`, and `NothingTwiceInOneFile`.  `UniqueInv`:
  every entry is of an event its node is past, or is flushing and done with that object
  (`Stamped`), and what is pending is there once.
* `NothingLost` (`Complete`) with one zip.  `CompleteInv`: what a call that returned had
  filled is in the buffer, in the file, or replaced within its event (`Kept`), and what the
  call at hand fills is in the buffer or still to come (`Done`); what a `Fill` or a `Fail`
  drops is of the event at hand, by `PlaceInv`, so it counts as replaced (`Dropped`); an
  event that another has followed has its layer, or
  the flush at hand will write it (`Layered`, `Owed`); a node that has been finalized
  keeps nothing (`Emptied`).  Together with `PlaceInv`, what is written is under its own numbers.

### Only model-checked

* Everything temporal: `Termination`, `AppTermination`, `Completes`, `Returns`, `BodiesDone`,
  `JobEnds`.  Liveness and ENABLED are out of the prover's reach.
* That every acyclic wiring *has* a meaning.  `OneMeaning` proves that it has at most one, by
  induction on the calls and on depth (`OneAnswer`, `NoDescent`); that KahnStreams computes one
  is a statement about recursive operators.  TLC evaluates it, as
  `MeaningAssumption`, for the wirings of the runs.
* `LowMemory`, a statement about balanced graphs; it does not hold of every graph (a
  fan-out runs as long as *one* output is empty, so when a source of a join has ended
  the other's objects gather there).
* `Complete` with a zip per event, which is true under Pgraph only.
* Hydra nodes (`FrameSync::flush()` is recursive).

## Findings

1. **A port may be plugged twice** (`doubled_port`, `ExclusivePlug`).
   `Graph.h:15` says each end of an edge is plugged exclusively.
   `Graph::connect()` drops the edge `Port::plug()` returns.
2. **A refused object may end the execution early** (`refused_copy`, `Quiescent`).
   `docs/examination/algorithm.md:179` says that execution ends with all queues
   drained.  The wrapper pops before it calls; its `false` reads as "nothing done".
3. **A fan-out's false is an assertion failure under TBB** (`tbb_fanout_false`,
   `TupleIsFilled`).  `FanoutBody` makes a tuple of an empty vector.

4. **A hydra's input is never consumed under Pgraph** (`merger_repeats`,
   `NothingTwice`).  `DepoMerger` pops what it forwards from queues that nobody reads
   back, so the same depo is merged for ever; with the queues written back the
   property holds.  FrameSync is affected in the same way.

Noted on the way, without a run of their own: with `emit_empty` the *last* event of a
stream has no empty layer (`MultiAlgBlobClustering.cxx:823` takes the flush at the
end of stream for one after it), which is why `Complete` speaks of all events but the
last; and one zip per event under TBB with two nodes would truncate a file when a
node returns to its event (`BeeSink.cxx:72`; TLC finds `Complete` violated then),
which no configuration in the repository does.

## Not modelled

Hydra nodes under TBB, the configuration phase of the TBB engine and the remaining
streaming bodies: planned, below.  A clustering node's own zip (the shared sink
replaces it), `ThreadSafeMap` (no user).  `Graph::execute_upstream()` has no
caller.  Timers, logging, the execution monitor and `NodeInfo` do not feed back.
Unlocked caches (`EmpiricalNoiseModel.cxx:328`, `spng/src/DFT.cxx:58`) are data races
with undefined behaviour, listed as hazards where they can be reached.
Physics (floating point), file formats, external services, the Jsonnet
configuration libraries and the build system are out of the reach of TLC or have
no state of their own; they are by far the largest part of the repository, which is
why the map covers a small share of its lines.

## Plan

1. *(done)* Dfp, DataFlow, Pgraph, Pgrapher, TbbFlow and the proofs about Pgraph.
2. *(done)* Semaphores, cache, torch bodies and their proofs; hydra nodes in Pgraph;
   the job of the program with the shared Bee sink and the nodes that write to it.
3. *(done)* Theorems about the application (sort, checks, low memory, refinement), the
   TBB engine (types, sequencers, refinement), the caches, and jobs with a shared sink.
   Then what is delivered, for every graph: `FlowInStep` and `Determinacy` of the abstract
   network, `InStep` and `Delivered` of both engines and of the application.  Left: that
   every acyclic wiring has a meaning; `Complete` for a zip per event under Pgraph.
4. Hydra nodes under TBB (`HydraCat.h`); `DataFlowGraph::connect()` with `DfpGraph`
   and what `TbbFlow` does with its result; the plan cache of `FftwDFT.cxx:41-83`.
5. `DepoChunker`, `DepoBagger` and the end-of-stream conventions across a graph.
