------------------------------ MODULE MainJob ------------------------------
(***************************************************************************)
(* One job of the wire-cell program (apps/apps/wire-cell.cxx, class Main   *)
(* of apps/src/Main.cxx, util/src/ConfigManager.cxx) whose components are  *)
(* a shared Bee sink and nodes that write to it.  The stages of Main:      *)
(*                                                                         *)
(*   stage "load"       load the configuration files and merge them        *)
(*         "construct"  make all components                                *)
(*         "configure"  configure them, in the order of the configuration  *)
(*         "run"        operator(): the application runs the graph         *)
(*         "finalize"   ~Main() calls finalize() of the components         *)
(*         "gone"       the program has ended                              *)
(*                                                                         *)
(* An exception that main() catches, at any stage, leads to ~Main(), thus  *)
(* to "finalize".                                                          *)
(***************************************************************************)
EXTENDS BlobClustering

CONSTANTS
  Sink,      \* the BeeSink; a configuration entry is [comp, data], with
             \* initial_index of a node, or whether the sink's name converts
  WireCell,  \* the entry of type "wire-cell", which names the applications
  Upstream   \* Upstream[n], the node before n in the graph, or n itself
ASSUME ComponentAssumption == {Sink, WireCell} \cap Node = {} /\ Sink # WireCell

\* What may stand in a configuration file.
Entry == [comp : Node, data : Nat] \cup [comp : {Sink}, data : BOOLEAN]
         \cup [comp : {WireCell}, data : SUBSET STRING]

VARIABLES
  stage,
  cfgfiles,  \* the files not loaded yet, each a sequence of entries
  more,      \* the entries of a loaded file that extend() has yet to merge
  conf,      \* m_cfgmgr: the merged entries
  pos,       \* the entry of conf the stage's loop has come to
  made,      \* the components that exist, for Factory::find_maybe()
  raised,
  engine     \* "pgraph": one body at a time; "tbb": any

mainvars == <<stage, cfgfiles, more, conf, pos, made, raised, engine>>
jobvars == <<mainvars, nodevars, sinkvars>>

JobTypeOK ==
  /\ SinkTypeOK /\ NodeTypeOK
  /\ stage \in {"load", "construct", "configure", "run", "finalize", "gone"}
  /\ cfgfiles \in Seq(Seq(Entry)) /\ more \in Seq(Entry) /\ conf \in Seq(Entry)
  /\ pos \in 1..(Len(conf) + 1)
  /\ made \subseteq Node \cup {Sink} /\ refs <= Cardinality(shared)
  /\ raised \in BOOLEAN /\ engine \in {"pgraph", "tbb"}

MainInit ==
  /\ stage = "load" /\ more = <<>> /\ conf = <<>> /\ pos = 1 /\ made = {} /\ raised = FALSE

-----------------------------------------------------------------------------
Has(top, c) == \E i \in DOMAIN top : top[i].comp = c

\* Mutation: an entry is added although there is one for the component.
MergeAppends(top, one) == Append(top, one)
\* An entry takes the place of an earlier one for its component.
Merge(top, one) ==
  IF Has(top, one.comp)
  THEN [i \in DOMAIN top |-> IF top[i].comp = one.comp THEN one ELSE top[i]]
  ELSE Append(top, one)

Enter(s) == stage' = s /\ pos' = 1

\* An exception leaves initialize() or operator().
Raise == Enter("finalize") /\ raised' = TRUE

Load ==
  /\ stage = "load" /\ more = <<>> /\ cfgfiles # <<>>
  /\ more' = Head(cfgfiles) /\ cfgfiles' = Tail(cfgfiles)
  /\ UNCHANGED <<stage, conf, pos, made, raised, engine, nodevars, sinkvars>>

\* ConfigManager::extend(), one turn of its loop.
Extend ==
  /\ stage = "load" /\ more # <<>>
  /\ conf' = Merge(conf, Head(more)) /\ more' = Tail(more)
  /\ UNCHANGED <<stage, cfgfiles, pos, made, raised, engine, nodevars, sinkvars>>

\* All files are loaded: the entry of type "wire-cell" is taken out.  Without
\* one there is no application.
Loaded ==
  /\ stage = "load" /\ more = <<>> /\ cfgfiles = <<>>
  /\ IF Has(conf, WireCell)
     THEN /\ conf' = RemoveAt(conf, CHOOSE i \in DOMAIN conf : conf[i].comp = WireCell)
          /\ Enter("construct") /\ UNCHANGED raised
     ELSE Raise /\ UNCHANGED conf
  /\ UNCHANGED <<cfgfiles, more, made, engine, nodevars, sinkvars>>

Comp == conf[pos].comp
Data == conf[pos].data

Construct ==
  /\ stage = "construct" /\ pos <= Len(conf)
  /\ made' = made \cup {Comp} /\ pos' = pos + 1
  /\ UNCHANGED <<stage, cfgfiles, more, conf, raised, engine, nodevars, sinkvars>>

Configure ==
  /\ stage = "configure" /\ pos <= Len(conf)
  /\ IF Comp = Sink
     THEN SinkConfigure(Data) /\ UNCHANGED nodevars
     ELSE Sink \in made /\ NodeConfigure(Comp, Data)
  /\ pos' = pos + 1
  /\ UNCHANGED <<stage, cfgfiles, more, conf, made, raised, engine>>

\* find_tn() of a node finds no sink: no entry names one.
SinkMissing ==
  /\ stage = "configure" /\ pos <= Len(conf) /\ Comp # Sink /\ Sink \notin made
  /\ Raise
  /\ UNCHANGED <<cfgfiles, more, conf, made, engine, nodevars, sinkvars>>

\* configure() of a node raises after it has acquired the sink.
ConfigureFails ==
  /\ stage = "configure" /\ pos <= Len(conf) /\ Comp # Sink /\ Sink \in made
  /\ NodeConfigure(Comp, Data)
  /\ Raise
  /\ UNCHANGED <<cfgfiles, more, conf, made, engine>>

NextStage ==
  /\ pos > Len(conf)
  /\ \/ stage = "construct" /\ Enter("configure")
     \/ stage = "configure" /\ Enter("run")
  /\ UNCHANGED <<cfgfiles, more, conf, made, raised, engine, nodevars, sinkvars>>

\* Any other exception: a file cannot be loaded, a type is unknown, configure()
\* raises before it has done anything.
Fails ==
  /\ \/ stage = "load" /\ more = <<>> /\ cfgfiles # <<>>
     \/ stage \in {"construct", "configure"} /\ pos <= Len(conf)
  /\ Raise
  /\ UNCHANGED <<cfgfiles, more, conf, made, engine, nodevars, sinkvars>>

-----------------------------------------------------------------------------
\* The engine may call n, a node of this job: the node before it has returned
\* from its call with the same input.  Pgraph also runs one body at a time, and
\* the nodes that have something to do before those that bring more.
MayCall(n) ==
  /\ n \in shared /\ ~raised /\ next[n] <= Len(Stream)
  /\ Upstream[n] # n => next[Upstream[n]] > next[n]
  /\ engine = "pgraph" =>
       \A m \in Node : at[m] = "idle" /\ (Upstream[m] = n => next[m] = next[n])

CallNode(n) == MayCall(n) /\ (CallEOS(n) \/ CallNext(n) \/ CallSame(n))
GoOn(n) == FlushWrite(n) \/ EndStream(n) \/ NewEvent(n) 
           \/ Visit(n) \/ Fill(n) \/ Return(n)

Run(n) == /\ stage = "run"
          /\ CallNode(n) \/ GoOn(n)
          /\ UNCHANGED mainvars

\* A body raises: no body is called any more, those that run come to their end.
RunFails(n) == /\ stage = "run"
               /\ Fail(n)
               /\ raised' = TRUE
               /\ UNCHANGED <<stage, cfgfiles, more, conf, pos, made, engine>>

RunEnds == /\ stage = "run"
           /\ \A n \in shared : at[n] = "idle" /\ (raised \/ next[n] > Len(Stream))
           /\ Enter("finalize")
           /\ UNCHANGED <<cfgfiles, more, conf, made, raised, engine, nodevars, sinkvars>>

-----------------------------------------------------------------------------
\* Mutation: components are finalized only if the job has succeeded.
DoomedBySuccess(c) == c \in made /\ c # Sink /\ ~raised
\* An existing component that is an ITerminal: the BeeSink is none.
Doomed(c) == c \in made /\ c # Sink

Finalize ==
  /\ stage = "finalize" /\ pos <= Len(conf)
  /\ IF ~Doomed(Comp)
     THEN pos' = pos + 1 /\ UNCHANGED <<nodevars, sinkvars>>
     ELSE /\ FinalizeFlush(Comp) \/ FlushWrite(Comp) \/ FinalizeFlushed(Comp)
                \/ FinalizeRelease(Comp)
          /\ pos' = IF at[Comp] = "release" THEN pos + 1 ELSE pos
  /\ UNCHANGED <<stage, cfgfiles, more, conf, made, raised, engine>>

Finalized ==
  /\ stage = "finalize" /\ pos > Len(conf)
  /\ Enter("gone")
  /\ UNCHANGED <<cfgfiles, more, conf, made, raised, engine, nodevars, sinkvars>>

Gone == stage = "gone" /\ UNCHANGED jobvars

Startup == Load \/ Extend \/ Loaded \/ Construct \/ Configure \/ SinkMissing \/ NextStage
Shutdown == RunEnds \/ Finalize \/ Finalized

JobNext == \/ Startup \/ Shutdown \/ Gone
           \/ ConfigureFails \/ Fails
           \/ \E n \in Node : Run(n) \/ RunFails(n)

\* The main thread goes on, and bodies that can be called are.  That something
\* raises is never assumed.
JobFairness == /\ WF_jobvars(Startup \/ Shutdown)
               /\ WF_jobvars(\E n \in Node : Run(n))

\* Any files, either engine.
JobInit == /\ MainInit /\ NodeInit /\ SinkInit
           /\ cfgfiles \in Seq(Seq(Entry)) /\ engine \in {"pgraph", "tbb"}
JobSpec == JobInit /\ [][JobNext]_jobvars /\ JobFairness

-----------------------------------------------------------------------------
(* Properties.  The reference is the stream, not the nodes' counters.      *)

\* A new event begins at position i.
Begins(i) == /\ Stream[i] # EOS
             /\ i = 1 \/ Stream[i - 1].ident # Stream[i].ident
Ordinal(i) == Cardinality({j \in 1..i : Begins(j)}) - 1

\* The run and event number that node n is to give the event at position i.
TrueRSE(n, i) ==
  IF Mode[n].meta /\ Stream[i].meta # NoMeta THEN Stream[i].meta
  ELSE CASE Mode[n].from = "ident" -> <<0, Stream[i].ident>>
         [] Mode[n].from = "event" -> <<RunOf[Stream[i].ident], Stream[i].ident>>
         [] Mode[n].from = "config" ->
              <<FirstRSE[1], FirstRSE[2] + (IF n \in UseConfigRSE THEN Ordinal(i) ELSE 0)>>

\* initial_index of n in the last file that has it.
Initial(n) == LET i == CHOOSE i \in DOMAIN conf : conf[i].comp = n IN conf[i].data

Entries(z) == ToSet(files[z])
AllEntries == UNION {Entries(z) : z \in ZipFile}
NodeOf(e) == e[3].node

\* Everything a node writes, when its event is over or later, or while the
\* event is worked on, stands under its own event's index and numbers, whatever
\* other nodes write in between, whether events are empty or the job fails, and
\* is in the file of its event if there is one for each.
AtItsIndex ==
  \A z \in ZipFile : \A e \in Entries(z) : \A i \in e[3].items :
    /\ e[1] = IF templated THEN 0 ELSE Initial(NodeOf(e)) + Ordinal(i)
    /\ e[2] = TrueRSE(NodeOf(e), i)
    /\ templated => z = TrueRSE(NodeOf(e), i)[2]

\* No object of one node stands twice under one index of a file.  (A tagger writes
\* at each input, and several inputs may make one event.)
UniqueNames ==
  \A z \in ZipFile : \A i, j \in DOMAIN files[z] :
    (/\ files[z][i][1] = files[z][j][1]
     /\ files[z][i][3].node = files[z][j][3].node
     /\ files[z][i][3].name = files[z][j][3].name /\ files[z][i][3].name # "tagger")
    => i = j

\* A node that flushes or tags finds the file open: it is not closed while any
\* node still has something to write, in whatever order nodes are finalized.
FileIsThere ==
  \A n \in Node :
    pending[n] # <<>> \/ (at[n] = "body" /\ "tagger" \in ToSet(todo[n]))
    => ~CannotWrite(rse[n])

InFiles(n, x, i) ==
  \E e \in AllEntries : NodeOf(e) = n /\ e[3].name = x /\ i \in e[3].items
LayerAt(n, k) ==
  \E e \in AllEntries : /\ NodeOf(e) = n /\ e[3].name = "layer"
                        /\ e[2] = TrueRSE(n, k)
\* A later input of the event of i, up to the one node n came to last, has made
\* the node fill x anew.
Superseded(n, x, i) ==
  \E j \in (i + 1)..next[n] :
    /\ j \in DOMAIN Stream /\ Stream[j] # EOS
    /\ Ordinal(j) = Ordinal(i) /\ Replaces(n, x, Stream[j])

\* At the end, also of a job that failed, a node keeps nothing back; what a call
\* has filled, before one of its event replaced it, is in the files; and each
\* event but the last has the layer of a node with emit_empty.
Complete ==
  stage = "gone" =>
    \A n \in Node :
      /\ \A x \in Name : buffer[n][x] = {}
      /\ \A i \in 1..(next[n] - 1) :
           Stream[i] # EOS =>
             /\ \A x \in Stream[i].fills \cap ToSet(Body[n]) :
                  InFiles(n, x, i) \/ Superseded(n, x, i)
             /\ (n \in Emits /\ \E j \in (i + 1)..(next[n] - 1) : Begins(j)) => LayerAt(n, i)

\* The job ends, and the file is then closed and has no user, whatever raised an
\* exception that main() catches, as long as one node had acquired the sink.
JobEnds == <>[](/\ stage = "gone" /\ refs = 0
                /\ shared # {} => out = NoZip)
=============================================================================
