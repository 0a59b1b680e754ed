--------------------------- MODULE BlobClustering ---------------------------
(***************************************************************************)
(* MultiAlgBlobClustering nodes (clus/src/MultiAlgBlobClustering.cxx) that *)
(* share a Bee sink: what they keep from call to call, and when they write *)
(* it.  An event's objects are kept until the next event, or the end of    *)
(* the stream, or finalize(), shows that the event is over.                *)
(*                                                                         *)
(*   at[n]     the node is                                                 *)
(*   "idle"    not called                                                  *)
(*   "flush"   in flush(int), called by operator()                         *)
(*   "body"    past the event logic: objects are filled, visitors called   *)
(*   "final"   in flush(int), called by finalize()                         *)
(*   "release" in finalize(), about to release the sink                    *)
(***************************************************************************)
EXTENDS BeeSink, SequencesExt

\* The objects a node keeps: m_bee_dead_patches, to which each input adds;
\* m_bee_points and m_bee_flash, and m_bee_pf_trees, which an input fills anew.
Name == {"patches", "points", "layer"}

CONSTANTS
  Node,
  Emits,    \* the nodes whose "layer" is configured with emit_empty
  UseConfigRSE, \* the nodes with use_config_rse
  Body,     \* Body[n], what a call does past the event logic, in order: names
            \* of objects it fills, and "tagger", a visitor that writes
  Stream,   \* what every node is given: records [ident, meta, fills, skips],
            \* where fills names the objects the input has something for, and
            \* skips those whose grouping or graph it lacks; EOS last
  EOS,
  NoMeta,   \* the metadata have no runNo, subRunNo, eventNo
  Mode,     \* Mode[n] = [meta, from]: rse_from_metadata, and the fallback
            \* "ident" (rse_from_ident), "event" (event_from_ident), "config"
  RunOf,    \* rse_map: a function from some idents to runs
  FirstRSE  \* the configured runNo, eventNo
ASSUME StreamAssumption ==
  /\ Stream \in Seq(ToSet(Stream)) /\ FirstRSE \in Nat \X Nat
  /\ \A i \in DOMAIN Stream : Stream[i] # EOS =>
       /\ Stream[i].ident \in Nat /\ (Stream[i].meta # NoMeta => Stream[i].meta \in Nat \X Nat)
       /\ Stream[i].fills \subseteq Name /\ Stream[i].fills \cap Stream[i].skips = {}
ASSUME ModeAssumption ==
  /\ IsFiniteSet(Node) /\ \A i \in DOMAIN RunOf : RunOf[i] \in Nat
  /\ \A n \in Node : Mode[n].from \in {"ident", "event", "config"}
ASSUME BodyAssumption == Body \in [Node -> Seq(Name \cup {"tagger"})]

VARIABLES
  next,     \* next[n], the position in Stream of what n is given next
  at,
  last,     \* last[n], m_last_ident
  arg,      \* arg[n], the ident that flush(int) was called with
  pending,  \* pending[n], the names flush(int) has yet to write
  todo,     \* todo[n], what of Body[n] the call has yet to do
  index,    \* index[n], m_bee_event_index
  rse,      \* rse[n], m_runNo and m_eventNo
  buffer,   \* buffer[n][x], the positions whose data object x holds
  shared    \* the nodes with m_use_shared_sink

nodevars == <<next, at, last, arg, pending, todo, index, rse, buffer, shared>>

NodeTypeOK ==
  /\ next \in [Node -> 1..(Len(Stream) + 1)]
  /\ at \in [Node -> {"idle", "flush", "body", "final", "release"}]
  /\ last \in [Node -> Int] /\ arg \in [Node -> Int]
  /\ pending \in [Node -> Seq(Name)] /\ todo \in [Node -> Seq(Name \cup {"tagger"})]
  /\ index \in [Node -> Nat] /\ rse \in [Node -> Nat \X Nat]
  /\ buffer \in [Node -> [Name -> SUBSET DOMAIN Stream]]
  /\ shared \subseteq Node

NodeInit ==
  /\ next = [n \in Node |-> 1] /\ at = [n \in Node |-> "idle"]
  /\ last = [n \in Node |-> -1] /\ arg = [n \in Node |-> -1]
  /\ pending = [n \in Node |-> <<>>] /\ todo = [n \in Node |-> <<>>] /\ index = [n \in Node |-> 0]
  /\ rse = [n \in Node |-> FirstRSE]
  /\ buffer = [n \in Node |-> [x \in Name |-> {}]]
  /\ shared = {}

At(n, s) == at' = [at EXCEPT ![n] = s]

\* configure(), the part about the sink; it may have been configured or not.
NodeConfigure(n, initial) ==
  /\ Acquire
  /\ shared' = shared \cup {n}
  /\ index' = [index EXCEPT ![n] = initial]
  /\ UNCHANGED <<next, at, last, arg, pending, todo, rse, buffer>>

-----------------------------------------------------------------------------
\* Mutation: flush(-1) takes itself for the end although an event is kept.
NothingSinceAlways(n, ident) == ident < 0
\* flush(int) returns at once: nothing has come since the last flush.
NothingSince(n, ident) == last[n] < 0 /\ ident < 0

\* What flush(ident) writes: objects that are not empty, and the layer also if
\* it is, with emit_empty, unless this is a flush at the end.
ToFlush(n, ident) ==
  (IF buffer[n]["points"] # {} THEN <<"points">> ELSE <<>>)
  \o (IF buffer[n]["patches"] # {} THEN <<"patches">> ELSE <<>>)
  \o (IF buffer[n]["layer"] # {} \/ (n \in Emits /\ ident >= 0) THEN <<"layer">> ELSE <<>>)

\* flush(ident) is called at s.
Flush(n, ident, s) ==
  /\ At(n, s)
  /\ arg' = [arg EXCEPT ![n] = ident]
  /\ pending' = [pending EXCEPT ![n] = ToFlush(n, ident)]

\* The event numbers a node takes over from an input; is = "first" if none came
\* before, "next" if its ident is another one, else "same".
Resolved(n, in, is) ==
  IF Mode[n].meta /\ in.meta # NoMeta THEN in.meta
  ELSE IF is = "same" THEN rse[n]
  ELSE CASE Mode[n].from = "ident" -> <<0, in.ident>>
         [] Mode[n].from = "event" ->
              <<IF in.ident \in DOMAIN RunOf THEN RunOf[in.ident] ELSE rse[n][1], in.ident>>
         [] Mode[n].from = "config" ->
              IF is = "next" /\ n \in UseConfigRSE THEN <<rse[n][1], rse[n][2] + 1>>
              ELSE rse[n]

Resolve(n, is) == rse' = [rse EXCEPT ![n] = Resolved(n, Stream[next[n]], is)]

\* The body begins.
StartBody(n) == At(n, "body") /\ todo' = [todo EXCEPT ![n] = Body[n]]

\* Which call comes when is up to the engine (MC modules define it).
\* operator(), up to the body: the end of the stream,
CallEOS(n) ==
  /\ at[n] = "idle" /\ Stream[next[n]] = EOS
  /\ IF NothingSince(n, -1)
     THEN next' = [next EXCEPT ![n] = @ + 1] /\ UNCHANGED <<at, arg, pending>>
     ELSE Flush(n, -1, "flush") /\ UNCHANGED next
  /\ UNCHANGED <<last, todo, index, rse, buffer, shared, sinkvars>>

\* another event than the one that is kept: that is flushed first,
CallNext(n) ==
  /\ at[n] = "idle" /\ Stream[next[n]] # EOS
  /\ LET ident == Stream[next[n]].ident IN
       /\ last[n] >= 0 /\ last[n] # ident
       /\ Flush(n, ident, "flush")
  /\ UNCHANGED <<next, last, todo, index, rse, buffer, shared, sinkvars>>

\* the first event, or more of the same.
CallSame(n) ==
  /\ at[n] = "idle" /\ Stream[next[n]] # EOS
  /\ LET ident == Stream[next[n]].ident IN
       /\ last[n] < 0 \/ last[n] = ident
       /\ Resolve(n, IF last[n] < 0 THEN "first" ELSE "same")
       /\ last' = [last EXCEPT ![n] = ident]
  /\ StartBody(n)
  /\ UNCHANGED <<next, arg, pending, index, buffer, shared, sinkvars>>

\* write_obj() of one object that is flushed, which resets the object.
FlushWrite(n) ==
  /\ at[n] \in {"flush", "final"} /\ pending[n] # <<>>
  /\ LET x == Head(pending[n]) IN
       /\ Write(index[n], rse[n], [node |-> n, name |-> x, items |-> buffer[n][x]])
       /\ buffer' = [buffer EXCEPT ![n][x] = {}]
  /\ pending' = [pending EXCEPT ![n] = Tail(@)]
  /\ UNCHANGED <<next, at, last, arg, todo, index, rse, shared>>

\* Mutation: only the end of the stream counts.
AdvanceAtEnd(n) == index' = [index EXCEPT ![n] = IF arg[n] < 0 THEN @ + 1 ELSE @]
\* The end of flush(int) counts an event.
Advance(n) == index' = [index EXCEPT ![n] = @ + 1]

Flushed(n) ==
  /\ pending[n] = <<>>
  /\ Advance(n)
  /\ last' = [last EXCEPT ![n] = arg[n]]
  /\ UNCHANGED <<arg, pending, buffer, shared, sinkvars>>

\* Back in operator(), at the end of the stream,
EndStream(n) ==
  /\ at[n] = "flush" /\ arg[n] < 0
  /\ Flushed(n)
  /\ At(n, "idle") /\ next' = [next EXCEPT ![n] = @ + 1]
  /\ UNCHANGED <<todo, rse>>

\* or with a new event.
NewEvent(n) ==
  /\ at[n] = "flush" /\ arg[n] >= 0
  /\ Flushed(n)
  /\ Resolve(n, "next") /\ StartBody(n)
  /\ UNCHANGED next

\* The input of a call makes the node clear object x before it fills it: points
\* are reset() unless use_config_rse is set, a layer is replaced by what there
\* is, by nothing only with emit_empty; neither is touched without its grouping.
Replaces(n, x, in) ==
  /\ x \notin in.skips
  /\ \/ x = "points" /\ n \notin UseConfigRSE
     \/ x = "layer" /\ (n \in Emits \/ x \in in.fills)
\* Mutation: an input clears every object that it fills or might fill.
LeftNothing(n, x) == {}
\* What object x still holds of earlier inputs, in the call with next[n].
Left(n, x) == IF Replaces(n, x, Stream[next[n]]) THEN {} ELSE buffer[n][x]

\* One object is filled,
Fill(n) ==
  /\ at[n] = "body" /\ todo[n] # <<>> /\ Head(todo[n]) # "tagger"
  /\ LET x == Head(todo[n])
         new == IF x \in Stream[next[n]].fills THEN {next[n]} ELSE {}
     IN  buffer' = [buffer EXCEPT ![n][x] = Left(n, x) \cup new]
  /\ todo' = [todo EXCEPT ![n] = Tail(@)]
  /\ UNCHANGED <<next, at, last, arg, pending, index, rse, shared, sinkvars>>

\* or TaggerBeeVisitor writes to the same sink, under the index and the numbers
\* that operator() has published on the ensemble.
Visit(n) ==
  /\ at[n] = "body" /\ todo[n] # <<>> /\ Head(todo[n]) = "tagger"
  /\ Write(index[n], rse[n], [node |-> n, name |-> "tagger", items |-> {next[n]}])
  /\ todo' = [todo EXCEPT ![n] = Tail(@)]
  /\ UNCHANGED <<next, at, last, arg, pending, index, rse, buffer, shared>>

\* operator() returns.
Return(n) ==
  /\ at[n] = "body" /\ todo[n] = <<>>
  /\ At(n, "idle") /\ next' = [next EXCEPT ![n] = @ + 1]
  /\ UNCHANGED <<last, arg, pending, todo, index, rse, buffer, shared, sinkvars>>

\* A body raises, or a write does because there is no file.  What has been filled
\* stays, and points may have been reset and not filled.
MayFail(n) == \/ at[n] = "body"
              \/ at[n] = "flush" /\ pending[n] # <<>> /\ CannotWrite(rse[n])
ResetOnly(n) ==
  /\ at[n] = "body" /\ todo[n] # <<>> /\ Head(todo[n]) = "points"
  /\ buffer' = [buffer EXCEPT ![n]["points"] = Left(n, "points")]
Fail(n) ==
  /\ MayFail(n)
  /\ UNCHANGED buffer \/ ResetOnly(n)
  /\ At(n, "idle")
  /\ pending' = [pending EXCEPT ![n] = <<>>] /\ todo' = [todo EXCEPT ![n] = <<>>]
  /\ UNCHANGED <<next, last, arg, index, rse, shared, sinkvars>>

-----------------------------------------------------------------------------
\* finalize() calls flush(-1),
FinalizeFlush(n) ==
  /\ at[n] = "idle"
  /\ IF NothingSince(n, -1)
     THEN At(n, "release") /\ UNCHANGED <<arg, pending>>
     ELSE Flush(n, -1, "final")
  /\ UNCHANGED <<next, last, todo, index, rse, buffer, shared, sinkvars>>

FinalizeFlushed(n) ==
  /\ at[n] = "final"
  /\ Flushed(n)
  /\ At(n, "release")
  /\ UNCHANGED <<next, todo, rse>>

\* and releases the sink if the node has it.
FinalizeRelease(n) ==
  /\ at[n] = "release"
  /\ IF n \in shared THEN Release ELSE UNCHANGED sinkvars
  /\ At(n, "idle")
  /\ UNCHANGED <<next, last, arg, pending, todo, index, rse, buffer, shared>>
=============================================================================
