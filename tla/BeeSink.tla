------------------------------ MODULE BeeSink ------------------------------
(***************************************************************************)
(* The shared Bee sink of clus/src/BeeSink.cxx and the Bee::Sink of        *)
(* util/src/Bee.cxx inside of it.  Many nodes write to one zip file, at an *)
(* index each gives; the last to release the sink closes it.  A name with  *)
(* a conversion ("mabc-evt%d.zip") means one file for each event number.   *)
(* acquire(), release() and write() hold the mutex of the sink from end to *)
(* end: each is one operator here, one part of a node's step.              *)
(***************************************************************************)
EXTENDS Integers, Sequences, FiniteSets

CONSTANTS
  ZipFile, \* the names of zip files: event numbers, and
  Whole,   \* the file of a name without a conversion
  NoZip
ASSUME ZipAssumption == Whole \in ZipFile /\ NoZip \notin ZipFile

VARIABLES
  refs,       \* m_refs
  templated,  \* m_templated
  openEvt,    \* m_open_evt, -1 for none
  out,        \* the file m_sink.m_out is connected to, or NoZip
  m_index,    \* m_sink.m_index
  seen,       \* m_sink.m_seen
  files       \* the entries of each zip file: a sequence of <<index, rse, object>>

sinkvars == <<refs, templated, openEvt, out, m_index, seen, files>>

SinkTypeOK ==
  /\ refs \in Nat /\ templated \in BOOLEAN /\ openEvt \in Int
  /\ out \in ZipFile \cup {NoZip} /\ m_index \in Nat
  /\ \A z \in ZipFile : \A i \in DOMAIN files[z] : Len(files[z][i]) = 3

SinkInit == /\ refs = 0 /\ templated = FALSE /\ openEvt = -1
            /\ out = NoZip /\ m_index = 0 /\ seen = {}
            /\ files = [z \in ZipFile |-> <<>>]

\* BeeSink::configure(): a plain name is opened here, by Bee::Sink::reset(),
\* which makes the file anew.  References may be there already.
SinkConfigure(conversion) ==
  /\ templated' = conversion
  /\ IF conversion
     THEN UNCHANGED <<out, m_index, seen, files>>
     ELSE /\ out' = Whole /\ m_index' = 0 /\ seen' = {}
          /\ files' = [files EXCEPT ![Whole] = <<>>]
  /\ UNCHANGED <<refs, openEvt>>

Acquire == /\ refs' = refs + 1
           /\ UNCHANGED <<templated, openEvt, out, m_index, seen, files>>

\* Mutation: the file is closed by the first that is done.
ReleaseFirst ==
  /\ refs' = IF refs > 0 THEN refs - 1 ELSE 0
  /\ out' = NoZip /\ seen' = {} /\ openEvt' = -1
  /\ UNCHANGED <<templated, m_index, files>>

\* BeeSink::release().
Release ==
  /\ refs' = IF refs > 0 THEN refs - 1 ELSE 0
  /\ IF refs' = 0
     THEN out' = NoZip /\ seen' = {} /\ openEvt' = -1
     ELSE UNCHANGED <<out, seen, openEvt>>
  /\ UNCHANGED <<templated, m_index, files>>

\* The file an object of event evt goes to.
Target(evt) == IF templated THEN evt ELSE out
Reopens(evt) == templated /\ evt # openEvt

\* Bee::Sink numbers objects itself: a name that it has seen moves on to the
\* next index.  Both operators give <<m_index, seen>>.
Indexed(m, s, name) == IF name \in s THEN <<m + 1, {name}>> ELSE <<m, s \cup {name}>>

\* Mutation: the index is left to Bee::Sink.
SetIndexNot(index) == <<m_index, seen>>
\* set_index() also forgets the names.
SetIndex(index) == <<index, {}>>

\* BeeSink::write(obj, index, run, sub, evt), as long as there is a file to
\* write to: Bee::Sink::index() raises if not.  Files with a conversion in the
\* name all begin at the sink's own initial_index, here its default.
Write(index, rse, obj) ==
  LET evt == rse[2]
      set == SetIndex(IF templated THEN 0 ELSE index)
      now == Indexed(set[1], set[2], obj.name)
      old == IF Reopens(evt) THEN <<>> ELSE files[Target(evt)]
  IN  /\ Target(evt) # NoZip
      /\ files' = [files EXCEPT ![Target(evt)] = Append(old, <<now[1], rse, obj>>)]
      /\ out' = Target(evt)
      /\ openEvt' = IF templated THEN evt ELSE openEvt
      /\ m_index' = now[1] /\ seen' = now[2]
      /\ UNCHANGED <<refs, templated>>

\* It raises.
CannotWrite(rse) == Target(rse[2]) = NoZip
=============================================================================
