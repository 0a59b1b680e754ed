--------------------------- MODULE MainJobProofs ---------------------------
(***************************************************************************)
(* For any configuration files and any number of nodes, under either       *)
(* engine and whatever raises: whoever still has something to write finds  *)
(* the shared file open; everything in it stands where it belongs, nothing *)
(* twice; and at the end no node keeps back what it should have written.   *)
(***************************************************************************)
EXTENDS MainJob, TLAPS, FiniteSetTheorems, SequenceTheorems

\* What stands in a file.
Objects == Name \cup {"tagger"}
Written == Nat \X (Nat \X Nat) \X [node : Node, name : Objects, items : SUBSET DOMAIN Stream]

\* Each event number can be made the name of a file.
EveryEventNamed == Nat \subseteq ZipFile

-----------------------------------------------------------------------------
(* The inductive invariant.                                                *)

MainTyped ==
  /\ stage \in {"load", "construct", "configure", "run", "finalize", "gone"}
  /\ cfgfiles \in Seq(Seq(Entry)) /\ more \in Seq(Entry) /\ conf \in Seq(Entry)
  /\ pos \in 1 .. Len(conf) + 1
  /\ made \subseteq Node \cup {Sink}
  /\ raised \in BOOLEAN /\ engine \in {"pgraph", "tbb"}
SinkTyped ==
  /\ refs \in Nat /\ templated \in BOOLEAN /\ openEvt \in Int
  /\ out \in ZipFile \cup {NoZip} /\ m_index \in Nat
  /\ files \in [ZipFile -> Seq(Written)]
Typed == MainTyped /\ NodeTypeOK /\ SinkTyped

\* The loop of the stage has left the entry of component c behind.
Passed(c) == \E i \in DOMAIN conf : i < pos /\ conf[i].comp = c

Distinct(top) == \A i, j \in DOMAIN top : top[i].comp = top[j].comp => i = j

\* A component has one entry; that of the program itself is taken out.  Only
\* components that are made are configured, and nodes only when there is a sink.
Listed ==
  /\ Distinct(conf)
  /\ stage \in {"construct", "configure", "run"} => ~Has(conf, WireCell)
  /\ \A c \in made : Has(conf, c)
  /\ stage = "load" => made = {} /\ pos = 1
  /\ stage = "construct" => \A i \in DOMAIN conf : i < pos => conf[i].comp \in made
  /\ stage \in {"configure", "run"} => \A i \in DOMAIN conf : conf[i].comp \in made
  /\ stage \in {"load", "construct"} => shared = {}
  /\ shared \subseteq made
  /\ shared # {} => Sink \in made

\* The nodes that have acquired the sink and not released it.
Users == {n \in shared : stage # "gone" /\ ~(stage = "finalize" /\ Passed(n))}

\* The sink counts them.
Counted == /\ refs = Cardinality(Users)
           /\ stage = "configure" => \A n \in shared : Passed(n)

\* Once nodes run, or have run, the file is open as long as there is a user.
Opened ==
  /\ stage = "configure" /\ Passed(Sink) => templated \/ out # NoZip
  /\ (stage = "run" \/ \E n \in Node : last[n] >= 0) /\ Users # {} => templated \/ out # NoZip

\* Only a node that has the sink runs, and when it has an event that is not
\* flushed, it has come here by way of a run.
Working ==
  \A n \in Node :
    /\ stage \in {"load", "construct", "configure"} => last[n] < 0 /\ at[n] = "idle"
    /\ last[n] >= 0 => n \in shared
    /\ pending[n] # <<>> => at[n] \in {"flush", "final"}
    /\ at[n] \in {"flush", "body"} =>
         stage = "run" /\ n \in shared /\ last[n] >= 0 /\ next[n] \in DOMAIN Stream
    /\ at[n] = "body" \/ (at[n] = "flush" /\ arg[n] >= 0) => Stream[next[n]] # EOS
    /\ at[n] \in {"final", "release"} =>
         stage = "finalize" /\ pos <= Len(conf) /\ conf[pos].comp = n /\ n \in made
    /\ at[n] = "final" => last[n] >= 0

JobInv == Typed /\ Listed /\ Counted /\ Opened /\ Working

-----------------------------------------------------------------------------
(* Types: the sink.                                                        *)

LEMMA StreamIs ==
  /\ Len(Stream) \in Nat /\ DOMAIN Stream = 1 .. Len(Stream)
  /\ \A i \in DOMAIN Stream : Stream[i] # EOS =>
       Stream[i].ident \in Nat /\ (Stream[i].meta # NoMeta => Stream[i].meta \in Nat \X Nat)
BY StreamAssumption

\* The entry that is written.
LEMMA WriteTyped ==
  ASSUME SinkTyped, EveryEventNamed, NEW i \in Nat, NEW e \in Nat \X Nat,
         NEW obj \in [node : Node, name : Objects, items : SUBSET DOMAIN Stream],
         Write(i, e, obj)
  PROVE  SinkTyped' /\ out' # NoZip
<1> DEFINE evt == e[2]
           set == SetIndex(IF templated THEN 0 ELSE i)
           now == Indexed(set[1], set[2], obj.name)
           old == IF Reopens(evt) THEN <<>> ELSE files[Target(evt)]
           one == <<now[1], e, obj>>
<1>1. evt \in Nat /\ Target(evt) # NoZip /\ Target(evt) \in ZipFile
  <2>1. evt \in Nat /\ Target(evt) # NoZip
    BY DEF Write
  <2> QED BY <2>1 DEF Target, SinkTyped, EveryEventNamed
<1>2. now[1] \in Nat
  BY DEF SetIndex, Indexed
<1>3. one \in Written
  BY <1>2 DEF Written
<1>4. old \in Seq(Written)
  BY <1>1 DEF SinkTyped
<1>5. /\ files' = [files EXCEPT ![Target(evt)] = Append(old, one)]
      /\ out' = Target(evt) /\ openEvt' = IF templated THEN evt ELSE openEvt
      /\ m_index' = now[1] /\ UNCHANGED <<refs, templated>>
  BY DEF Write
<1> HIDE DEF evt, now, old, one
<1>6. Append(old, one) \in Seq(Written)
  BY <1>3, <1>4
<1>7. files' \in [ZipFile -> Seq(Written)]
  BY <1>5, <1>6 DEF SinkTyped
<1> QED BY <1>1, <1>2, <1>5, <1>7 DEF SinkTyped

LEMMA SinkConfigured ==
  ASSUME SinkTyped, NEW conversion \in BOOLEAN, SinkConfigure(conversion)
  PROVE  SinkTyped' /\ (templated' \/ out' # NoZip)
<1>1. <<>> \in Seq(Written)
  OBVIOUS
<1>2. files' \in [ZipFile -> Seq(Written)]
  BY <1>1 DEF SinkTyped, SinkConfigure
<1> QED BY <1>2, ZipAssumption DEF SinkTyped, SinkConfigure

LEMMA Released ==
  ASSUME SinkTyped, Release
  PROVE  /\ SinkTyped' /\ templated' = templated
         /\ refs' = IF refs > 0 THEN refs - 1 ELSE 0
         /\ refs' # 0 => out' = out
BY DEF SinkTyped, Release

-----------------------------------------------------------------------------
(* Types: a node.                                                          *)

Once(s) == \A p, q \in DOMAIN s : s[p] = s[q] => p = q

LEMMA InToSet ==
  ASSUME NEW s, NEW x
  PROVE  x \in ToSet(s) <=> \E p \in DOMAIN s : s[p] = x
BY DEF ToSet

\* A name, if condition c holds.
Some(c, x) == IF c THEN <<x>> ELSE <<>>

LEMMA SomeIs ==
  ASSUME NEW c \in BOOLEAN, NEW x \in Name
  PROVE  /\ Some(c, x) \in Seq(Name) /\ Once(Some(c, x))
         /\ \A y : y \in ToSet(Some(c, x)) <=> c /\ y = x
<1>1. CASE c
  <2> DEFINE s == <<x>>
  <2>1. Some(c, x) = s
    BY <1>1 DEF Some
  <2>2. s \in Seq(Name) /\ DOMAIN s = {1} /\ s[1] = x
    OBVIOUS
  <2> HIDE DEF s
  <2>3. Once(s) /\ ToSet(s) = {x}
    BY <2>2 DEF Once, ToSet
  <2> QED BY <1>1, <2>1, <2>2, <2>3
<1>2. CASE ~c
  <2> DEFINE s == <<>>
  <2>1. Some(c, x) = s
    BY <1>2 DEF Some
  <2>2. s \in Seq(Name) /\ DOMAIN s = {}
    OBVIOUS
  <2> HIDE DEF s
  <2>3. Once(s) /\ ToSet(s) = {}
    BY <2>2 DEF Once, ToSet
  <2> QED BY <1>2, <2>1, <2>2, <2>3
<1> QED BY <1>1, <1>2

\* One sequence of names after another.
LEMMA Joined ==
  ASSUME NEW a \in Seq(Name), NEW b \in Seq(Name)
  PROVE  /\ a \o b \in Seq(Name) /\ ToSet(a \o b) = ToSet(a) \cup ToSet(b)
         /\ (Once(a) /\ Once(b) /\ ToSet(a) \cap ToSet(b) = {}) => Once(a \o b)
<1> DEFINE m == Len(a)
           n == Len(b)
           all == a \o b
<1>1. /\ m \in Nat /\ n \in Nat /\ DOMAIN a = 1 .. m /\ DOMAIN b = 1 .. n
      /\ all \in Seq(Name) /\ DOMAIN all = 1 .. m + n
      /\ \A i \in 1 .. m + n : all[i] = IF i <= m THEN a[i] ELSE b[i - m]
  BY ConcatProperties
<1> HIDE DEF m, n, all
<1>2. \A i \in 1 .. m : i \in 1 .. m + n /\ all[i] = a[i]
  BY <1>1
<1>3. \A i \in 1 .. n : m + i \in 1 .. m + n /\ all[m + i] = b[i]
  BY <1>1
<1>4. \A i \in 1 .. m + n :
        (i \in 1 .. m /\ all[i] = a[i]) \/ (i - m \in 1 .. n /\ all[i] = b[i - m])
  BY <1>1
<1>5. ToSet(all) = ToSet(a) \cup ToSet(b)
  <2>1. ASSUME NEW y \in ToSet(all) PROVE y \in ToSet(a) \cup ToSet(b)
    <3>1. PICK i \in 1 .. m + n : all[i] = y
      BY <1>1, <2>1, InToSet
    <3> QED BY <1>1, <1>4, <3>1, InToSet
  <2>2. ASSUME NEW y \in ToSet(a) PROVE y \in ToSet(all)
    <3>1. PICK i \in 1 .. m : a[i] = y
      BY <1>1, <2>2, InToSet
    <3> QED BY <1>1, <1>2, <3>1, InToSet
  <2>3. ASSUME NEW y \in ToSet(b) PROVE y \in ToSet(all)
    <3>1. PICK i \in 1 .. n : b[i] = y
      BY <1>1, <2>3, InToSet
    <3> QED BY <1>1, <1>3, <3>1, InToSet
  <2> QED BY <2>1, <2>2, <2>3
<1>6. ASSUME Once(a), Once(b), ToSet(a) \cap ToSet(b) = {} PROVE Once(all)
  <2> SUFFICES ASSUME NEW i \in 1 .. m + n, NEW j \in 1 .. m + n, all[i] = all[j] PROVE i = j
    BY <1>1 DEF Once
  <2>1. \A p \in 1 .. m, q \in 1 .. n : a[p] # b[q]
    BY <1>1, <1>6 DEF ToSet
  <2>2. CASE i \in 1 .. m /\ all[i] = a[i]
    <3>1. j \in 1 .. m /\ all[j] = a[j]
      BY <1>4, <2>1, <2>2
    <3> QED BY <1>1, <1>6, <2>2, <3>1 DEF Once
  <2>3. CASE i - m \in 1 .. n /\ all[i] = b[i - m]
    <3>1. j - m \in 1 .. n /\ all[j] = b[j - m]
      BY <1>4, <2>1, <2>3
    <3>2. i - m = j - m
      BY <1>1, <1>6, <2>3, <3>1 DEF Once
    <3> QED BY <1>1, <3>2
  <2> QED BY <1>4, <2>2, <2>3
<1> QED BY <1>1, <1>5, <1>6 DEF all

\* What is flushed: all that is kept, each object once.
LEMMA ToFlushIs ==
  ASSUME NEW n, NEW ident
  PROVE  /\ ToFlush(n, ident) \in Seq(Name) /\ Once(ToFlush(n, ident))
         /\ \A x \in Name : x \in ToSet(ToFlush(n, ident)) <=>
              buffer[n][x] # {} \/ (x = "layer" /\ n \in Emits /\ ident >= 0)
<1> DEFINE a == Some(buffer[n]["points"] # {}, "points")
           b == Some(buffer[n]["patches"] # {}, "patches")
           c == Some(buffer[n]["layer"] # {} \/ (n \in Emits /\ ident >= 0), "layer")
<1>1. ToFlush(n, ident) = a \o b \o c
  BY DEF ToFlush, Some
<1>2. /\ a \in Seq(Name) /\ Once(a)
      /\ \A y : y \in ToSet(a) <=> buffer[n]["points"] # {} /\ y = "points"
  BY SomeIs DEF Name
<1>3. /\ b \in Seq(Name) /\ Once(b)
      /\ \A y : y \in ToSet(b) <=> buffer[n]["patches"] # {} /\ y = "patches"
  BY SomeIs DEF Name
<1>4. /\ c \in Seq(Name) /\ Once(c)
      /\ \A y : y \in ToSet(c) <=>
           (buffer[n]["layer"] # {} \/ (n \in Emits /\ ident >= 0)) /\ y = "layer"
  BY SomeIs DEF Name
<1> HIDE DEF a, b, c
<1>5. a \o b \in Seq(Name) /\ ToSet(a \o b) = ToSet(a) \cup ToSet(b) /\ Once(a \o b)
  BY <1>2, <1>3, Joined
<1> DEFINE d == a \o b
<1>6. d \in Seq(Name) /\ ToSet(d) = ToSet(a) \cup ToSet(b) /\ Once(d)
  BY <1>5
<1> HIDE DEF d
<1>7. ToSet(d) \cap ToSet(c) = {}
  BY <1>2, <1>3, <1>4, <1>6
<1>8. d \o c \in Seq(Name) /\ ToSet(d \o c) = ToSet(d) \cup ToSet(c) /\ Once(d \o c)
  BY <1>4, <1>6, <1>7, Joined
<1>9. \A x \in Name : x \in ToSet(d \o c) <=>
        buffer[n][x] # {} \/ (x = "layer" /\ n \in Emits /\ ident >= 0)
  BY <1>2, <1>3, <1>4, <1>6, <1>8 DEF Name
<1> QED BY <1>1, <1>8, <1>9 DEF d

LEMMA FlushTyped ==
  ASSUME NodeTypeOK, NEW n \in Node, NEW ident \in Int, NEW s \in {"flush", "final"},
         Flush(n, ident, s)
  PROVE  /\ at' = [at EXCEPT ![n] = s] /\ arg' = [arg EXCEPT ![n] = ident]
         /\ at' \in [Node -> {"idle", "flush", "body", "final", "release"}]
         /\ arg' \in [Node -> Int] /\ pending' \in [Node -> Seq(Name)]
         /\ \A m \in Node \ {n} : pending'[m] = pending[m]
BY ToFlushIs DEF Flush, At, NodeTypeOK

LEMMA ResolvedTyped ==
  ASSUME NodeTypeOK, NEW n \in Node, NEW is, next[n] \in DOMAIN Stream, Stream[next[n]] # EOS,
         Resolve(n, is)
  PROVE  rse' \in [Node -> Nat \X Nat]
<1> DEFINE in == Stream[next[n]]
<1>1. in.ident \in Nat /\ (in.meta # NoMeta => in.meta \in Nat \X Nat)
  BY StreamIs
<1>2. rse[n] \in Nat \X Nat
  BY DEF NodeTypeOK
<1> HIDE DEF in
<1>3. Resolved(n, in, is) \in Nat \X Nat
  <2>1. CASE Mode[n].from = "ident"
    BY <1>1, <1>2, <2>1 DEF Resolved
  <2>2. CASE Mode[n].from = "event"
    <3>1. \A i \in DOMAIN RunOf : RunOf[i] \in Nat
      BY ModeAssumption
    <3> QED BY <1>1, <1>2, <2>2, <3>1 DEF Resolved
  <2>3. CASE Mode[n].from = "config"
    BY <1>1, <1>2, <2>3 DEF Resolved
  <2> QED BY <2>1, <2>2, <2>3, ModeAssumption
<1> QED BY <1>3 DEF Resolve, NodeTypeOK, in

\* A call begins.
LEMMA BodyTyped == Body \in [Node -> Seq(Objects)]
BY BodyAssumption DEF Objects

LEMMA CallTyped ==
  ASSUME NodeTypeOK, NEW n \in Node, next[n] \in DOMAIN Stream,
         CallEOS(n) \/ CallNext(n) \/ CallSame(n)
  PROVE  NodeTypeOK' /\ UNCHANGED sinkvars
<1>0. next[n] \in 1 .. Len(Stream) /\ Len(Stream) \in Nat
  BY StreamIs
<1>1. CASE CallEOS(n)
  <2>1. CASE Flush(n, -1, "flush") /\ UNCHANGED next
    <3>1. /\ at' \in [Node -> {"idle", "flush", "body", "final", "release"}]
          /\ arg' \in [Node -> Int] /\ pending' \in [Node -> Seq(Name)]
      BY <2>1, FlushTyped
    <3>2. UNCHANGED <<last, todo, index, rse, buffer, shared, sinkvars>>
      BY <1>1 DEF CallEOS
    <3> QED BY <2>1, <3>1, <3>2 DEF NodeTypeOK
  <2>2. CASE next' = [next EXCEPT ![n] = @ + 1] /\ UNCHANGED <<at, arg, pending>>
    <3>1. UNCHANGED <<last, todo, index, rse, buffer, shared, sinkvars>>
      BY <1>1 DEF CallEOS
    <3>2. next' \in [Node -> 1 .. Len(Stream) + 1]
      BY <1>0, <2>2 DEF NodeTypeOK
    <3> QED BY <2>2, <3>1, <3>2 DEF NodeTypeOK
  <2> QED BY <1>1, <2>1, <2>2 DEF CallEOS
<1>2. CASE CallNext(n)
  <2>1. Stream[next[n]].ident \in Int /\ Flush(n, Stream[next[n]].ident, "flush")
    BY <1>2, StreamIs DEF CallNext
  <2> QED BY <1>2, <2>1, FlushTyped DEF CallNext, NodeTypeOK
<1>3. CASE CallSame(n)
  <2>1. Stream[next[n]].ident \in Int
    BY <1>3, StreamIs DEF CallSame
  <2>2. rse' \in [Node -> Nat \X Nat]
    BY <1>3, ResolvedTyped DEF CallSame
  <2>3. todo' \in [Node -> Seq(Objects)]
    BY <1>3, BodyTyped DEF CallSame, StartBody, NodeTypeOK, Objects
  <2>4. at' \in [Node -> {"idle", "flush", "body", "final", "release"}]
    BY <1>3 DEF CallSame, StartBody, At, NodeTypeOK
  <2>5. last' \in [Node -> Int]
    BY <1>3, <2>1 DEF CallSame, NodeTypeOK
  <2> QED BY <1>3, <2>2, <2>3, <2>4, <2>5 DEF CallSame, NodeTypeOK, Objects
<1> QED BY <1>1, <1>2, <1>3

\* An object of the node is written and forgotten.
LEMMA FlushWriteTyped ==
  ASSUME NodeTypeOK, SinkTyped, EveryEventNamed, NEW n \in Node, FlushWrite(n)
  PROVE  NodeTypeOK' /\ SinkTyped' /\ out' # NoZip
<1> DEFINE x == Head(pending[n])
           obj == [node |-> n, name |-> x, items |-> buffer[n][x]]
<1>1. x \in Name /\ Tail(pending[n]) \in Seq(Name)
  BY DEF FlushWrite, NodeTypeOK
<1> HIDE DEF x
<1>2. /\ x \in Objects /\ buffer[n] \in [Name -> SUBSET DOMAIN Stream]
      /\ buffer[n][x] \in SUBSET DOMAIN Stream
  <2>1. buffer[n] \in [Name -> SUBSET DOMAIN Stream]
    BY DEF NodeTypeOK
  <2>2. x \in Objects
    BY <1>1 DEF Objects
  <2>3. buffer[n][x] \in SUBSET DOMAIN Stream
    BY <1>1, <2>1
  <2> QED BY <2>1, <2>2, <2>3
<1> USE DEF x
<1>3. obj \in [node : Node, name : Objects, items : SUBSET DOMAIN Stream]
  BY <1>2
<1>4. index[n] \in Nat /\ rse[n] \in Nat \X Nat
  BY DEF NodeTypeOK
<1>5. Write(index[n], rse[n], obj)
  BY DEF FlushWrite
<1>6. SinkTyped' /\ out' # NoZip
  BY <1>3, <1>4, <1>5, WriteTyped
<1>7. /\ buffer' = [buffer EXCEPT ![n][x] = {}] /\ pending' = [pending EXCEPT ![n] = Tail(@)]
      /\ UNCHANGED <<next, at, last, arg, todo, index, rse, shared>>
  BY DEF FlushWrite
<1> HIDE DEF x, obj
<1>8. buffer' \in [Node -> [Name -> SUBSET DOMAIN Stream]]
  <2>1. [buffer[n] EXCEPT ![x] = {}] \in [Name -> SUBSET DOMAIN Stream]
    BY <1>2
  <2>2. buffer' = [buffer EXCEPT ![n] = [buffer[n] EXCEPT ![x] = {}]]
    BY <1>7
  <2> QED BY <2>1, <2>2 DEF NodeTypeOK
<1>9. pending' \in [Node -> Seq(Name)]
  BY <1>1, <1>7 DEF NodeTypeOK, x
<1> QED BY <1>6, <1>7, <1>8, <1>9 DEF NodeTypeOK

LEMMA FlushedTyped ==
  ASSUME NodeTypeOK, NEW n \in Node, Flushed(n)
  PROVE  /\ index' \in [Node -> Nat] /\ last' = [last EXCEPT ![n] = arg[n]]
         /\ last' \in [Node -> Int]
         /\ UNCHANGED <<arg, pending, buffer, shared, sinkvars>>
BY DEF NodeTypeOK, Flushed, Advance

LEMMA TodoTyped ==
  ASSUME NodeTypeOK, NEW n \in Node, todo[n] # <<>>
  PROVE  Head(todo[n]) \in Objects /\ Tail(todo[n]) \in Seq(Objects)
<1>1. todo[n] \in Seq(Objects)
  BY DEF NodeTypeOK, Objects
<1> QED BY <1>1

\* An object of a node holds something else.
LEMMA BufferTyped ==
  ASSUME NodeTypeOK, NEW n \in Node, NEW x \in Name, NEW b \in SUBSET DOMAIN Stream,
         buffer' = [buffer EXCEPT ![n][x] = b]
  PROVE  /\ buffer' \in [Node -> [Name -> SUBSET DOMAIN Stream]]
         /\ \A m \in Node, y \in Name :
              buffer'[m][y] = IF m = n /\ y = x THEN b ELSE buffer[m][y]
<1>1. buffer[n] \in [Name -> SUBSET DOMAIN Stream] /\ buffer \in [Node -> [Name -> SUBSET DOMAIN Stream]]
  BY DEF NodeTypeOK
<1> DEFINE one == [buffer[n] EXCEPT ![x] = b]
<1>2. one \in [Name -> SUBSET DOMAIN Stream] /\ \A y \in Name : one[y] = IF y = x THEN b ELSE buffer[n][y]
  BY <1>1
<1>3. buffer' = [buffer EXCEPT ![n] = one]
  OBVIOUS
<1> HIDE DEF one
<1>4. buffer' \in [Node -> [Name -> SUBSET DOMAIN Stream]]
  BY <1>1, <1>2, <1>3
<1>5. \A m \in Node : buffer'[m] = IF m = n THEN one ELSE buffer[m]
  BY <1>1, <1>3
<1> QED BY <1>2, <1>4, <1>5

LEMMA LeftTyped ==
  ASSUME NodeTypeOK, NEW n \in Node, NEW x \in Name
  PROVE  Left(n, x) \in SUBSET DOMAIN Stream
BY DEF Left, NodeTypeOK

\* An object is filled.
LEMMA FillTyped ==
  ASSUME NodeTypeOK, NEW n \in Node, next[n] \in DOMAIN Stream, Fill(n)
  PROVE  NodeTypeOK'
<1> DEFINE x == Head(todo[n])
           new == IF x \in Stream[next[n]].fills THEN {next[n]} ELSE {}
<1>1. x \in Name /\ Tail(todo[n]) \in Seq(Objects)
  BY TodoTyped DEF Fill, Objects
<1>2. /\ buffer' = [buffer EXCEPT ![n][x] = Left(n, x) \cup new]
      /\ todo' = [todo EXCEPT ![n] = Tail(@)]
      /\ UNCHANGED <<next, at, last, arg, pending, index, rse, shared>>
  BY DEF Fill
<1>3. todo' \in [Node -> Seq(Objects)]
  BY <1>1, <1>2 DEF NodeTypeOK, Objects
<1>4. Left(n, x) \cup new \in SUBSET DOMAIN Stream
  BY <1>1, LeftTyped
<1> HIDE DEF x, new
<1>5. buffer' \in [Node -> [Name -> SUBSET DOMAIN Stream]]
  <2> DEFINE b == Left(n, x) \cup new
  <2>1. buffer' = [buffer EXCEPT ![n][x] = b] /\ b \in SUBSET DOMAIN Stream
    BY <1>2, <1>4
  <2> HIDE DEF b
  <2> QED BY <1>1, <2>1, BufferTyped
<1> QED BY <1>2, <1>3, <1>5 DEF NodeTypeOK, Objects

\* A body goes on.
LEMMA GoOnTyped ==
  ASSUME NodeTypeOK, SinkTyped, EveryEventNamed, Working, NEW n \in Node, GoOn(n)
  PROVE  NodeTypeOK' /\ SinkTyped'
<1>0. /\ at[n] \in {"flush", "body"} => next[n] \in DOMAIN Stream
      /\ at[n] = "body" \/ (at[n] = "flush" /\ arg[n] >= 0) => Stream[next[n]] # EOS
      /\ DOMAIN Stream = 1 .. Len(Stream) /\ Len(Stream) \in Nat
  BY StreamIs DEF Working
<1>1. CASE FlushWrite(n)
  BY <1>1, FlushWriteTyped
<1>2. CASE EndStream(n)
  <2>1. Flushed(n) /\ next[n] \in 1 .. Len(Stream)
    BY <1>0, <1>2 DEF EndStream
  <2>2. /\ next' = [next EXCEPT ![n] = @ + 1] /\ at' = [at EXCEPT ![n] = "idle"]
        /\ UNCHANGED <<todo, rse>>
    BY <1>2 DEF EndStream, At
  <2>3. next' \in [Node -> 1 .. Len(Stream) + 1]
    BY <1>0, <2>1, <2>2 DEF NodeTypeOK
  <2> QED BY <2>1, <2>2, <2>3, FlushedTyped DEF NodeTypeOK, SinkTyped, sinkvars
<1>3. CASE NewEvent(n)
  <2>1. /\ Flushed(n) /\ next' = next /\ at' = [at EXCEPT ![n] = "body"]
        /\ todo' = [todo EXCEPT ![n] = Body[n]]
    BY <1>3 DEF NewEvent, StartBody, At
  <2>2. rse' \in [Node -> Nat \X Nat]
    BY <1>0, <1>3, ResolvedTyped DEF NewEvent
  <2>3. todo' \in [Node -> Seq(Objects)]
    BY <2>1, BodyTyped DEF NodeTypeOK, Objects
  <2> QED BY <2>1, <2>2, <2>3, FlushedTyped DEF NodeTypeOK, SinkTyped, sinkvars, Objects
<1>4. CASE Visit(n)
  <2>1. NodeTypeOK'
    <3>1. todo' \in [Node -> Seq(Objects)]
      BY <1>4, TodoTyped DEF Visit, NodeTypeOK, Objects
    <3> QED BY <1>4, <3>1 DEF Visit, NodeTypeOK, Objects
  <2> DEFINE obj == [node |-> n, name |-> "tagger", items |-> {next[n]}]
  <2>2. obj \in [node : Node, name : Objects, items : SUBSET DOMAIN Stream]
    <3>1. next[n] \in DOMAIN Stream
      BY <1>0, <1>4 DEF Visit
    <3>2. {next[n]} \in SUBSET DOMAIN Stream /\ "tagger" \in Objects
      BY <3>1 DEF Objects
    <3> QED BY <3>2
  <2>3. index[n] \in Nat /\ rse[n] \in Nat \X Nat /\ Write(index[n], rse[n], obj)
    BY <1>4 DEF Visit, NodeTypeOK
  <2> HIDE DEF obj
  <2> QED BY <2>1, <2>2, <2>3, WriteTyped
<1>5. CASE Fill(n)
  BY <1>0, <1>5, FillTyped DEF Fill, sinkvars, SinkTyped
<1>6. CASE Return(n)
  <2>1. /\ next' = [next EXCEPT ![n] = @ + 1] /\ at' = [at EXCEPT ![n] = "idle"]
        /\ UNCHANGED <<last, arg, pending, todo, index, rse, buffer, shared, sinkvars>>
    BY <1>6 DEF Return, At
  <2>2. next[n] \in DOMAIN Stream
    BY <1>0, <1>6 DEF Return
  <2>3. next' \in [Node -> 1 .. Len(Stream) + 1]
    BY <1>0, <2>1, <2>2 DEF NodeTypeOK
  <2> QED BY <2>1, <2>3 DEF NodeTypeOK, SinkTyped, sinkvars
<1> QED BY <1>1, <1>2, <1>3, <1>4, <1>5, <1>6 DEF GoOn

LEMMA FailTyped ==
  ASSUME NodeTypeOK, NEW n \in Node, Fail(n)
  PROVE  NodeTypeOK' /\ UNCHANGED sinkvars
<1>1. <<>> \in Seq(Name) /\ <<>> \in Seq(Objects)
  OBVIOUS
<1>2. /\ at' = [at EXCEPT ![n] = "idle"] /\ pending' = [pending EXCEPT ![n] = <<>>]
      /\ todo' = [todo EXCEPT ![n] = <<>>]
      /\ UNCHANGED <<next, last, arg, index, rse, shared, sinkvars>>
  BY DEF Fail, At
<1>3. buffer' \in [Node -> [Name -> SUBSET DOMAIN Stream]]
  <2>1. CASE UNCHANGED buffer
    BY <2>1 DEF NodeTypeOK
  <2>2. CASE ResetOnly(n)
    <3> DEFINE b == Left(n, "points")
    <3>1. "points" \in Name
      BY DEF Name
    <3>2. b \in SUBSET DOMAIN Stream
      BY <3>1, LeftTyped
    <3>3. buffer' = [buffer EXCEPT ![n]["points"] = b]
      BY <2>2 DEF ResetOnly
    <3> HIDE DEF b
    <3> QED BY <3>1, <3>2, <3>3, BufferTyped
  <2> QED BY <2>1, <2>2 DEF Fail
<1> QED BY <1>1, <1>2, <1>3 DEF NodeTypeOK, Objects

\* A node is finalized.
LEMMA FinalTyped ==
  ASSUME NodeTypeOK, SinkTyped, EveryEventNamed, NEW n \in Node,
         FinalizeFlush(n) \/ FlushWrite(n) \/ FinalizeFlushed(n) \/ FinalizeRelease(n)
  PROVE  NodeTypeOK' /\ SinkTyped'
<1>1. CASE FinalizeFlush(n)
  <2>1. UNCHANGED <<next, last, todo, index, rse, buffer, shared, sinkvars>>
    BY <1>1 DEF FinalizeFlush
  <2>2. CASE Flush(n, -1, "final")
    <3>1. /\ at' \in [Node -> {"idle", "flush", "body", "final", "release"}]
          /\ arg' \in [Node -> Int] /\ pending' \in [Node -> Seq(Name)]
      BY <2>2, FlushTyped
    <3> QED BY <2>1, <3>1 DEF NodeTypeOK, SinkTyped, sinkvars
  <2>3. CASE At(n, "release") /\ UNCHANGED <<arg, pending>>
    BY <2>1, <2>3 DEF At, NodeTypeOK, SinkTyped, sinkvars
  <2> QED BY <1>1, <2>2, <2>3 DEF FinalizeFlush
<1>2. CASE FlushWrite(n)
  BY <1>2, FlushWriteTyped
<1>3. CASE FinalizeFlushed(n)
  <2>1. Flushed(n) /\ at' = [at EXCEPT ![n] = "release"] /\ UNCHANGED <<next, todo, rse>>
    BY <1>3 DEF FinalizeFlushed, At
  <2> QED BY <2>1, FlushedTyped DEF NodeTypeOK, SinkTyped, sinkvars
<1>4. CASE FinalizeRelease(n)
  <2>1. /\ at' = [at EXCEPT ![n] = "idle"]
        /\ UNCHANGED <<next, last, arg, pending, todo, index, rse, buffer, shared>>
    BY <1>4 DEF FinalizeRelease, At
  <2>2. SinkTyped'
    BY <1>4, Released DEF FinalizeRelease, SinkTyped, sinkvars
  <2> QED BY <2>1, <2>2 DEF NodeTypeOK
<1> QED BY <1>1, <1>2, <1>3, <1>4

LEMMA ConfiguredTyped ==
  ASSUME NodeTypeOK, SinkTyped, NEW n \in Node, NEW initial \in Nat, NodeConfigure(n, initial)
  PROVE  NodeTypeOK' /\ SinkTyped'
<1>1. /\ refs' = refs + 1 /\ UNCHANGED <<templated, openEvt, out, m_index, seen, files>>
      /\ shared' = shared \cup {n} /\ index' = [index EXCEPT ![n] = initial]
      /\ UNCHANGED <<next, at, last, arg, pending, todo, rse, buffer>>
  BY DEF NodeConfigure, Acquire
<1>2. SinkTyped'
  BY <1>1 DEF SinkTyped
<1>3. index' \in [Node -> Nat]
  BY <1>1 DEF NodeTypeOK
<1> QED BY <1>1, <1>2, <1>3 DEF NodeTypeOK

-----------------------------------------------------------------------------
(* Types: the job.                                                         *)

LEMMA DomainIs ==
  ASSUME NEW top \in Seq(Entry)
  PROVE  /\ DOMAIN top = 1 .. Len(top) /\ Len(top) \in Nat
         /\ \A i \in DOMAIN top : top[i] \in Entry
OBVIOUS

\* A component keeps one entry when one more is merged.
LEMMA Merged ==
  ASSUME NEW top \in Seq(Entry), NEW one \in Entry, Distinct(top)
  PROVE  Merge(top, one) \in Seq(Entry) /\ Distinct(Merge(top, one))
<1> DEFINE new == [i \in DOMAIN top |-> IF top[i].comp = one.comp THEN one ELSE top[i]]
<1>0. DOMAIN top = 1 .. Len(top) /\ Len(top) \in Nat /\ \A i \in DOMAIN top : top[i] \in Entry
  BY DomainIs
<1>1. CASE Has(top, one.comp)
  <2>1. Merge(top, one) = new
    BY <1>1 DEF Merge
  <2>2. new \in [1 .. Len(top) -> Entry]
    BY <1>0
  <2>3. new \in Seq(Entry)
    BY <1>0, <2>2, SeqDef
  <2>4. \A i \in DOMAIN top : new[i].comp = top[i].comp
    OBVIOUS
  <2>5. DOMAIN new = DOMAIN top
    OBVIOUS
  <2> HIDE DEF new
  <2>6. Distinct(new)
    BY <2>4, <2>5 DEF Distinct
  <2> QED BY <2>1, <2>3, <2>6
<1>2. CASE ~Has(top, one.comp)
  <2>1. Merge(top, one) = Append(top, one)
    BY <1>2 DEF Merge
  <2>2. /\ Append(top, one) \in Seq(Entry) /\ Len(Append(top, one)) = Len(top) + 1
        /\ \A i \in 1 .. Len(top) : Append(top, one)[i] = top[i]
        /\ Append(top, one)[Len(top) + 1] = one
    BY <1>0, AppendProperties
  <2>3. DOMAIN Append(top, one) = 1 .. Len(top) + 1
    BY <2>2, DomainIs
  <2>4. \A i \in DOMAIN top : top[i].comp # one.comp
    BY <1>2 DEF Has
  <2>5. Distinct(Append(top, one))
    <3> SUFFICES ASSUME NEW i \in 1 .. Len(top) + 1, NEW j \in 1 .. Len(top) + 1,
                        Append(top, one)[i].comp = Append(top, one)[j].comp
                 PROVE  i = j
      BY <2>3 DEF Distinct
    <3>1. \A k \in 1 .. Len(top) + 1 : k \in DOMAIN top \/ k = Len(top) + 1
      BY <1>0
    <3> QED BY <1>0, <2>2, <2>4, <3>1 DEF Distinct
  <2> QED BY <2>1, <2>2, <2>5
<1> QED BY <1>1, <1>2

\* A sequence without its i-th element.
LEMMA RemovedAt ==
  ASSUME NEW S, NEW s \in Seq(S), NEW i \in 1 .. Len(s)
  PROVE  /\ RemoveAt(s, i) \in Seq(S)
         /\ Len(RemoveAt(s, i)) = Len(s) - 1
         /\ \A j \in 1 .. Len(s) - 1 : RemoveAt(s, i)[j] = IF j < i THEN s[j] ELSE s[j + 1]
<1> DEFINE n == Len(s)
           a == SubSeq(s, 1, i - 1)
           b == SubSeq(s, i + 1, n)
<1>1. n \in Nat /\ i \in 1 .. n /\ \A j \in 1 .. n : s[j] \in S
  OBVIOUS
<1> HIDE DEF n
<1>2. /\ a \in Seq(S) /\ Len(a) = i - 1
      /\ \A j \in 1 .. i - 1 : a[j] = s[j]
  <2> DEFINE m == i - 1
  <2>1. m \in Nat /\ \A j \in 1 .. m : s[j] \in S
    BY <1>1
  <2> HIDE DEF m
  <2>2. /\ SubSeq(s, 1, m) \in Seq(S)
        /\ Len(SubSeq(s, 1, m)) = IF 1 <= m THEN m - 1 + 1 ELSE 0
        /\ \A j \in 1 .. m - 1 + 1 : SubSeq(s, 1, m)[j] = s[1 + j - 1]
    BY <2>1, SubSeqProperties
  <2>3. /\ SubSeq(s, 1, m) \in Seq(S)
        /\ Len(SubSeq(s, 1, m)) = m
        /\ \A j \in 1 .. m : SubSeq(s, 1, m)[j] = s[j]
    BY <2>1, <2>2
  <2> QED BY <2>3 DEF m
<1>3. /\ b \in Seq(S) /\ Len(b) = n - i
      /\ \A j \in 1 .. n - i : b[j] = s[i + j]
  <2> DEFINE m == i + 1
  <2>1. m \in Int /\ m <= n + 1 /\ m = i + 1 /\ \A j \in m .. n : s[j] \in S
    BY <1>1
  <2> HIDE DEF m
  <2>2. /\ SubSeq(s, m, n) \in Seq(S)
        /\ Len(SubSeq(s, m, n)) = IF m <= n THEN n - m + 1 ELSE 0
        /\ \A j \in 1 .. n - m + 1 : SubSeq(s, m, n)[j] = s[m + j - 1]
    BY <1>1, <2>1, SubSeqProperties
  <2>3. /\ SubSeq(s, m, n) \in Seq(S)
        /\ Len(SubSeq(s, m, n)) = n - i
        /\ \A j \in 1 .. n - i : SubSeq(s, m, n)[j] = s[i + j]
    BY <1>1, <2>1, <2>2
  <2> QED BY <2>3 DEF m
<1> HIDE DEF a, b
<1>4. /\ a \o b \in Seq(S) /\ Len(a \o b) = Len(a) + Len(b)
      /\ \A j \in 1 .. Len(a) + Len(b) : (a \o b)[j] = IF j <= Len(a) THEN a[j] ELSE b[j - Len(a)]
  BY <1>2, <1>3, ConcatProperties
<1>5. Len(a) + Len(b) = n - 1
  BY <1>1, <1>2, <1>3
<1>6. ASSUME NEW j \in 1 .. n - 1
      PROVE  (a \o b)[j] = IF j < i THEN s[j] ELSE s[j + 1]
  <2>1. (a \o b)[j] = IF j <= i - 1 THEN a[j] ELSE b[j - (i - 1)]
    BY <1>2, <1>4, <1>5
  <2>2. CASE j < i
    <3>1. j \in 1 .. i - 1
      BY <1>1, <2>2
    <3> QED BY <1>2, <2>1, <2>2, <3>1
  <2>3. CASE ~(j < i)
    <3>1. j - (i - 1) \in 1 .. n - i /\ i + (j - (i - 1)) = j + 1
      BY <1>1, <2>3
    <3>2. b[j - (i - 1)] = s[j + 1]
      BY <1>3, <3>1
    <3> QED BY <1>1, <2>1, <2>3, <3>2
  <2> QED BY <2>2, <2>3
<1> QED BY <1>4, <1>5, <1>6 DEF RemoveAt, a, b, n

\* pop(): what it leaves is in the order it was, and the entry of the program
\* is gone.
LEMMA PoppedIs ==
  ASSUME NEW top \in Seq(Entry), Distinct(top), NEW c, Has(top, c)
  PROVE  LET rest == RemoveAt(top, CHOOSE i \in DOMAIN top : top[i].comp = c)
         IN  rest \in Seq(Entry) /\ Distinct(rest) /\ ~Has(rest, c)
<1> DEFINE i == CHOOSE i \in DOMAIN top : top[i].comp = c
           n == Len(top)
           rest == RemoveAt(top, i)
<1>1. i \in DOMAIN top /\ top[i].comp = c
  BY DEF Has
<1>2. DOMAIN top = 1 .. n /\ n \in Nat
  BY DomainIs
<1> HIDE DEF i
<1>3. /\ rest \in Seq(Entry) /\ Len(rest) = n - 1
      /\ \A j \in 1 .. n - 1 : rest[j] = IF j < i THEN top[j] ELSE top[j + 1]
  BY <1>1, <1>2, RemovedAt
<1> HIDE DEF n, rest
<1>4. DOMAIN rest = 1 .. n - 1
  BY <1>3, DomainIs
<1> DEFINE from(j) == IF j < i THEN j ELSE j + 1
<1>5. \A j \in DOMAIN rest : from(j) \in DOMAIN top /\ from(j) # i /\ rest[j] = top[from(j)]
  BY <1>1, <1>2, <1>3, <1>4
<1>6. \A j, k \in DOMAIN rest : from(j) = from(k) => j = k
  BY <1>1, <1>2, <1>4
<1> HIDE DEF from
<1>7. Distinct(rest) /\ ~Has(rest, c)
  BY <1>1, <1>5, <1>6 DEF Distinct, Has
<1> QED BY <1>3, <1>7 DEF rest, i

-----------------------------------------------------------------------------
(* Steps that leave nodes and sink alone.                                  *)

\* What the parts of the invariant say of these, when nothing of theirs changes.
LEMMA Idling ==
  ASSUME UNCHANGED <<nodevars, sinkvars>>
  PROVE  /\ NodeTypeOK => NodeTypeOK'
         /\ SinkTyped => SinkTyped'
         /\ shared' = shared /\ refs' = refs /\ templated' = templated /\ out' = out
         /\ last' = last /\ at' = at /\ pending' = pending /\ arg' = arg /\ next' = next
BY DEF nodevars, sinkvars, NodeTypeOK, SinkTyped

LEMMA LoadSteps ==
  ASSUME JobInv, Load \/ Extend
  PROVE  JobInv'
<1>1. /\ stage = "load" /\ UNCHANGED <<stage, pos, made, raised, engine>>
      /\ UNCHANGED <<nodevars, sinkvars>>
  BY DEF Load, Extend
<1>2. MainTyped' /\ Distinct(conf')
  <2>1. CASE Load
    <3>1. Head(cfgfiles) \in Seq(Entry) /\ Tail(cfgfiles) \in Seq(Seq(Entry))
      BY <2>1 DEF Load, JobInv, Typed, MainTyped
    <3> QED BY <1>1, <2>1, <3>1 DEF Load, JobInv, Typed, MainTyped, Listed
  <2>2. CASE Extend
    <3>1. /\ Head(more) \in Entry /\ Tail(more) \in Seq(Entry) /\ conf \in Seq(Entry)
          /\ Distinct(conf) /\ pos = 1
      BY <2>2 DEF Extend, JobInv, Typed, MainTyped, Listed
    <3>2. conf' \in Seq(Entry) /\ Distinct(conf')
      BY <2>2, <3>1, Merged DEF Extend
    <3>3. pos' \in 1 .. Len(conf') + 1
      BY <1>1, <3>1, <3>2, DomainIs
    <3> QED BY <1>1, <2>2, <3>1, <3>2, <3>3 DEF Extend, JobInv, Typed, MainTyped
  <2> QED BY <2>1, <2>2
<1>3. Typed'
  BY <1>1, <1>2, Idling DEF JobInv, Typed
<1>4. shared = {} /\ made = {} /\ pos = 1
  BY <1>1 DEF JobInv, Listed
<1>5. Listed'
  BY <1>1, <1>2, <1>4, Idling DEF Listed
<1>6. Users = {} /\ Users' = {}
  BY <1>1, <1>4, Idling DEF Users
<1>7. Counted' /\ Opened'
  BY <1>1, <1>6, Idling DEF JobInv, Counted, Opened
<1>8. Working'
  BY <1>1, Idling DEF JobInv, Working
<1> QED BY <1>3, <1>5, <1>7, <1>8 DEF JobInv

\* An exception before nodes run.
LEMMA RaiseStep ==
  ASSUME JobInv, stage \in {"load", "construct", "configure"}, Raise,
         UNCHANGED <<cfgfiles, more, conf, made, engine, nodevars, sinkvars>>
  PROVE  JobInv'
<1>1. stage' = "finalize" /\ pos' = 1 /\ raised' = TRUE
  BY DEF Raise, Enter
<1>2. Typed'
  <2>1. 1 \in 1 .. Len(conf) + 1
    BY DomainIs DEF JobInv, Typed, MainTyped
  <2> QED BY <1>1, <2>1, Idling DEF JobInv, Typed, MainTyped
<1>3. Listed'
  BY <1>1, Idling DEF JobInv, Listed
<1>4. conf \in Seq(Entry)
  BY DEF JobInv, Typed, MainTyped
<1>5. \A c : ~Passed(c)'
  BY <1>1, <1>4, DomainIs DEF Passed
<1>6. Users = shared /\ Users' = shared
  BY <1>1, <1>5, Idling DEF Users
<1>7. Counted'
  BY <1>1, <1>6, Idling DEF JobInv, Counted
<1>8. \A n \in Node : ~(last'[n] >= 0) /\ at'[n] = "idle"
  BY Idling DEF JobInv, Typed, NodeTypeOK, Working
<1>9. Opened'
  BY <1>1, <1>8 DEF Opened
<1>10. Working'
  BY <1>1, <1>8, Idling DEF JobInv, Working
<1> QED BY <1>2, <1>3, <1>7, <1>9, <1>10 DEF JobInv

\* Configuration is loaded, components are made.
LEMMA ConstructSteps ==
  ASSUME JobInv, stage \in {"load", "construct"}, Loaded \/ Construct \/ NextStage
  PROVE  JobInv'
<1>0. conf \in Seq(Entry) /\ DOMAIN conf = 1 .. Len(conf) /\ Len(conf) \in Nat /\ pos \in 1 .. Len(conf) + 1
  BY DomainIs DEF JobInv, Typed, MainTyped
<1>1. CASE Loaded /\ ~Has(conf, WireCell)
  BY <1>1, RaiseStep DEF Loaded
<1>2. CASE ~(Loaded /\ ~Has(conf, WireCell))
  <2>1. /\ UNCHANGED <<cfgfiles, more, raised, engine, nodevars, sinkvars>>
        /\ stage' \in {"construct", "configure"} /\ shared = {}
    BY <1>2 DEF Loaded, Construct, NextStage, Enter, JobInv, Listed
  <2>2. MainTyped' /\ Listed'
    <3>1. CASE Loaded
      <4>1. /\ stage' = "construct" /\ pos' = 1 /\ made' = {} /\ Has(conf, WireCell)
            /\ conf' = RemoveAt(conf, CHOOSE i \in DOMAIN conf : conf[i].comp = WireCell)
        BY <1>2, <3>1 DEF Loaded, Enter, JobInv, Listed
      <4>2. conf' \in Seq(Entry) /\ Distinct(conf') /\ ~Has(conf', WireCell)
        BY <1>0, <4>1, PoppedIs DEF JobInv, Listed
      <4>3. Has(conf, WireCell)' = Has(conf', WireCell)
        BY DEF Has
      <4>4. DOMAIN conf' = 1 .. Len(conf') /\ Len(conf') \in Nat
        BY <4>2, DomainIs
      <4>5. MainTyped'
        BY <2>1, <4>1, <4>2, <4>4 DEF JobInv, Typed, MainTyped
      <4>6. Listed'
        BY <2>1, <4>1, <4>2, <4>3, <4>4, Idling DEF Listed
      <4> QED BY <4>5, <4>6
    <3>2. CASE Construct
      <4>1. /\ stage = "construct" /\ stage' = stage /\ conf' = conf /\ pos <= Len(conf)
            /\ made' = made \cup {Comp} /\ pos' = pos + 1
        BY <3>2 DEF Construct
      <4>2. Comp \in Node \cup {Sink} /\ Has(conf, Comp)
        <5>1. conf[pos] \in Entry /\ pos \in DOMAIN conf
          BY <1>0, <4>1
        <5>2. conf[pos].comp # WireCell
          BY <4>1, <5>1 DEF JobInv, Listed, Has
        <5> QED BY <5>1, <5>2 DEF Comp, Has, Entry
      <4>3. MainTyped'
        BY <1>0, <2>1, <4>1, <4>2 DEF JobInv, Typed, MainTyped
      <4>4. \A i \in DOMAIN conf : i < pos' => conf[i].comp \in made'
        <5> SUFFICES ASSUME NEW i \in DOMAIN conf, i < pos' PROVE conf[i].comp \in made'
          OBVIOUS
        <5>1. i < pos \/ i = pos
          BY <1>0, <4>1
        <5> QED BY <4>1, <5>1 DEF Comp, JobInv, Listed
      <4>5. Listed'
        BY <2>1, <4>1, <4>2, <4>4, Idling DEF JobInv, Listed, Has
      <4> QED BY <4>3, <4>5
    <3>3. CASE NextStage
      <4>1. /\ stage = "construct" /\ stage' = "configure" /\ pos' = 1 /\ pos > Len(conf)
            /\ conf' = conf /\ made' = made
        BY <3>3 DEF NextStage, Enter
      <4>2. MainTyped'
        BY <1>0, <2>1, <4>1 DEF JobInv, Typed, MainTyped
      <4>3. \A i \in DOMAIN conf : conf[i].comp \in made
        BY <1>0, <4>1 DEF JobInv, Listed
      <4>4. Listed'
        BY <2>1, <4>1, <4>3, Idling DEF JobInv, Listed, Has
      <4> QED BY <4>2, <4>4
    <3> QED BY <3>1, <3>2, <3>3
  <2>3. Typed'
    BY <2>1, <2>2, Idling DEF JobInv, Typed
  <2>4. Users = {} /\ Users' = {} /\ shared' = {}
    BY <2>1, Idling DEF Users
  <2>5. Counted'
    BY <2>1, <2>4, Idling DEF JobInv, Counted
  <2>6. \A n \in Node : last'[n] < 0 /\ ~(last'[n] >= 0) /\ at'[n] = "idle"
    BY <2>1, Idling DEF JobInv, Typed, NodeTypeOK, Working
  <2>7. Opened'
    <3>1. stage' = "configure" => pos' = 1
      BY <1>2 DEF Loaded, Construct, NextStage, Enter
    <3>2. conf' \in Seq(Entry)
      BY <2>2 DEF MainTyped
    <3>3. stage' = "configure" => ~Passed(Sink)'
      BY <3>1, <3>2, DomainIs DEF Passed
    <3> QED BY <2>4, <3>3 DEF Opened
  <2>8. Working'
    BY <2>1, <2>6, Idling DEF JobInv, Working
  <2> QED BY <2>2, <2>3, <2>5, <2>7, <2>8 DEF JobInv
<1> QED BY <1>1, <1>2

-----------------------------------------------------------------------------
(* Configuration.                                                          *)

\* The users are finitely many.
LEMMA UsersFinite ==
  ASSUME NodeTypeOK
  PROVE  IsFiniteSet(shared) /\ IsFiniteSet(Users) /\ Users \subseteq shared /\ Cardinality(Users) \in Nat
<1>1. IsFiniteSet(shared)
  BY ModeAssumption, FS_Subset DEF NodeTypeOK
<1>2. Users \subseteq shared
  BY DEF Users
<1>3. IsFiniteSet(Users)
  BY <1>1, <1>2, FS_Subset
<1> QED BY <1>1, <1>2, <1>3, FS_CardinalityType

\* The entry that is come to.
LEMMA EntryIs ==
  ASSUME MainTyped, Listed, stage = "configure", pos <= Len(conf)
  PROVE  /\ pos \in DOMAIN conf /\ Comp \in Node \cup {Sink} /\ Sink \notin Node
         /\ Comp = Sink => Data \in BOOLEAN
         /\ Comp # Sink => Data \in Nat
         /\ ~Passed(Comp)
<1>1. pos \in DOMAIN conf /\ conf[pos] \in Entry
  BY DomainIs DEF MainTyped
<1>2. conf[pos].comp # WireCell
  BY <1>1 DEF Listed, Has
<1>3. Sink \notin Node
  BY ComponentAssumption
<1>4. ~Passed(conf[pos].comp)
  BY <1>1, DomainIs DEF Passed, Listed, Distinct, MainTyped
<1> QED BY <1>1, <1>2, <1>3, <1>4 DEF Comp, Data, Entry

LEMMA SinkStep ==
  ASSUME JobInv, Configure, Comp = Sink
  PROVE  JobInv'
<1>1. /\ stage = "configure" /\ pos <= Len(conf) /\ pos' = pos + 1
      /\ UNCHANGED <<stage, cfgfiles, more, conf, made, raised, engine, nodevars>>
      /\ SinkConfigure(Data)
  BY DEF Configure
<1>2. MainTyped /\ NodeTypeOK /\ SinkTyped /\ Listed /\ Counted /\ Working
  BY DEF JobInv, Typed
<1>3. pos \in DOMAIN conf /\ Data \in BOOLEAN /\ Len(conf) \in Nat /\ pos \in Nat
  BY <1>1, <1>2, EntryIs, DomainIs DEF MainTyped
<1>4. SinkTyped' /\ (templated' \/ out' # NoZip) /\ refs' = refs
  BY <1>1, <1>2, <1>3, SinkConfigured DEF SinkConfigure
<1>5. /\ MainTyped' /\ NodeTypeOK'
      /\ UNCHANGED <<next, at, last, arg, pending, shared>>
  <2>1. pos' \in 1 .. Len(conf) + 1
    BY <1>1, <1>2, <1>3 DEF MainTyped
  <2>2. MainTyped'
    BY <1>1, <1>2, <2>1 DEF MainTyped
  <2> QED BY <1>1, <1>2, <2>2 DEF NodeTypeOK, nodevars
<1>6. Listed'
  BY <1>1, <1>2, <1>5 DEF Listed, Has
<1>7. Users = shared /\ Users' = shared
  BY <1>1, <1>5 DEF Users
<1>8. \A n \in shared : Passed(n)'
  BY <1>1, <1>2, <1>3, DomainIs DEF Counted, Passed, MainTyped
<1>9. Counted'
  BY <1>2, <1>4, <1>5, <1>7, <1>8 DEF Counted
<1>10. Opened'
  BY <1>4 DEF Opened
<1>11. Working'
  BY <1>1, <1>2, <1>5 DEF Working
<1> QED BY <1>4, <1>5, <1>6, <1>9, <1>10, <1>11 DEF JobInv, Typed

\* A node acquires the sink, and then may raise an exception or not.
LEMMA NodeSteps ==
  ASSUME JobInv, Comp # Sink, Configure \/ ConfigureFails
  PROVE  JobInv'
<1> DEFINE n == Comp
<1>1. /\ stage = "configure" /\ pos <= Len(conf) /\ Sink \in made
      /\ UNCHANGED <<cfgfiles, more, conf, made, engine>>
      /\ NodeConfigure(n, Data)
      /\ \/ stage' = stage /\ pos' = pos + 1 /\ raised' = raised
         \/ stage' = "finalize" /\ pos' = 1 /\ raised' = TRUE
  BY DEF Configure, ConfigureFails, Raise, Enter
<1>2. MainTyped /\ NodeTypeOK /\ SinkTyped /\ Listed /\ Counted /\ Opened /\ Working
  BY DEF JobInv, Typed
<1>3. /\ pos \in DOMAIN conf /\ n \in Node /\ Sink \notin Node /\ Data \in Nat /\ ~Passed(n)
      /\ DOMAIN conf = 1 .. Len(conf) /\ Len(conf) \in Nat
  BY <1>1, <1>2, EntryIs, DomainIs DEF MainTyped
<1>4. n = conf[pos].comp
  BY DEF Comp
<1> HIDE DEF n
<1>5. NodeTypeOK' /\ SinkTyped'
  BY <1>1, <1>2, <1>3, ConfiguredTyped
<1>6. /\ shared' = shared \cup {n} /\ refs' = refs + 1
      /\ UNCHANGED <<next, at, last, arg, pending, templated, out>>
  BY <1>1 DEF NodeConfigure, Acquire
<1>7. MainTyped'
  <2>1. pos' \in 1 .. Len(conf) + 1
    BY <1>1, <1>3
  <2>2. /\ stage' \in {"configure", "finalize"} /\ raised' \in BOOLEAN
        /\ UNCHANGED <<cfgfiles, more, conf, made, engine>>
    BY <1>1, <1>2 DEF MainTyped
  <2> QED BY <1>2, <2>1, <2>2 DEF MainTyped
<1>8. Listed'
  <2>1. n \in made
    BY <1>1, <1>2, <1>3, <1>4 DEF Listed
  <2> QED BY <1>1, <1>2, <1>6, <2>1 DEF Listed, Has
<1>9. n \notin shared
  BY <1>1, <1>2, <1>3 DEF Counted
<1>10. Users = shared /\ Users' = shared'
  <2>1. \A c : stage' = "finalize" => ~Passed(c)'
    BY <1>1, <1>3 DEF Passed
  <2> QED BY <1>1, <2>1 DEF Users
<1>11. Counted'
  <2>1. refs' = Cardinality(Users')
    <3>1. Cardinality(shared \cup {n}) = Cardinality(shared) + 1
      BY <1>2, <1>9, UsersFinite, FS_AddElement
    <3> QED BY <1>2, <1>6, <1>10, <3>1 DEF Counted
  <2>2. ASSUME stage' = "configure", NEW m \in shared' PROVE Passed(m)'
    <3>1. pos' = pos + 1 /\ conf' = conf
      BY <1>1, <2>2
    <3>2. CASE m = n
      BY <1>3, <1>4, <3>1, <3>2 DEF Passed
    <3>3. CASE m \in shared
      <4>1. PICK i \in DOMAIN conf : i < pos /\ conf[i].comp = m
        BY <1>1, <1>2, <3>3 DEF Counted, Passed
      <4> QED BY <1>3, <3>1, <4>1 DEF Passed
    <3> QED BY <1>6, <2>2, <3>2, <3>3
  <2> QED BY <2>1, <2>2 DEF Counted
<1>12. \A m \in Node : last'[m] < 0 /\ ~(last'[m] >= 0) /\ at'[m] = "idle"
  BY <1>1, <1>2, <1>6 DEF Working, NodeTypeOK
<1>13. Opened'
  <2>1. ASSUME stage' = "configure", Passed(Sink)' PROVE templated' \/ out' # NoZip
    <3>1. PICK i \in DOMAIN conf : i < pos + 1 /\ conf[i].comp = Sink
      BY <1>1, <2>1 DEF Passed
    <3>2. i < pos
      BY <1>3, <1>4, <3>1
    <3> QED BY <1>1, <1>2, <1>6, <3>1, <3>2 DEF Opened, Passed
  <2> QED BY <1>1, <1>12, <2>1 DEF Opened
<1>14. Working'
  BY <1>1, <1>2, <1>6, <1>12 DEF Working
<1> QED BY <1>5, <1>7, <1>8, <1>11, <1>13, <1>14 DEF JobInv, Typed

\* All is configured.
LEMMA RunBegins ==
  ASSUME JobInv, stage = "configure", NextStage
  PROVE  JobInv'
<1>1. /\ stage' = "run" /\ pos' = 1 /\ pos > Len(conf)
      /\ UNCHANGED <<cfgfiles, more, conf, made, raised, engine, nodevars, sinkvars>>
  BY DEF NextStage, Enter
<1>2. MainTyped /\ NodeTypeOK /\ SinkTyped /\ Listed /\ Counted /\ Opened /\ Working
  BY DEF JobInv, Typed
<1>3. DOMAIN conf = 1 .. Len(conf) /\ Len(conf) \in Nat /\ pos \in Nat
  BY <1>2, DomainIs DEF MainTyped
<1>4. Typed'
  BY <1>1, <1>2, <1>3, Idling DEF Typed, MainTyped
<1>5. Listed'
  BY <1>1, <1>2, Idling DEF Listed, Has
<1>6. Users = shared /\ Users' = shared
  BY <1>1, Idling DEF Users
<1>7. Counted'
  BY <1>1, <1>2, <1>6, Idling DEF Counted
<1>8. Opened'
  <2>1. ASSUME shared # {} PROVE Passed(Sink)
    BY <1>1, <1>2, <1>3, <2>1 DEF Listed, Has, Passed
  <2> QED BY <1>1, <1>2, <1>6, <2>1, Idling DEF Opened
<1>9. Working'
  BY <1>1, <1>2, Idling DEF Working
<1> QED BY <1>4, <1>5, <1>7, <1>8, <1>9 DEF JobInv

-----------------------------------------------------------------------------
(* Nodes run.                                                              *)

\* The nodes have what they had, but for one.
LEMMA RunSteps ==
  ASSUME JobInv, EveryEventNamed, NEW n \in Node, Run(n) \/ RunFails(n)
  PROVE  JobInv'
<1>1. /\ stage = "run" /\ UNCHANGED <<stage, cfgfiles, more, conf, pos, made, engine>>
      /\ raised' \in {raised, TRUE}
      /\ CallNode(n) \/ GoOn(n) \/ Fail(n)
  BY DEF Run, RunFails, mainvars
<1>2. MainTyped /\ NodeTypeOK /\ SinkTyped /\ Listed /\ Counted /\ Opened /\ Working
  BY DEF JobInv, Typed
<1>3. CallNode(n) => n \in shared /\ next[n] \in DOMAIN Stream
  BY <1>2, StreamIs DEF CallNode, MayCall, NodeTypeOK
<1>4. NodeTypeOK' /\ SinkTyped'
  <2>1. CASE CallNode(n)
    <3>1. NodeTypeOK' /\ UNCHANGED sinkvars
      BY <1>2, <1>3, <2>1, CallTyped DEF CallNode
    <3> QED BY <1>2, <3>1 DEF SinkTyped, sinkvars
  <2>2. CASE GoOn(n)
    BY <1>2, <2>2, GoOnTyped
  <2>3. CASE Fail(n)
    <3>1. NodeTypeOK' /\ UNCHANGED sinkvars
      BY <1>2, <2>3, FailTyped
    <3> QED BY <1>2, <3>1 DEF SinkTyped, sinkvars
  <2> QED BY <1>1, <2>1, <2>2, <2>3
<1>5. MainTyped'
  BY <1>1, <1>2 DEF MainTyped
<1>6. /\ shared' = shared /\ refs' = refs /\ templated' = templated
      /\ out # NoZip => out' # NoZip
  <2>1. CASE Visit(n) \/ FlushWrite(n)
    <3>1. ASSUME NEW i, NEW e, NEW obj, Write(i, e, obj)
          PROVE  refs' = refs /\ templated' = templated /\ out' # NoZip
      BY <3>1 DEF Write
    <3>2. shared' = shared
      BY <2>1 DEF Visit, FlushWrite
    <3> QED BY <2>1, <3>1, <3>2 DEF Visit, FlushWrite, sinkvars
  <2>2. CASE ~(Visit(n) \/ FlushWrite(n))
    BY <1>1, <2>2 DEF CallNode, GoOn, CallEOS, CallNext, CallSame, EndStream, NewEvent, Flushed,
                      Fill, Return, Fail, sinkvars
  <2> QED BY <2>1, <2>2
<1>7. Listed'
  BY <1>1, <1>2, <1>6 DEF Listed, Has
<1>8. Users = shared /\ Users' = shared
  BY <1>1, <1>6 DEF Users
<1>9. Counted'
  BY <1>1, <1>2, <1>6, <1>8 DEF Counted
<1>10. Opened'
  BY <1>1, <1>2, <1>6, <1>8 DEF Opened
<1>11. \A m \in Node : m # n =>
         /\ at'[m] = at[m] /\ last'[m] = last[m] /\ arg'[m] = arg[m]
         /\ pending'[m] = pending[m] /\ next'[m] = next[m]
  BY <1>1, <1>2 DEF CallNode, GoOn, CallEOS, CallNext, CallSame, FlushWrite, EndStream, NewEvent,
       Flushed, Visit, Fill, Return, Fail, Flush, StartBody, At, NodeTypeOK
<1>12. /\ last'[n] >= 0 => n \in shared
       /\ pending'[n] # <<>> => at'[n] \in {"flush", "final"}
       /\ at'[n] \in {"flush", "body"} =>
            n \in shared /\ last'[n] >= 0 /\ next'[n] \in DOMAIN Stream
       /\ at'[n] = "body" \/ (at'[n] = "flush" /\ arg'[n] >= 0) =>
            Stream[next'[n]] # EOS
       /\ at'[n] \notin {"final", "release"}
  <2>1. /\ last[n] \in Int /\ arg[n] \in Int
        /\ last[n] >= 0 => n \in shared
        /\ pending[n] # <<>> => at[n] \in {"flush", "final"}
        /\ at[n] \in {"flush", "body"} =>
             n \in shared /\ last[n] >= 0 /\ next[n] \in DOMAIN Stream
        /\ at[n] = "body" \/ (at[n] = "flush" /\ arg[n] >= 0) => Stream[next[n]] # EOS
        /\ at[n] \notin {"final", "release"}
    BY <1>1, <1>2 DEF Working, NodeTypeOK
  <2>2. CASE CallEOS(n) /\ CallNode(n)
    BY <1>2, <1>3, <2>1, <2>2 DEF CallEOS, NothingSince, Flush, At, NodeTypeOK
  <2>3. CASE CallNext(n) /\ CallNode(n)
    BY <1>2, <1>3, <2>1, <2>3 DEF CallNext, Flush, At, NodeTypeOK
  <2>4. CASE CallSame(n) /\ CallNode(n)
    <3>1. Stream[next[n]].ident \in Nat
      BY <1>3, <2>4, StreamIs DEF CallSame
    <3> QED BY <1>2, <1>3, <2>1, <2>4, <3>1 DEF CallSame, StartBody, At, NodeTypeOK
  <2>5. CASE FlushWrite(n)
    BY <1>2, <2>1, <2>5 DEF FlushWrite, NodeTypeOK
  <2>6. CASE EndStream(n) \/ NewEvent(n)
    BY <1>2, <2>1, <2>6 DEF EndStream, NewEvent, Flushed, StartBody, At, NodeTypeOK
  <2>7. CASE Visit(n) \/ Fill(n) \/ Return(n) \/ Fail(n)
    BY <1>2, <2>1, <2>7 DEF Visit, Fill, Return, Fail, At, NodeTypeOK
  <2> QED BY <1>1, <2>2, <2>3, <2>4, <2>5, <2>6, <2>7 DEF CallNode, GoOn
<1>13. Working'
  <2> SUFFICES ASSUME NEW m \in Node
               PROVE  /\ last'[m] >= 0 => m \in shared
                      /\ pending'[m] # <<>> => at'[m] \in {"flush", "final"}
                      /\ at'[m] \in {"flush", "body"} =>
                           m \in shared /\ last'[m] >= 0 /\ next'[m] \in DOMAIN Stream
                      /\ at'[m] = "body" \/ (at'[m] = "flush" /\ arg'[m] >= 0) =>
                           Stream[next'[m]] # EOS
                      /\ at'[m] \notin {"final", "release"}
    BY <1>1, <1>6 DEF Working
  <2>1. CASE m = n
    BY <1>12, <2>1
  <2>2. CASE m # n
    BY <1>1, <1>2, <1>11, <2>2 DEF Working
  <2> QED BY <2>1, <2>2
<1> QED BY <1>4, <1>5, <1>7, <1>9, <1>10, <1>13 DEF JobInv, Typed

-----------------------------------------------------------------------------
(* The end.                                                                *)

LEMMA RunEndsStep ==
  ASSUME JobInv, RunEnds
  PROVE  JobInv'
<1>1. /\ stage = "run" /\ stage' = "finalize" /\ pos' = 1
      /\ \A n \in shared : at[n] = "idle"
      /\ UNCHANGED <<cfgfiles, more, conf, made, raised, engine, nodevars, sinkvars>>
  BY DEF RunEnds, Enter
<1>2. MainTyped /\ NodeTypeOK /\ SinkTyped /\ Listed /\ Counted /\ Opened /\ Working
  BY DEF JobInv, Typed
<1>3. DOMAIN conf = 1 .. Len(conf) /\ Len(conf) \in Nat
  BY <1>2, DomainIs DEF MainTyped
<1>4. Typed'
  BY <1>1, <1>2, <1>3, Idling DEF Typed, MainTyped
<1>5. Listed'
  BY <1>1, <1>2, Idling DEF Listed, Has
<1>6. Users = shared /\ Users' = shared
  <2>1. \A c : ~Passed(c)'
    BY <1>1, <1>3 DEF Passed
  <2> QED BY <1>1, <2>1, Idling DEF Users
<1>7. Counted'
  BY <1>1, <1>2, <1>6, Idling DEF Counted
<1>8. Opened'
  BY <1>1, <1>2, <1>6, Idling DEF Opened
<1>9. Working'
  BY <1>1, <1>2, Idling DEF Working
<1> QED BY <1>4, <1>5, <1>7, <1>8, <1>9 DEF JobInv

LEMMA FinalizedStep ==
  ASSUME JobInv, Finalized
  PROVE  JobInv'
<1>1. /\ stage = "finalize" /\ stage' = "gone" /\ pos' = 1 /\ pos > Len(conf)
      /\ UNCHANGED <<cfgfiles, more, conf, made, raised, engine, nodevars, sinkvars>>
  BY DEF Finalized, Enter
<1>2. MainTyped /\ NodeTypeOK /\ SinkTyped /\ Listed /\ Counted /\ Opened /\ Working
  BY DEF JobInv, Typed
<1>3. DOMAIN conf = 1 .. Len(conf) /\ Len(conf) \in Nat /\ pos \in Nat
  BY <1>2, DomainIs DEF MainTyped
<1>4. Typed'
  BY <1>1, <1>2, <1>3, Idling DEF Typed, MainTyped
<1>5. Listed'
  BY <1>1, <1>2, Idling DEF Listed, Has
<1>6. Users = {} /\ Users' = {}
  <2>1. \A n \in shared : Passed(n)
    BY <1>1, <1>2, <1>3 DEF Listed, Has, Passed
  <2> QED BY <1>1, <2>1 DEF Users
<1>7. Counted'
  BY <1>1, <1>2, <1>6, Idling DEF Counted
<1>8. Opened'
  BY <1>1, <1>6 DEF Opened
<1>9. Working'
  BY <1>1, <1>2, <1>3, Idling DEF Working
<1> QED BY <1>4, <1>5, <1>7, <1>8, <1>9 DEF JobInv

\* What finalize() of a node does to it.
LEMMA FinalNode ==
  ASSUME NodeTypeOK, Working, stage = "finalize", NEW n \in Node, pos <= Len(conf),
         conf[pos].comp = n,
         FinalizeFlush(n) \/ FlushWrite(n) \/ FinalizeFlushed(n) \/ FinalizeRelease(n)
  PROVE  /\ shared' = shared /\ next' = next
         /\ \A m \in Node : m # n => at'[m] = at[m] /\ last'[m] = last[m] /\ arg'[m] = arg[m]
                                     /\ pending'[m] = pending[m]
         /\ last'[n] >= 0 => n \in shared /\ last[n] >= 0
         /\ pending'[n] # <<>> => at'[n] \in {"flush", "final"}
         /\ at'[n] \in {"idle", "final", "release"}
         /\ at'[n] = "final" => last'[n] >= 0
         /\ at[n] = "release" => at'[n] = "idle"
         /\ at[n] # "release" => at'[n] # "idle"
<1>1. /\ last[n] \in Int /\ arg[n] \in Int /\ (last[n] >= 0 => n \in shared)
      /\ pending[n] # <<>> => at[n] \in {"flush", "final"}
      /\ at[n] \notin {"flush", "body"}
      /\ at[n] = "final" => last[n] >= 0
      /\ at[n] \in {"idle", "flush", "body", "final", "release"}
  BY DEF NodeTypeOK, Working
<1>2. CASE FinalizeFlush(n)
  <2>1. UNCHANGED <<next, last, shared>> /\ at[n] = "idle" /\ pending[n] = <<>>
    BY <1>1, <1>2 DEF FinalizeFlush
  <2>2. CASE Flush(n, -1, "final") /\ ~NothingSince(n, -1)
    <3>1. last[n] >= 0
      BY <1>1, <2>2 DEF NothingSince
    <3> QED BY <1>1, <2>1, <2>2, <3>1 DEF Flush, At, NodeTypeOK
  <2>3. CASE At(n, "release") /\ UNCHANGED <<arg, pending>>
    BY <1>1, <2>1, <2>3 DEF At, NodeTypeOK
  <2> QED BY <1>2, <2>2, <2>3 DEF FinalizeFlush
<1>3. CASE FlushWrite(n)
  BY <1>1, <1>3 DEF FlushWrite, NodeTypeOK
<1>4. CASE FinalizeFlushed(n)
  BY <1>1, <1>4 DEF FinalizeFlushed, Flushed, At, NodeTypeOK
<1>5. CASE FinalizeRelease(n)
  BY <1>1, <1>5 DEF FinalizeRelease, At, NodeTypeOK
<1> QED BY <1>2, <1>3, <1>4, <1>5

\* When the loop goes on, it has left one entry more behind.
LEMMA PassedOne ==
  ASSUME MainTyped, Distinct(conf), pos <= Len(conf), pos' = pos + 1, conf' = conf, NEW c
  PROVE  /\ Passed(c)' <=> Passed(c) \/ c = conf[pos].comp
         /\ ~Passed(conf[pos].comp)
<1>1. pos \in DOMAIN conf /\ pos \in Nat /\ DOMAIN conf \subseteq Nat
  BY DomainIs DEF MainTyped
<1>2. Passed(c)' <=> \E i \in DOMAIN conf : i < pos + 1 /\ conf[i].comp = c
  BY DEF Passed
<1>3. \A i \in DOMAIN conf : i < pos + 1 <=> i < pos \/ i = pos
  BY <1>1
<1> QED BY <1>1, <1>2, <1>3 DEF Passed, Distinct

\* An entry that is none of a node that is made.
LEMMA SkipStep ==
  ASSUME JobInv, Finalize, ~Doomed(Comp)
  PROVE  JobInv'
<1>1. /\ stage = "finalize" /\ pos <= Len(conf) /\ pos' = pos + 1
      /\ UNCHANGED <<stage, cfgfiles, more, conf, made, raised, engine, nodevars, sinkvars>>
  BY DEF Finalize
<1>2. MainTyped /\ NodeTypeOK /\ SinkTyped /\ Listed /\ Counted /\ Opened /\ Working
  BY DEF JobInv, Typed
<1>3. Typed'
  <2>1. pos' \in 1 .. Len(conf) + 1
    BY <1>1, <1>2, DomainIs DEF MainTyped
  <2> QED BY <1>1, <1>2, <2>1, Idling DEF Typed, MainTyped
<1>4. Listed'
  BY <1>1, <1>2, Idling DEF Listed, Has
<1>5. Comp \notin shared
  BY <1>2, ComponentAssumption DEF Doomed, Listed, NodeTypeOK
<1>6. Users' = Users
  <2>1. \A n \in shared : Passed(n)' <=> Passed(n)
    BY <1>1, <1>2, <1>5, PassedOne DEF Listed, Comp
  <2> QED BY <1>1, <2>1, Idling DEF Users
<1>7. Counted' /\ Opened'
  BY <1>1, <1>2, <1>6, Idling DEF Counted, Opened
<1>8. Working'
  <2>1. \A n \in Node : at[n] \notin {"final", "release"}
    <3> SUFFICES ASSUME NEW n \in Node, at[n] \in {"final", "release"} PROVE FALSE
      OBVIOUS
    <3>1. Comp = n /\ n # Sink /\ n \in made
      BY <1>2, ComponentAssumption DEF Working, Comp
    <3> QED BY <3>1 DEF Doomed
  <2> QED BY <1>1, <1>2, <2>1, Idling DEF Working
<1> QED BY <1>3, <1>4, <1>7, <1>8 DEF JobInv

\* A part of finalize() of a node.
LEMMA FinalizeStep ==
  ASSUME JobInv, EveryEventNamed, Finalize, Doomed(Comp)
  PROVE  JobInv'
<1> DEFINE n == Comp
<1>1. /\ stage = "finalize" /\ pos <= Len(conf)
      /\ UNCHANGED <<stage, cfgfiles, more, conf, made, raised, engine>>
      /\ FinalizeFlush(n) \/ FlushWrite(n) \/ FinalizeFlushed(n) \/ FinalizeRelease(n)
      /\ pos' = IF at[n] = "release" THEN pos + 1 ELSE pos
  BY DEF Finalize
<1>2. MainTyped /\ NodeTypeOK /\ SinkTyped /\ Listed /\ Counted /\ Opened /\ Working
  BY DEF JobInv, Typed
<1>3. n \in Node /\ n \in made /\ n = conf[pos].comp
  BY <1>2 DEF Doomed, Comp, MainTyped
<1> HIDE DEF n
<1>4. NodeTypeOK' /\ SinkTyped'
  BY <1>1, <1>2, <1>3, FinalTyped
<1>5. MainTyped'
  <2>1. pos' \in 1 .. Len(conf) + 1
    BY <1>1, <1>2, DomainIs DEF MainTyped
  <2> QED BY <1>1, <1>2, <2>1 DEF MainTyped
<1>6. /\ shared' = shared /\ next' = next
      /\ \A m \in Node : m # n => at'[m] = at[m] /\ last'[m] = last[m] /\ arg'[m] = arg[m]
                                  /\ pending'[m] = pending[m]
      /\ last'[n] >= 0 => n \in shared /\ last[n] >= 0
      /\ pending'[n] # <<>> => at'[n] \in {"flush", "final"}
      /\ at'[n] \in {"idle", "final", "release"}
      /\ at'[n] = "final" => last'[n] >= 0
      /\ at[n] = "release" => at'[n] = "idle"
      /\ at[n] # "release" => at'[n] # "idle"
  BY <1>1, <1>2, <1>3, FinalNode
<1>7. Listed'
  BY <1>1, <1>2, <1>6 DEF Listed, Has
<1>8. Working'
  <2> SUFFICES ASSUME NEW m \in Node
               PROVE  /\ last'[m] >= 0 => m \in shared
                      /\ pending'[m] # <<>> => at'[m] \in {"flush", "final"}
                      /\ at'[m] \notin {"flush", "body"}
                      /\ at'[m] \in {"final", "release"} =>
                           pos' <= Len(conf) /\ conf[pos'].comp = m /\ m \in made
                      /\ at'[m] = "final" => last'[m] >= 0
    BY <1>1, <1>6 DEF Working
  <2>1. CASE m = n
    BY <1>1, <1>3, <1>6, <2>1
  <2>2. CASE m # n
    <3>1. at[m] \notin {"flush", "body", "final", "release"}
      BY <1>1, <1>2, <1>3, <2>2 DEF Working
    <3> QED BY <1>2, <1>6, <2>2, <3>1 DEF Working
  <2> QED BY <2>1, <2>2
<1>9. (\E m \in Node : last'[m] >= 0) => \E m \in Node : last[m] >= 0
  BY <1>6
<1>10. CASE at[n] # "release"
  <2>1. pos' = pos
    BY <1>1, <1>10
  <2>2. Users' = Users
    BY <1>1, <1>6, <2>1 DEF Users, Passed
  <2>3. refs' = refs /\ templated' = templated /\ (out # NoZip => out' # NoZip)
    <3>1. CASE FlushWrite(n)
      BY <3>1 DEF FlushWrite, Write
    <3>2. CASE FinalizeFlush(n) \/ FinalizeFlushed(n)
      BY <3>2 DEF FinalizeFlush, FinalizeFlushed, Flushed, sinkvars
    <3> QED BY <1>1, <1>10, <3>1, <3>2 DEF FinalizeRelease
  <2>4. Counted' /\ Opened'
    BY <1>1, <1>2, <1>9, <2>2, <2>3 DEF Counted, Opened
  <2> QED BY <1>4, <1>5, <1>7, <1>8, <2>4 DEF JobInv, Typed
<1>11. CASE at[n] = "release"
  <2>1. pos' = pos + 1 /\ FinalizeRelease(n)
    BY <1>1, <1>6, <1>11 DEF FinalizeFlush, FlushWrite, FinalizeFlushed
  <2>2. Users' = Users \ {n} /\ (n \in Users <=> n \in shared)
    <3>1. \A m : Passed(m)' <=> Passed(m) \/ m = n
      BY <1>1, <1>2, <1>3, <2>1, PassedOne DEF Listed
    <3>2. ~Passed(n)
      BY <1>1, <1>2, <1>3, <2>1, PassedOne DEF Listed
    <3> QED BY <1>1, <1>6, <3>1, <3>2 DEF Users
  <2>3. CASE n \in shared
    <3>1. Release
      BY <2>1, <2>3 DEF FinalizeRelease
    <3>2. /\ Cardinality(Users') = Cardinality(Users) - 1 /\ Cardinality(Users) \in Nat
          /\ IsFiniteSet(Users') /\ Cardinality(Users') \in Nat
      BY <1>2, <2>2, <2>3, UsersFinite, FS_RemoveElement, FS_CardinalityType
    <3>3. refs' = Cardinality(Users')
      BY <1>2, <3>1, <3>2, Released DEF Counted
    <3>4. Counted'
      BY <1>1, <3>3 DEF Counted
    <3>5. Users' # {} => refs' # 0
      BY <3>2, <3>3, FS_EmptySet
    <3>6. Opened'
      BY <1>1, <1>2, <1>9, <2>2, <3>1, <3>5, Released DEF Opened
    <3> QED BY <1>4, <1>5, <1>7, <1>8, <3>4, <3>6 DEF JobInv, Typed
  <2>4. CASE n \notin shared
    <3>1. UNCHANGED sinkvars /\ Users' = Users
      BY <2>1, <2>2, <2>4 DEF FinalizeRelease
    <3>2. Counted' /\ Opened'
      BY <1>1, <1>2, <1>9, <3>1 DEF Counted, Opened, sinkvars
    <3> QED BY <1>4, <1>5, <1>7, <1>8, <3>2 DEF JobInv, Typed
  <2> QED BY <2>3, <2>4
<1> QED BY <1>10, <1>11

LEMMA JobStep ==
  ASSUME JobInv, EveryEventNamed, [JobNext]_jobvars
  PROVE  JobInv'
<1>1. CASE Load \/ Extend
  BY <1>1, LoadSteps
<1>2. CASE Loaded \/ Construct \/ NextStage
  BY <1>2, ConstructSteps, RunBegins DEF Loaded, Construct, NextStage
<1>3. CASE Configure \/ ConfigureFails
  BY <1>3, SinkStep, NodeSteps DEF ConfigureFails
<1>4. CASE SinkMissing \/ Fails
  BY <1>4, RaiseStep DEF SinkMissing, Fails
<1>5. CASE RunEnds
  BY <1>5, RunEndsStep
<1>6. CASE Finalize
  BY <1>6, SkipStep, FinalizeStep
<1>7. CASE Finalized
  BY <1>7, FinalizedStep
<1>8. CASE \E n \in Node : Run(n) \/ RunFails(n)
  BY <1>8, RunSteps
<1>9. CASE Gone \/ UNCHANGED jobvars
  <2>1. UNCHANGED jobvars
    BY <1>9 DEF Gone
  <2>2. UNCHANGED mainvars /\ UNCHANGED nodevars /\ UNCHANGED sinkvars
    BY <2>1 DEF jobvars
  <2>3. MainTyped /\ NodeTypeOK /\ SinkTyped /\ Listed /\ Counted /\ Opened /\ Working
    BY DEF JobInv, Typed
  <2>4. MainTyped'
    BY <2>2, <2>3 DEF mainvars, MainTyped
  <2>5. NodeTypeOK'
    BY <2>2, <2>3 DEF nodevars, NodeTypeOK
  <2>6. SinkTyped'
    BY <2>2, <2>3 DEF sinkvars, SinkTyped
  <2>7. Listed'
    BY <2>2, <2>3 DEF mainvars, nodevars, Listed, Has, Distinct
  <2>8. /\ \A c : Passed(c)' <=> Passed(c)
        /\ Users' = Users
    BY <2>2 DEF mainvars, nodevars, Users, Passed
  <2>9. Counted'
    BY <2>2, <2>3, <2>8 DEF mainvars, nodevars, sinkvars, Counted
  <2>10. Opened'
    BY <2>2, <2>3, <2>8 DEF mainvars, nodevars, sinkvars, Opened
  <2>11. Working'
    BY <2>2, <2>3 DEF mainvars, nodevars, Working
  <2> QED BY <2>4, <2>5, <2>6, <2>7, <2>9, <2>10, <2>11 DEF JobInv, Typed
<1> QED BY <1>1, <1>2, <1>3, <1>4, <1>5, <1>6, <1>7, <1>8, <1>9
        DEF JobNext, Startup, Shutdown

LEMMA JobBegins ==
  ASSUME JobInit
  PROVE  JobInv
<1>1. /\ stage = "load" /\ more = <<>> /\ conf = <<>> /\ pos = 1 /\ made = {} /\ raised = FALSE
      /\ cfgfiles \in Seq(Seq(Entry)) /\ engine \in {"pgraph", "tbb"}
  BY DEF JobInit, MainInit
<1>2. DOMAIN conf = {} /\ Len(conf) = 0 /\ conf \in Seq(Entry) /\ more \in Seq(Entry)
  BY <1>1
<1>3. MainTyped
  <2>1. pos \in 1 .. Len(conf) + 1
    BY <1>1, <1>2
  <2>2. made \subseteq Node \cup {Sink} /\ raised \in BOOLEAN
    BY <1>1
  <2> QED BY <1>1, <1>2, <2>1, <2>2 DEF MainTyped
<1>4. NodeTypeOK
  <2>1. 1 \in 1 .. Len(Stream) + 1 /\ FirstRSE \in Nat \X Nat
    BY StreamIs, StreamAssumption
  <2>2. [x \in Name |-> {}] \in [Name -> SUBSET DOMAIN Stream] /\ <<>> \in Seq(Name)
    OBVIOUS
  <2>3. <<>> \in Seq(Objects)
    OBVIOUS
  <2> QED BY <2>1, <2>2, <2>3 DEF JobInit, NodeInit, NodeTypeOK, Objects
<1>5. SinkTyped
  <2>1. <<>> \in Seq(Written)
    OBVIOUS
  <2>2. [z \in ZipFile |-> <<>>] \in [ZipFile -> Seq(Written)]
    BY <2>1
  <2>3. /\ refs = 0 /\ templated = FALSE /\ openEvt = -1 /\ out = NoZip /\ m_index = 0
        /\ files = [z \in ZipFile |-> <<>>]
    BY DEF JobInit, SinkInit
  <2>4. -1 \in Int
    OBVIOUS
  <2>5. files \in [ZipFile -> Seq(Written)]
    BY <2>2, <2>3
  <2> QED BY <2>3, <2>4, <2>5 DEF SinkTyped
<1>6. shared = {} /\ refs = 0
  BY DEF JobInit, NodeInit, SinkInit
<1>7. Listed
  BY <1>1, <1>2, <1>6 DEF Listed, Distinct, Has
<1>8. Users = {}
  BY <1>6 DEF Users
<1>9. Counted
  BY <1>1, <1>6, <1>8, FS_EmptySet DEF Counted
<1>10. Opened
  BY <1>1, <1>8 DEF Opened
<1>11. Working
  BY <1>1 DEF JobInit, NodeInit, Working
<1> QED BY <1>3, <1>4, <1>5, <1>7, <1>9, <1>10, <1>11 DEF JobInv, Typed

LEMMA JobKept == ASSUME EveryEventNamed PROVE JobSpec => []JobInv
<1>1. JobInit => JobInv
  BY JobBegins
<1>2. JobInv /\ [JobNext]_jobvars => JobInv'
  BY JobStep
<1> QED BY <1>1, <1>2, PTL DEF JobSpec

-----------------------------------------------------------------------------
(* What follows.                                                           *)

\* Who writes finds a file.
LEMMA FileThere == ASSUME JobInv, EveryEventNamed PROVE FileIsThere
<1> SUFFICES ASSUME NEW n \in Node,
                    pending[n] # <<>> \/ (at[n] = "body" /\ "tagger" \in ToSet(todo[n])),
                    CannotWrite(rse[n])
             PROVE  FALSE
  BY DEF FileIsThere
<1>1. MainTyped /\ NodeTypeOK /\ SinkTyped /\ Listed /\ Opened /\ Working
  BY DEF JobInv, Typed
<1>2. rse[n][2] \in Nat /\ rse[n][2] # NoZip
  BY <1>1, ZipAssumption DEF NodeTypeOK, EveryEventNamed
<1>3. ~templated /\ out = NoZip
  BY <1>2 DEF CannotWrite, Target
<1>4. /\ at[n] \in {"flush", "body", "final"} /\ last[n] >= 0 /\ n \in shared
      /\ \/ stage = "run"
         \/ stage = "finalize" /\ pos <= Len(conf) /\ conf[pos].comp = n
  BY <1>1 DEF Working
<1>5. stage = "finalize" => ~Passed(n)
  <2>1. pos <= Len(conf) => pos \in DOMAIN conf /\ pos \in Nat /\ DOMAIN conf \subseteq Nat
    BY <1>1, DomainIs DEF MainTyped
  <2> QED BY <1>1, <1>4, <2>1 DEF Passed, Listed, Distinct
<1>6. n \in Users
  BY <1>4, <1>5 DEF Users
<1> QED BY <1>1, <1>3, <1>4, <1>6 DEF Opened

\* A node that flushes or tags finds the sink's file open, in whatever order
\* nodes stand in the configuration, and whatever has raised an exception.
THEOREM FileStaysOpen == ASSUME EveryEventNamed PROVE JobSpec => []FileIsThere
<1>1. JobInv => FileIsThere
  BY FileThere
<1> QED BY <1>1, JobKept, PTL

\* The state keeps its types through load, run and finalize(), and the sink never
\* counts more users than there are nodes that acquired it.
THEOREM JobTypeCorrect == ASSUME EveryEventNamed PROVE JobSpec => []JobTypeOK
<1>1. JobInv => JobTypeOK
  <2> SUFFICES ASSUME JobInv PROVE JobTypeOK
    OBVIOUS
  <2>1. MainTyped /\ NodeTypeOK /\ SinkTyped /\ Counted
    BY DEF JobInv, Typed
  <2>2. refs <= Cardinality(shared)
    BY <2>1, UsersFinite, FS_Subset DEF Counted
  <2>3. \A z \in ZipFile : \A i \in DOMAIN files[z] : Len(files[z][i]) = 3
    <3> SUFFICES ASSUME NEW z \in ZipFile, NEW i \in DOMAIN files[z] PROVE Len(files[z][i]) = 3
      OBVIOUS
    <3>1. files[z][i] \in Written
      BY <2>1 DEF SinkTyped
    <3> QED BY <3>1 DEF Written
  <2> QED BY <2>1, <2>2, <2>3 DEF JobTypeOK, MainTyped, SinkTyped, SinkTypeOK
<1> QED BY <1>1, JobKept, PTL

\* When the program has ended, also after an exception, no node counts as a user
\* of the sink any more.
THEOREM AllReleased == ASSUME EveryEventNamed PROVE JobSpec => [](stage = "gone" => refs = 0)
<1>1. JobInv => (stage = "gone" => refs = 0)
  BY FS_EmptySet DEF JobInv, Counted, Users
<1> QED BY <1>1, JobKept, PTL

-----------------------------------------------------------------------------
(* Where a node is in the stream, and what it has written.                 *)

\* The stream of a job: its end comes last, inputs with one ident are of one event,
\* and an event that a node is to number by itself is not numbered by metadata
\* now and then only, nor missing from the table of runs.
Orderly ==
  /\ \A i \in DOMAIN Stream : Stream[i] = EOS => i = Len(Stream)
  /\ \A i, j \in DOMAIN Stream :
       Stream[i] # EOS /\ Stream[j] # EOS /\ Stream[i].ident = Stream[j].ident =>
         Stream[i].meta = Stream[j].meta
  /\ \A n \in Node :
       /\ Mode[n].from = "event" =>
            \A i \in DOMAIN Stream : Stream[i] # EOS => Stream[i].ident \in DOMAIN RunOf
       /\ Mode[n].from = "config" /\ Mode[n].meta =>
            \A i, j \in DOMAIN Stream : Stream[i] # EOS /\ Stream[j] # EOS =>
              (Stream[i].meta = NoMeta <=> Stream[j].meta = NoMeta)

\* The inputs at i and k are of one event.
Together(i, k) == /\ Ordinal(i) = Ordinal(k)
                  /\ \A n \in Node : TrueRSE(n, i) = TrueRSE(n, k)

Blank(n) == \A x \in Name : buffer[n][x] = {}

\* A node that has been given nothing,
Unstarted(n) == /\ next[n] = 1 /\ last[n] < 0 /\ rse[n] = FirstRSE /\ Blank(n)
                /\ n \in shared => index[n] = Initial(n)

\* one that keeps the event of the input at k, and what it is about to do with it,
Within(n, k) ==
  /\ Stream[k] # EOS /\ last[n] = Stream[k].ident
  /\ rse[n] = TrueRSE(n, k) /\ index[n] = Initial(n) + Ordinal(k)
  /\ \A x \in Name : \A i \in buffer[n][x] : Together(i, k)
  /\ at[n] = "body" => next[n] = k
  /\ at[n] = "flush" \/ (at[n] = "idle" /\ ~raised /\ stage = "run") => next[n] = k + 1
  /\ at[n] \in {"flush", "final"} =>
       \A x \in Name : buffer[n][x] # {} => \E p \in DOMAIN pending[n] : pending[n][p] = x
  /\ at[n] = "flush" =>
       /\ arg[n] = IF Stream[next[n]] = EOS THEN -1 ELSE Stream[next[n]].ident
       /\ arg[n] # last[n]
  /\ at[n] = "final" => arg[n] = -1

\* and one that has come to the end of the stream, or of finalize().
Finished(n) == last[n] < 0 /\ Blank(n) /\ (stage = "run" => next[n] > Len(Stream))

Place(n) == Unstarted(n) \/ (\E k \in DOMAIN Stream : Within(n, k)) \/ Finished(n)

Early == stage \in {"load", "construct", "configure"}

\* An entry that is where it belongs.
Right(z, e) ==
  \A i \in e[3].items :
    /\ e[1] = IF templated THEN 0 ELSE Initial(NodeOf(e)) + Ordinal(i)
    /\ e[2] = TrueRSE(NodeOf(e), i)
    /\ templated => z = TrueRSE(NodeOf(e), i)[2]

Filed == /\ \A z \in ZipFile : \A p \in DOMAIN files[z] : Right(z, files[z][p])
         /\ Early => \A z \in ZipFile : files[z] = <<>>

PlaceInv == /\ \A n \in Node : Place(n)
            /\ Early => \A n \in Node : Unstarted(n)
            /\ Filed

(* The stream.                                                             *)

\* Positions are counted as the stream goes on.
LEMMA OrdinalNext ==
  /\ Ordinal(1) = IF Begins(1) THEN 0 ELSE -1
  /\ \A i \in Nat \ {0} : /\ Ordinal(i) \in Int
                          /\ Ordinal(i + 1) = Ordinal(i) + (IF Begins(i + 1) THEN 1 ELSE 0)
<1> DEFINE B(i) == {j \in 1 .. i : Begins(j)}
<1>1. ASSUME NEW i \in Nat PROVE IsFiniteSet(B(i)) /\ Cardinality(B(i)) \in Nat
  <2>1. IsFiniteSet(1 .. i) /\ B(i) \subseteq 1 .. i
    BY <1>1, FS_Interval
  <2> QED BY <2>1, FS_Subset, FS_CardinalityType
<1>2. ASSUME NEW i \in Nat PROVE B(i + 1) = IF Begins(i + 1) THEN B(i) \cup {i + 1} ELSE B(i)
  <2>1. 1 .. i + 1 = (1 .. i) \cup {i + 1}
    BY <1>2
  <2> QED BY <2>1
<1>3. ASSUME NEW i \in Nat PROVE i + 1 \notin B(i)
  BY <1>3
<1>4. B(0) = {} /\ Cardinality(B(0)) = 0
  <2>1. B(0) = {}
    OBVIOUS
  <2> QED BY <2>1, FS_EmptySet
<1>5. \A i : Ordinal(i) = Cardinality(B(i)) - 1
  BY DEF Ordinal
<1> HIDE DEF B
<1>6. ASSUME NEW i \in Nat
      PROVE  Cardinality(B(i + 1)) = Cardinality(B(i)) + (IF Begins(i + 1) THEN 1 ELSE 0)
  <2>1. IsFiniteSet(B(i)) /\ i + 1 \notin B(i) /\ Cardinality(B(i)) \in Nat
    BY <1>1, <1>3
  <2>2. Cardinality(B(i) \cup {i + 1}) = Cardinality(B(i)) + 1
    BY <2>1, FS_AddElement
  <2>3. CASE Begins(i + 1)
    BY <1>2, <2>2, <2>3
  <2>4. CASE ~Begins(i + 1)
    <3>1. B(i + 1) = B(i)
      BY <1>2, <2>4
    <3>2. Cardinality(B(i)) + 0 = Cardinality(B(i))
      BY <2>1
    <3> QED BY <2>4, <3>1, <3>2
  <2> QED BY <2>3, <2>4
<1>7. Ordinal(1) = IF Begins(1) THEN 0 ELSE -1
  <2>1. Cardinality(B(0 + 1)) = Cardinality(B(0)) + (IF Begins(0 + 1) THEN 1 ELSE 0)
    BY <1>6
  <2>2. 0 + 1 = 1
    OBVIOUS
  <2> QED BY <1>4, <1>5, <2>1, <2>2
<1>8. ASSUME NEW i \in Nat \ {0}
      PROVE  /\ Ordinal(i) \in Int
             /\ Ordinal(i + 1) = Ordinal(i) + (IF Begins(i + 1) THEN 1 ELSE 0)
  BY <1>1, <1>5, <1>6
<1> QED BY <1>7, <1>8

\* The first input.
LEMMA FirstInput ==
  ASSUME Orderly, NEW n \in Node, rse[n] = FirstRSE, 1 \in DOMAIN Stream, Stream[1] # EOS
  PROVE  Ordinal(1) = 0 /\ Resolved(n, Stream[1], "first") = TrueRSE(n, 1)
<1>1. Ordinal(1) = 0
  BY OrdinalNext DEF Begins
<1>2. FirstRSE = <<FirstRSE[1], FirstRSE[2] + 0>>
  BY StreamAssumption
<1>3. Mode[n].from \in {"ident", "event", "config"}
  BY ModeAssumption
<1>4. Mode[n].from = "event" => Stream[1].ident \in DOMAIN RunOf
  BY DEF Orderly
<1>5. CASE n \in UseConfigRSE
  BY <1>1, <1>2, <1>3, <1>4, <1>5 DEF Resolved, TrueRSE
<1>6. CASE n \notin UseConfigRSE
  BY <1>1, <1>2, <1>3, <1>4, <1>6 DEF Resolved, TrueRSE
<1> QED BY <1>5, <1>6

\* The input that follows one of the same event
LEMMA SameEvent ==
  ASSUME Orderly, NEW k \in DOMAIN Stream, k + 1 \in DOMAIN Stream, Stream[k] # EOS,
         Stream[k + 1] # EOS, Stream[k + 1].ident = Stream[k].ident
  PROVE  /\ Together(k + 1, k)
         /\ \A n \in Node : rse[n] = TrueRSE(n, k) =>
              Resolved(n, Stream[k + 1], "same") = TrueRSE(n, k + 1)
<1>1. k \in Nat \ {0} /\ k + 1 - 1 = k
  BY StreamIs
<1>2. ~Begins(k + 1)
  BY <1>1 DEF Begins
<1>3. Ordinal(k + 1) = Ordinal(k)
  BY <1>1, <1>2, OrdinalNext
<1>4. Stream[k + 1].meta = Stream[k].meta
  BY DEF Orderly
<1>5. \A n \in Node : TrueRSE(n, k + 1) = TrueRSE(n, k)
  BY <1>3, <1>4 DEF TrueRSE
<1>6. ASSUME NEW n \in Node, rse[n] = TrueRSE(n, k)
      PROVE  Resolved(n, Stream[k + 1], "same") = TrueRSE(n, k + 1)
  <2>1. CASE Mode[n].meta /\ Stream[k + 1].meta # NoMeta
    BY <2>1 DEF Resolved, TrueRSE
  <2>2. CASE ~(Mode[n].meta /\ Stream[k + 1].meta # NoMeta)
    BY <1>5, <1>6, <2>2 DEF Resolved
  <2> QED BY <2>1, <2>2
<1> QED BY <1>3, <1>5, <1>6 DEF Together

\* and one of another.
LEMMA OtherEvent ==
  ASSUME Orderly, NEW k \in DOMAIN Stream, k + 1 \in DOMAIN Stream, Stream[k] # EOS,
         Stream[k + 1] # EOS, Stream[k + 1].ident # Stream[k].ident
  PROVE  /\ Ordinal(k + 1) = Ordinal(k) + 1 /\ Ordinal(k) \in Int
         /\ \A n \in Node : rse[n] = TrueRSE(n, k) =>
              Resolved(n, Stream[k + 1], "next") = TrueRSE(n, k + 1)
<1>1. k \in Nat \ {0} /\ k + 1 - 1 = k
  BY StreamIs
<1>2. Begins(k + 1)
  BY <1>1 DEF Begins
<1>3. Ordinal(k + 1) = Ordinal(k) + 1 /\ Ordinal(k) \in Int
  BY <1>1, <1>2, OrdinalNext
<1>4. ASSUME NEW n \in Node, rse[n] = TrueRSE(n, k)
      PROVE  Resolved(n, Stream[k + 1], "next") = TrueRSE(n, k + 1)
  <2>1. CASE Mode[n].meta /\ Stream[k + 1].meta # NoMeta
    BY <2>1 DEF Resolved, TrueRSE
  <2>2. CASE ~(Mode[n].meta /\ Stream[k + 1].meta # NoMeta)
    <3>1. Mode[n].from \in {"ident", "event", "config"}
      BY ModeAssumption
    <3>2. CASE Mode[n].from = "ident"
      BY <2>2, <3>2 DEF Resolved, TrueRSE
    <3>3. CASE Mode[n].from = "event"
      <4>1. Stream[k + 1].ident \in DOMAIN RunOf
        BY <3>3 DEF Orderly
      <4> QED BY <2>2, <3>3, <4>1 DEF Resolved, TrueRSE
    <3>4. CASE Mode[n].from = "config" /\ n \in UseConfigRSE
      <4>1. Mode[n].meta => Stream[k].meta = NoMeta
        BY <2>2, <3>4 DEF Orderly
      <4>2. rse[n] = <<FirstRSE[1], FirstRSE[2] + Ordinal(k)>>
        BY <1>4, <3>4, <4>1 DEF TrueRSE
      <4>3. FirstRSE[2] \in Int
        BY StreamAssumption
      <4>4. Resolved(n, Stream[k + 1], "next") = <<rse[n][1], rse[n][2] + 1>>
        BY <2>2, <3>4 DEF Resolved
      <4>5. TrueRSE(n, k + 1) = <<FirstRSE[1], FirstRSE[2] + Ordinal(k + 1)>>
        BY <2>2, <3>4 DEF TrueRSE
      <4>6. rse[n][2] + 1 = FirstRSE[2] + Ordinal(k + 1)
        BY <1>3, <4>2, <4>3
      <4> QED BY <4>2, <4>4, <4>5, <4>6
    <3>5. CASE Mode[n].from = "config" /\ n \notin UseConfigRSE
      <4>1. Mode[n].meta => Stream[k].meta = NoMeta
        BY <2>2, <3>5 DEF Orderly
      <4>2. rse[n] = <<FirstRSE[1], FirstRSE[2] + 0>>
        BY <1>4, <3>5, <4>1 DEF TrueRSE
      <4> QED BY <2>2, <3>5, <4>2 DEF Resolved, TrueRSE
    <3> QED BY <3>1, <3>2, <3>3, <3>4, <3>5
  <2> QED BY <2>1, <2>2
<1> QED BY <1>3, <1>4

-----------------------------------------------------------------------------
(* One node.                                                               *)

\* What another node does.
LEMMA OthersStay ==
  ASSUME NEW n \in Node, Place(n), conf' = conf, raised => raised', stage' = "run" => stage = "run",
         next'[n] = next[n], at'[n] = at[n], last'[n] = last[n], arg'[n] = arg[n],
         pending'[n] = pending[n], index'[n] = index[n], rse'[n] = rse[n], buffer'[n] = buffer[n],
         n \in shared' => n \in shared
  PROVE  Place(n)'
<1>1. Initial(n)' = Initial(n)
  BY DEF Initial
<1>2. CASE Unstarted(n)
  BY <1>1, <1>2 DEF Place, Unstarted, Blank
<1>3. CASE \E k \in DOMAIN Stream : Within(n, k)
  <2>1. PICK k \in DOMAIN Stream : Within(n, k)
    BY <1>3
  <2>2. Within(n, k)'
    BY <1>1, <2>1 DEF Within
  <2> QED BY <2>2 DEF Place
<1>4. CASE Finished(n)
  BY <1>4 DEF Place, Finished, Blank
<1> QED BY <1>2, <1>3, <1>4 DEF Place

\* All that is kept is to be flushed.
LEMMA FlushesAll ==
  ASSUME NEW n, NEW ident, NEW x \in Name, buffer[n][x] # {}
  PROVE  \E p \in DOMAIN ToFlush(n, ident) : ToFlush(n, ident)[p] = x
<1>1. x \in ToSet(ToFlush(n, ident))
  BY ToFlushIs
<1> QED BY <1>1, InToSet

\* A call begins.
LEMMA PlaceCall ==
  ASSUME Orderly, NodeTypeOK, Working, NEW n \in Node, Place(n), CallNode(n), stage = "run",
         stage' = stage, conf' = conf, raised' = raised, shared' = shared
  PROVE  Place(n)'
<1>1. /\ at[n] = "idle" /\ ~raised /\ n \in shared /\ next[n] \in 1 .. Len(Stream)
      /\ DOMAIN Stream = 1 .. Len(Stream) /\ Len(Stream) \in Nat /\ last[n] \in Int
  BY StreamIs DEF CallNode, MayCall, CallEOS, CallNext, CallSame, NodeTypeOK
<1>2. Initial(n)' = Initial(n) /\ Initial(n) = Initial(n)
  BY DEF Initial
<1>3. ~Finished(n)
  BY <1>1 DEF Finished
<1>4. CASE Unstarted(n)
  <2>1. /\ next[n] = 1 /\ last[n] < 0 /\ rse[n] = FirstRSE /\ Blank(n) /\ index[n] = Initial(n)
    BY <1>1, <1>4 DEF Unstarted
  <2>2. CASE CallEOS(n)
    <3>1. Len(Stream) = 1
      BY <1>1, <2>1, <2>2 DEF CallEOS, Orderly
    <3>2. next'[n] = 2 /\ last'[n] < 0 /\ UNCHANGED <<buffer, last>>
      BY <2>1, <2>2 DEF CallEOS, NothingSince, NodeTypeOK
    <3>3. Finished(n)'
      BY <2>1, <3>1, <3>2 DEF Finished, Blank
    <3> QED BY <3>3 DEF Place
  <2>3. CASE CallSame(n)
    <3>1. /\ Stream[1] # EOS /\ 1 \in DOMAIN Stream /\ Stream[1].ident \in Nat
          /\ rse'[n] = Resolved(n, Stream[1], "first") /\ last'[n] = Stream[1].ident
          /\ at'[n] = "body" /\ UNCHANGED <<next, index, buffer>>
      BY <1>1, <2>1, <2>3, StreamIs DEF CallSame, Resolve, StartBody, At, NodeTypeOK
    <3>2. Ordinal(1) = 0 /\ rse'[n] = TrueRSE(n, 1)
      BY <2>1, <3>1, FirstInput
    <3>3. index'[n] = Initial(n) + Ordinal(1)
      <4>1. index[n] \in Nat
        BY DEF NodeTypeOK
      <4> QED BY <2>1, <3>1, <3>2, <4>1
    <3>4. Within(n, 1)'
      BY <1>2, <2>1, <3>1, <3>2, <3>3 DEF Within, Blank
    <3> QED BY <3>1, <3>4 DEF Place
  <2>4. ~CallNext(n)
    BY <1>1, <2>1 DEF CallNext
  <2> QED BY <2>2, <2>3, <2>4 DEF CallNode
<1>5. CASE \E k \in DOMAIN Stream : Within(n, k)
  <2>1. PICK k \in DOMAIN Stream : Within(n, k)
    BY <1>5
  <2>2. /\ Stream[k] # EOS /\ last[n] = Stream[k].ident /\ rse[n] = TrueRSE(n, k)
        /\ next[n] = k + 1 /\ last[n] >= 0 /\ k + 1 \in DOMAIN Stream
    BY <1>1, <2>1, StreamIs DEF Within
  <2>3. CASE CallEOS(n) \/ CallNext(n)
    <3> DEFINE ident == IF Stream[next[n]] = EOS THEN -1 ELSE Stream[next[n]].ident
    <3>1. /\ Flush(n, ident, "flush") /\ ident # last[n]
          /\ UNCHANGED <<next, last, index, rse, buffer>>
      <4>1. CASE CallEOS(n)
        <5>1. ident = -1 /\ -1 # last[n] /\ ~NothingSince(n, -1)
          BY <1>1, <2>2, <4>1 DEF CallEOS, NothingSince
        <5> QED BY <4>1, <5>1 DEF CallEOS
      <4>2. CASE CallNext(n)
        BY <4>2 DEF CallNext
      <4> QED BY <2>3, <4>1, <4>2
    <3>2. /\ at'[n] = "flush" /\ arg'[n] = ident /\ pending'[n] = ToFlush(n, ident)
      BY <3>1 DEF Flush, At, NodeTypeOK
    <3> HIDE DEF ident
    <3>3. \A x \in Name : buffer[n][x] # {} => \E p \in DOMAIN pending'[n] : pending'[n][p] = x
      <4>1. \A x \in Name : buffer[n][x] # {} =>
              \E p \in DOMAIN ToFlush(n, ident) : ToFlush(n, ident)[p] = x
        BY FlushesAll
      <4> QED BY <3>2, <4>1
    <3>4. Within(n, k)'
      BY <1>2, <2>1, <2>2, <3>1, <3>2, <3>3 DEF Within, ident
    <3> QED BY <3>4 DEF Place
  <2>4. CASE CallSame(n)
    <3>1. /\ Stream[k + 1] # EOS /\ Stream[k + 1].ident = Stream[k].ident
          /\ rse'[n] = Resolved(n, Stream[k + 1], "same") /\ last'[n] = Stream[k + 1].ident
          /\ at'[n] = "body" /\ UNCHANGED <<next, index, buffer>>
      BY <2>2, <2>4 DEF CallSame, Resolve, StartBody, At, NodeTypeOK
    <3>2. Together(k + 1, k) /\ rse'[n] = TrueRSE(n, k + 1)
      BY <2>2, <3>1, SameEvent
    <3>3. /\ index'[n] = Initial(n) + Ordinal(k + 1)
          /\ \A x \in Name : \A i \in buffer[n][x] : Together(i, k + 1)
      BY <2>1, <3>1, <3>2 DEF Within, Together
    <3>4. Within(n, k + 1)'
      BY <1>2, <2>2, <3>1, <3>2, <3>3 DEF Within
    <3> QED BY <2>2, <3>4 DEF Place
  <2> QED BY <2>3, <2>4 DEF CallNode
<1> QED BY <1>3, <1>4, <1>5 DEF Place

\* A node that has begun with an event, and has not ended.
LEMMA WithinSome ==
  ASSUME NEW n \in Node, Place(n), NodeTypeOK, last[n] >= 0
  PROVE  \E k \in DOMAIN Stream : Within(n, k)
BY DEF Place, Unstarted, Finished, NodeTypeOK

\* An object of the event is written.
LEMMA PlaceWrite ==
  ASSUME NodeTypeOK, Working, NEW n \in Node, Place(n), FlushWrite(n),
         stage' = stage, conf' = conf, raised' = raised
  PROVE  Place(n)'
<1>1. /\ at[n] \in {"flush", "final"} /\ pending[n] # <<>> /\ last[n] >= 0
      /\ pending[n] \in Seq(Name) /\ buffer[n] \in [Name -> SUBSET DOMAIN Stream]
  BY DEF FlushWrite, Working, NodeTypeOK
<1>2. PICK k \in DOMAIN Stream : Within(n, k)
  BY <1>1, WithinSome
<1>3. /\ UNCHANGED <<next, at, last, arg, index, rse, shared>>
      /\ pending'[n] = Tail(pending[n]) /\ Head(pending[n]) \in Name
      /\ buffer'[n] = [buffer[n] EXCEPT ![Head(pending[n])] = {}]
  BY <1>1 DEF FlushWrite, NodeTypeOK
<1>4. \A x \in Name : /\ buffer'[n][x] \subseteq buffer[n][x]
                      /\ x = Head(pending[n]) => buffer'[n][x] = {}
                      /\ x # Head(pending[n]) => buffer'[n][x] = buffer[n][x]
  BY <1>1, <1>3
<1>5. ASSUME NEW x \in Name, buffer'[n][x] # {}
      PROVE  \E p \in DOMAIN pending'[n] : pending'[n][p] = x
  <2>1. x # Head(pending[n]) /\ buffer[n][x] # {}
    BY <1>4, <1>5
  <2>2. PICK p \in DOMAIN pending[n] : pending[n][p] = x
    BY <1>1, <1>2, <2>1 DEF Within
  <2>3. p - 1 \in DOMAIN Tail(pending[n]) /\ Tail(pending[n])[p - 1] = x
    BY <1>1, <2>1, <2>2
  <2> QED BY <1>3, <2>3
<1>6. Initial(n)' = Initial(n)
  BY DEF Initial
<1>7. \A x \in Name : \A i \in buffer'[n][x] : Together(i, k)
  BY <1>2, <1>4 DEF Within
<1>8. Within(n, k)'
  BY <1>1, <1>2, <1>3, <1>5, <1>6, <1>7 DEF Within
<1> QED BY <1>8 DEF Place

\* When all is written, nothing is kept.
LEMMA AllWritten ==
  ASSUME NEW n \in Node, NEW k \in DOMAIN Stream, Within(n, k), at[n] \in {"flush", "final"},
         Flushed(n), NodeTypeOK
  PROVE  /\ \A x \in Name : buffer[n][x] = {} /\ buffer'[n][x] = {}
         /\ last'[n] = arg[n] /\ index'[n] = index[n] + 1
         /\ index[n] \in Nat /\ arg[n] \in Int
<1>1. pending[n] = <<>> /\ DOMAIN pending[n] = {}
  BY DEF Flushed
<1>2. \A x \in Name : buffer[n][x] = {}
  BY <1>1 DEF Within
<1> QED BY <1>2 DEF Flushed, Advance, NodeTypeOK

\* A node that has the sink has an index to begin with.
LEMMA InitialIs ==
  ASSUME MainTyped, Listed, NEW n \in Node, n \in shared
  PROVE  Initial(n) \in Nat
<1>1. PICK i \in DOMAIN conf : conf[i].comp = n
  BY DEF Listed, Has
<1>2. \A j \in DOMAIN conf : conf[j].comp = n => conf[j].data \in Nat
  <2> SUFFICES ASSUME NEW j \in DOMAIN conf, conf[j].comp = n PROVE conf[j].data \in Nat
    OBVIOUS
  <2>1. conf[j] \in Entry
    BY DomainIs DEF MainTyped
  <2> QED BY <2>1, ComponentAssumption DEF Entry
<1> QED BY <1>1, <1>2 DEF Initial

\* What a fill and a failure do to the objects of the node.
LEMMA FillGrows ==
  ASSUME NodeTypeOK, NEW n \in Node, next[n] \in DOMAIN Stream, Fill(n), NEW y \in Name
  PROVE  /\ buffer'[n][y] \subseteq buffer[n][y] \cup {next[n]}
         /\ y # Head(todo[n]) => buffer'[n][y] = buffer[n][y]
         /\ y = Head(todo[n]) =>
              /\ y \in Stream[next[n]].fills => next[n] \in buffer'[n][y]
              /\ ~Replaces(n, y, Stream[next[n]]) => buffer[n][y] \subseteq buffer'[n][y]
<1> DEFINE x == Head(todo[n])
           b == Left(n, x) \cup (IF x \in Stream[next[n]].fills THEN {next[n]} ELSE {})
<1>1. x \in Name
  BY TodoTyped DEF Fill, Objects
<1>2. /\ b \subseteq buffer[n][x] \cup {next[n]}
      /\ x \in Stream[next[n]].fills => next[n] \in b
      /\ ~Replaces(n, x, Stream[next[n]]) => buffer[n][x] \subseteq b
  BY DEF Left
<1>3. b \in SUBSET DOMAIN Stream
  BY <1>1, LeftTyped
<1>4. buffer' = [buffer EXCEPT ![n][x] = b]
  BY DEF Fill
<1> HIDE DEF b, x
<1>5. buffer'[n][y] = IF y = x THEN b ELSE buffer[n][y]
  BY <1>1, <1>3, <1>4, BufferTyped
<1> QED BY <1>2, <1>5 DEF x

LEMMA FailShrinks ==
  ASSUME NodeTypeOK, NEW n \in Node, Fail(n), NEW y \in Name
  PROVE  /\ buffer'[n][y] \subseteq buffer[n][y]
         /\ buffer'[n][y] # buffer[n][y] =>
              at[n] = "body" /\ Replaces(n, y, Stream[next[n]])
<1>1. CASE UNCHANGED buffer
  BY <1>1
<1>2. CASE ResetOnly(n)
  <2> DEFINE b == Left(n, "points")
  <2>1. /\ b \subseteq buffer[n]["points"]
        /\ b # buffer[n]["points"] => Replaces(n, "points", Stream[next[n]])
    BY DEF Left
  <2>2. "points" \in Name
    BY DEF Name
  <2>3. b \in SUBSET DOMAIN Stream
    BY <2>2, LeftTyped
  <2>4. at[n] = "body" /\ buffer' = [buffer EXCEPT ![n]["points"] = b]
    BY <1>2 DEF ResetOnly
  <2> HIDE DEF b
  <2>5. buffer'[n][y] = IF y = "points" THEN b ELSE buffer[n][y]
    BY <2>2, <2>3, <2>4, BufferTyped
  <2> QED BY <2>1, <2>4, <2>5
<1> QED BY <1>1, <1>2 DEF Fail

LEMMA PlaceGoOn ==
  ASSUME Orderly, MainTyped, Listed, NodeTypeOK, Working, NEW n \in Node, Place(n), GoOn(n), stage = "run",
         stage' = stage, conf' = conf, raised' = raised
  PROVE  Place(n)'
<1>1. /\ at[n] \in {"flush", "body"} => next[n] \in DOMAIN Stream /\ last[n] >= 0
      /\ DOMAIN Stream = 1 .. Len(Stream) /\ Len(Stream) \in Nat
  BY StreamIs DEF Working
<1>2. Initial(n)' = Initial(n)
  BY DEF Initial
<1>3. CASE FlushWrite(n)
  BY <1>3, PlaceWrite
<1>4. CASE ~FlushWrite(n)
  <2>1. at[n] \in {"flush", "body"}
    BY <1>4 DEF GoOn, EndStream, NewEvent, Visit, Fill, Return
  <2>2. PICK k \in DOMAIN Stream : Within(n, k)
    BY <1>1, <2>1, WithinSome
  <2>3. k \in Nat /\ Stream[k] # EOS
    BY <1>1, <2>2 DEF Within
  <2>4. CASE EndStream(n)
    <3>1. /\ at[n] = "flush" /\ arg[n] < 0 /\ Flushed(n) /\ at'[n] = "idle"
          /\ next'[n] = next[n] + 1
      BY <2>4 DEF EndStream, At, NodeTypeOK
    <3>2. Stream[next[n]] = EOS
      <4>1. Stream[next[n]] # EOS => Stream[next[n]].ident \in Nat
        BY <1>1, <2>1, StreamIs
      <4> QED BY <2>2, <3>1, <4>1 DEF Within
    <3>3. next[n] = Len(Stream)
      BY <1>1, <2>1, <3>2 DEF Orderly
    <3>4. Blank(n)' /\ last'[n] = arg[n] /\ arg[n] \in Int
      BY <2>2, <3>1, AllWritten DEF Blank
    <3>5. Finished(n)'
      BY <1>1, <3>1, <3>3, <3>4 DEF Finished
    <3> QED BY <3>5 DEF Place
  <2>5. CASE NewEvent(n)
    <3>1. /\ at[n] = "flush" /\ arg[n] >= 0 /\ Flushed(n) /\ at'[n] = "body"
          /\ next'[n] = next[n] /\ rse'[n] = Resolved(n, Stream[next[n]], "next")
      BY <2>5 DEF NewEvent, StartBody, At, Resolve, NodeTypeOK
    <3>2. /\ next[n] = k + 1 /\ k + 1 \in DOMAIN Stream /\ Stream[k + 1] # EOS
          /\ arg[n] = Stream[k + 1].ident /\ arg[n] # Stream[k].ident
          /\ rse[n] = TrueRSE(n, k) /\ index[n] = Initial(n) + Ordinal(k)
      BY <1>1, <2>1, <2>2, <3>1 DEF Within
    <3>3. /\ Ordinal(k + 1) = Ordinal(k) + 1 /\ Ordinal(k) \in Int
          /\ Resolved(n, Stream[k + 1], "next") = TrueRSE(n, k + 1)
      BY <2>3, <3>2, OtherEvent
    <3>4. /\ \A x \in Name : buffer'[n][x] = {}
          /\ last'[n] = arg[n] /\ index'[n] = index[n] + 1
      BY <2>2, <3>1, AllWritten
    <3>5. index'[n] = Initial(n) + Ordinal(k + 1)
      <4>1. Initial(n) \in Nat
        BY <2>1, InitialIs DEF Working
      <4>2. index[n] + 1 = Initial(n) + (Ordinal(k) + 1)
        BY <3>2, <3>3, <4>1
      <4> QED BY <3>2, <3>3, <3>4, <4>2
    <3>6. Within(n, k + 1)'
      BY <1>2, <3>1, <3>2, <3>3, <3>4, <3>5 DEF Within
    <3> QED BY <3>2, <3>6 DEF Place
  <2>6. CASE Visit(n)
    <3>1. UNCHANGED <<next, at, last, arg, pending, index, rse, buffer, shared>>
      BY <2>6 DEF Visit
    <3>2. Within(n, k)'
      BY <1>2, <2>2, <3>1 DEF Within
    <3> QED BY <3>2 DEF Place
  <2>7. CASE Fill(n)
    <3>1. /\ at[n] = "body" /\ next[n] = k
          /\ UNCHANGED <<next, at, last, arg, pending, index, rse, shared>>
      BY <2>2, <2>7 DEF Fill, Within
    <3>2. \A x \in Name : buffer'[n][x] \subseteq buffer[n][x] \cup {k}
      BY <2>7, <3>1, FillGrows
    <3>3. \A x \in Name : \A i \in buffer'[n][x] : Together(i, k)
      BY <2>2, <3>2 DEF Within, Together
    <3>4. Within(n, k)'
      BY <1>2, <2>2, <3>1, <3>3 DEF Within
    <3> QED BY <3>4 DEF Place
  <2>8. CASE Return(n)
    <3>1. /\ at[n] = "body" /\ at'[n] = "idle" /\ next'[n] = k + 1 /\ next[n] = k
          /\ UNCHANGED <<last, arg, pending, index, rse, buffer, shared>>
      BY <2>2, <2>8 DEF Return, At, NodeTypeOK, Within
    <3>2. Within(n, k)'
      BY <1>2, <2>2, <3>1 DEF Within
    <3> QED BY <3>2 DEF Place
  <2> QED BY <1>4, <2>4, <2>5, <2>6, <2>7, <2>8 DEF GoOn
<1> QED BY <1>3, <1>4

LEMMA PlaceFail ==
  ASSUME NodeTypeOK, Working, NEW n \in Node, Place(n), Fail(n), stage' = stage, conf' = conf,
         raised' = TRUE
  PROVE  Place(n)'
<1>1. /\ at'[n] = "idle" /\ UNCHANGED <<next, last, arg, index, rse, shared>>
      /\ at[n] \in {"flush", "body"}
  BY DEF Fail, MayFail, At, NodeTypeOK
<1>2. PICK k \in DOMAIN Stream : Within(n, k)
  BY <1>1, WithinSome DEF Working
<1>3. Initial(n)' = Initial(n)
  BY DEF Initial
<1>4. \A x \in Name : \A i \in buffer'[n][x] : Together(i, k)
  BY <1>2, FailShrinks DEF Within
<1>5. Within(n, k)'
  BY <1>1, <1>2, <1>3, <1>4 DEF Within
<1> QED BY <1>5 DEF Place

\* finalize().
LEMMA PlaceFinal ==
  ASSUME NodeTypeOK, Working, NEW n \in Node, Place(n), stage = "finalize",
         FinalizeFlush(n) \/ FlushWrite(n) \/ FinalizeFlushed(n) \/ FinalizeRelease(n),
         stage' = stage, conf' = conf, raised' = raised
  PROVE  Place(n)'
<1>1. Initial(n)' = Initial(n)
  BY DEF Initial
<1>2. at[n] = "final" => last[n] >= 0
  BY DEF Working
<1>3. CASE FlushWrite(n)
  BY <1>3, PlaceWrite
<1>4. CASE FinalizeFlushed(n)
  <2>1. /\ at[n] = "final" /\ Flushed(n) /\ stage' # "run"
    BY <1>4 DEF FinalizeFlushed
  <2>2. PICK k \in DOMAIN Stream : Within(n, k)
    BY <1>2, <2>1, WithinSome
  <2>3. Blank(n)' /\ last'[n] = -1
    BY <2>1, <2>2, AllWritten DEF Blank, Within
  <2>4. Finished(n)'
    BY <2>1, <2>3 DEF Finished
  <2> QED BY <2>4 DEF Place
<1>5. CASE FinalizeFlush(n) /\ ~NothingSince(n, -1)
  <2>1. /\ Flush(n, -1, "final") /\ last[n] >= 0 /\ UNCHANGED <<next, last, index, rse, buffer, shared>>
    BY <1>5 DEF FinalizeFlush, NothingSince, NodeTypeOK
  <2>2. PICK k \in DOMAIN Stream : Within(n, k)
    BY <2>1, WithinSome
  <2>3. at'[n] = "final" /\ arg'[n] = -1 /\ pending'[n] = ToFlush(n, -1)
    BY <2>1 DEF Flush, At, NodeTypeOK
  <2>4. \A x \in Name : buffer[n][x] # {} =>
          \E p \in DOMAIN ToFlush(n, -1) : ToFlush(n, -1)[p] = x
    BY FlushesAll
  <2>5. \A x \in Name : buffer[n][x] # {} => \E p \in DOMAIN pending'[n] : pending'[n][p] = x
    BY <2>3, <2>4
  <2>6. Within(n, k)'
    BY <1>1, <2>1, <2>2, <2>3, <2>5 DEF Within
  <2> QED BY <2>6 DEF Place
<1>6. CASE (FinalizeFlush(n) /\ NothingSince(n, -1)) \/ FinalizeRelease(n)
  <2>1. /\ UNCHANGED <<next, last, arg, pending, index, rse, buffer, shared>>
        /\ at'[n] \in {"release", "idle"} /\ stage' # "run"
    BY <1>6 DEF FinalizeFlush, FinalizeRelease, At, NodeTypeOK
  <2>2. CASE Unstarted(n)
    BY <1>1, <2>1, <2>2 DEF Place, Unstarted, Blank
  <2>3. CASE \E k \in DOMAIN Stream : Within(n, k)
    <3>1. PICK k \in DOMAIN Stream : Within(n, k)
      BY <2>3
    <3>2. Within(n, k)'
      BY <1>1, <2>1, <3>1 DEF Within
    <3> QED BY <3>2 DEF Place
  <2>4. CASE Finished(n)
    BY <2>1, <2>4 DEF Place, Finished, Blank
  <2> QED BY <2>2, <2>3, <2>4 DEF Place
<1> QED BY <1>3, <1>4, <1>5, <1>6

-----------------------------------------------------------------------------
(* The files.                                                              *)

LEMMA RightStays ==
  ASSUME conf' = conf, templated' = templated, NEW z, NEW e
  PROVE  Right(z, e)' <=> Right(z, e)
<1>1. \A n : Initial(n)' = Initial(n)
  BY DEF Initial
<1> QED BY <1>1 DEF Right, NodeOf

\* Nothing is written.
LEMMA FiledStays ==
  ASSUME Filed, conf' = conf, templated' = templated, files' = files, Early' => Early
  PROVE  Filed'
<1>1. \A z \in ZipFile : \A p \in DOMAIN files[z] : Right(z, files[z][p])'
  BY RightStays DEF Filed
<1> QED BY <1>1 DEF Filed, Right, NodeOf

\* An object is written under the index and numbers of what it was made from.
LEMMA FiledWrite ==
  ASSUME Filed, SinkTyped, EveryEventNamed, ~Early', conf' = conf,
         NEW i, NEW e \in Nat \X Nat, NEW obj, Write(i, e, obj),
         \A j \in obj.items : e = TrueRSE(obj.node, j) /\ i = Initial(obj.node) + Ordinal(j)
  PROVE  Filed'
<1> DEFINE z == Target(e[2])
           set == SetIndex(IF templated THEN 0 ELSE i)
           now == Indexed(set[1], set[2], obj.name)
           old == IF Reopens(e[2]) THEN <<>> ELSE files[z]
           one == <<now[1], e, obj>>
<1>1. /\ files' = [files EXCEPT ![z] = Append(old, one)] /\ templated' = templated
      /\ z # NoZip
  BY DEF Write
<1>2. z \in ZipFile
  BY <1>1 DEF Target, SinkTyped, EveryEventNamed
<1>3. now[1] = IF templated THEN 0 ELSE i
  BY DEF SetIndex, Indexed
<1>4. Right(z, one)
  BY <1>3 DEF Right, NodeOf, Target
<1>5. /\ old \in Seq(Written)
      /\ \A p \in DOMAIN old : Right(z, old[p])
  BY <1>2 DEF Filed, SinkTyped
<1> HIDE DEF z, old, one
<1>6. ASSUME NEW y \in ZipFile, NEW p \in DOMAIN files'[y]
      PROVE  Right(y, files'[y][p])
  <2>1. CASE y # z
    BY <1>1, <1>2, <1>6, <2>1 DEF Filed, SinkTyped
  <2>2. CASE y = z
    <3>1. files'[y] = Append(old, one)
      BY <1>1, <1>2, <2>2 DEF SinkTyped
    <3>2. p \in 1 .. Len(old) + 1 /\ Len(old) \in Nat /\ DOMAIN old = 1 .. Len(old)
      BY <1>5, <1>6, <3>1
    <3>3. CASE p = Len(old) + 1
      BY <1>4, <1>5, <2>2, <3>1, <3>3
    <3>4. CASE p \in DOMAIN old
      BY <1>5, <2>2, <3>1, <3>4
    <3> QED BY <3>2, <3>3, <3>4
  <2> QED BY <2>1, <2>2
<1>7. \A n : Initial(n)' = Initial(n)
  BY DEF Initial
<1>8. ASSUME NEW y \in ZipFile, NEW p \in DOMAIN files'[y]
      PROVE  Right(y, files[y][p])'
  <2>1. Right(y, files'[y][p])
    BY <1>6
  <2> QED BY <1>1, <1>7, <2>1 DEF Right, NodeOf
<1>9. (\A y \in ZipFile : \A p \in DOMAIN files[y] : Right(y, files[y][p]))'
  BY <1>8
<1> QED BY <1>9 DEF Filed

-----------------------------------------------------------------------------
(* The job.                                                                *)

\* Before nodes run.
LEMMA EarlyStays ==
  ASSUME PlaceInv, Early, UNCHANGED nodevars, conf' = conf \/ shared = {},
         \A z \in ZipFile : files'[z] = <<>>
  PROVE  PlaceInv'
<1>1. UNCHANGED <<next, at, last, arg, pending, index, rse, buffer, shared>>
  BY DEF nodevars
<1>2. \A n \in Node : Unstarted(n)'
  BY <1>1 DEF PlaceInv, Unstarted, Blank, Initial
<1>3. Filed'
  BY DEF Filed
<1> QED BY <1>2, <1>3 DEF PlaceInv, Place

\* A node is configured.
LEMMA PlaceConfigured ==
  ASSUME PlaceInv, JobInv, Comp # Sink, Configure \/ ConfigureFails
  PROVE  PlaceInv'
<1> DEFINE n == Comp
<1>1. /\ stage = "configure" /\ pos <= Len(conf) /\ conf' = conf /\ NodeConfigure(n, Data)
  BY DEF Configure, ConfigureFails
<1>2. MainTyped /\ Listed /\ NodeTypeOK /\ Early
  BY <1>1 DEF JobInv, Typed, Early
<1>3. pos \in DOMAIN conf /\ n \in Node /\ n = conf[pos].comp
  BY <1>1, <1>2, EntryIs DEF Comp
<1>4. Initial(n) = Data
  <2>1. \A i \in DOMAIN conf : conf[i].comp = n => i = pos
    BY <1>2, <1>3 DEF Listed, Distinct
  <2>2. pos = CHOOSE i \in DOMAIN conf : conf[i].comp = n
    BY <1>3, <2>1
  <2> QED BY <2>2 DEF Initial, Data
<1> HIDE DEF n
<1>5. /\ shared' = shared \cup {n} /\ index' = [index EXCEPT ![n] = Data]
      /\ UNCHANGED <<next, last, rse, buffer, files>>
  BY <1>1 DEF NodeConfigure, Acquire
<1>6. \A m : Initial(m)' = Initial(m)
  BY <1>1 DEF Initial
<1>7. ASSUME NEW m \in Node PROVE Unstarted(m)'
  <2>1. Unstarted(m)
    BY <1>2 DEF PlaceInv
  <2>2. m \in shared' => index'[m] = Initial(m)
    BY <1>2, <1>3, <1>4, <1>5, <2>1 DEF Unstarted, NodeTypeOK
  <2> QED BY <1>5, <1>6, <2>1, <2>2 DEF Unstarted, Blank
<1>8. Filed'
  BY <1>2, <1>5 DEF PlaceInv, Filed
<1> QED BY <1>7, <1>8 DEF PlaceInv, Place

\* A step that leaves nodes and sink alone once nodes have run, or may.
LEMMA LateStays ==
  ASSUME PlaceInv, UNCHANGED nodevars, UNCHANGED sinkvars, conf' = conf, raised => raised',
         Early' => Early, stage' = "run" => stage = "run"
  PROVE  PlaceInv'
<1>1. /\ UNCHANGED <<next, at, last, arg, pending, index, rse, buffer, shared>>
      /\ UNCHANGED <<templated, files>>
  BY DEF nodevars, sinkvars
<1>2. \A n \in Node : Place(n)'
  BY <1>1, OthersStay DEF PlaceInv
<1>3. Filed'
  BY <1>1, FiledStays DEF PlaceInv
<1>4. Early' => \A n \in Node : Unstarted(n)'
  BY <1>1 DEF PlaceInv, Unstarted, Blank, Initial
<1> QED BY <1>2, <1>3, <1>4 DEF PlaceInv

\* A node's object is written.
LEMMA FiledByNode ==
  ASSUME PlaceInv, JobInv, EveryEventNamed, ~Early', conf' = conf, NEW n \in Node, at[n] # "idle",
         last[n] >= 0, FlushWrite(n) \/ Visit(n)
  PROVE  Filed'
<1>1. NodeTypeOK /\ SinkTyped /\ Working /\ Filed /\ Place(n)
  BY DEF JobInv, Typed, PlaceInv
<1>2. PICK k \in DOMAIN Stream : Within(n, k)
  BY <1>1, WithinSome
<1>3. /\ rse[n] \in Nat \X Nat /\ rse[n] = TrueRSE(n, k) /\ index[n] = Initial(n) + Ordinal(k)
  BY <1>1, <1>2 DEF NodeTypeOK, Within
<1>4. CASE FlushWrite(n)
  <2> DEFINE obj == [node |-> n, name |-> Head(pending[n]), items |-> buffer[n][Head(pending[n])]]
  <2>1. Write(index[n], rse[n], obj) /\ Head(pending[n]) \in Name
    BY <1>1, <1>4 DEF FlushWrite, NodeTypeOK
  <2>2. \A j \in obj.items : Together(j, k)
    BY <1>2, <2>1 DEF Within
  <2>3. obj.node = n
    OBVIOUS
  <2> HIDE DEF obj
  <2>4. \A j \in obj.items : rse[n] = TrueRSE(obj.node, j) /\ index[n] = Initial(obj.node) + Ordinal(j)
    BY <1>3, <2>2, <2>3 DEF Together
  <2> QED BY <1>1, <1>3, <2>1, <2>4, FiledWrite
<1>5. CASE Visit(n)
  <2> DEFINE obj == [node |-> n, name |-> "tagger", items |-> {next[n]}]
  <2>1. Write(index[n], rse[n], obj) /\ next[n] = k
    BY <1>2, <1>5 DEF Visit, Within
  <2>2. obj.node = n /\ \A j \in obj.items : j = k
    BY <2>1
  <2> HIDE DEF obj
  <2>3. \A j \in obj.items : rse[n] = TrueRSE(obj.node, j) /\ index[n] = Initial(obj.node) + Ordinal(j)
    BY <1>3, <2>2
  <2> QED BY <1>1, <1>3, <2>1, <2>3, FiledWrite
<1> QED BY <1>4, <1>5

\* A node runs.
LEMMA PlaceRuns ==
  ASSUME PlaceInv, JobInv, Orderly, EveryEventNamed, NEW n \in Node, Run(n) \/ RunFails(n)
  PROVE  PlaceInv'
<1>1. /\ stage = "run" /\ stage' = stage /\ conf' = conf
      /\ \/ raised' = raised /\ (CallNode(n) \/ GoOn(n))
         \/ raised' = TRUE /\ Fail(n)
  BY DEF Run, RunFails, mainvars
<1>2. MainTyped /\ NodeTypeOK /\ SinkTyped /\ Listed /\ Working /\ Place(n)
  BY DEF JobInv, Typed, PlaceInv
<1>3. shared' = shared
  BY <1>1 DEF CallNode, GoOn, CallEOS, CallNext, CallSame, FlushWrite, EndStream, NewEvent, Flushed,
              Visit, Fill, Return, Fail
<1>4. Place(n)'
  BY <1>1, <1>2, <1>3, PlaceCall, PlaceGoOn, PlaceFail
<1>5. ASSUME NEW m \in Node, m # n
      PROVE  /\ at'[m] = at[m] /\ last'[m] = last[m] /\ arg'[m] = arg[m]
             /\ pending'[m] = pending[m] /\ next'[m] = next[m] /\ index'[m] = index[m]
             /\ rse'[m] = rse[m] /\ buffer'[m] = buffer[m]
  <2>1. CASE CallNode(n)
    BY <1>2, <1>5, <2>1 DEF CallNode, CallEOS, CallNext, CallSame, Flush, Resolve, StartBody, At,
                            NodeTypeOK
  <2>2. CASE GoOn(n)
    BY <1>2, <1>5, <2>2 DEF GoOn, FlushWrite, EndStream, NewEvent, Flushed, Advance, Resolve, Visit,
                            Fill, Return, StartBody, At, NodeTypeOK
  <2>3. CASE Fail(n)
    BY <1>2, <1>5, <2>3 DEF Fail, ResetOnly, At, NodeTypeOK
  <2> QED BY <1>1, <2>1, <2>2, <2>3
<1>6. ASSUME NEW m \in Node, m # n PROVE Place(m)'
  <2>1. Place(m)
    BY DEF PlaceInv
  <2> QED BY <1>1, <1>3, <1>5, <1>6, <2>1, OthersStay
<1>7. ~Early'
  BY <1>1 DEF Early
<1>8. Filed'
  <2>1. CASE FlushWrite(n) \/ Visit(n)
    <3>1. at[n] # "idle" /\ last[n] >= 0
      BY <1>2, <2>1 DEF FlushWrite, Visit, Working
    <3> QED BY <1>1, <1>7, <2>1, <3>1, FiledByNode
  <2>2. CASE ~(FlushWrite(n) \/ Visit(n))
    <3>1. UNCHANGED <<templated, files>>
      BY <1>1, <2>2 DEF CallNode, GoOn, CallEOS, CallNext, CallSame, EndStream, NewEvent, Flushed,
                        Fill, Return, Fail, sinkvars
    <3> QED BY <1>1, <1>7, <3>1, FiledStays DEF PlaceInv
  <2> QED BY <2>1, <2>2
<1> QED BY <1>4, <1>6, <1>7, <1>8 DEF PlaceInv

\* A node is finalized.
LEMMA PlaceFinalizes ==
  ASSUME PlaceInv, JobInv, EveryEventNamed, NEW n \in Node, stage = "finalize",
         FinalizeFlush(n) \/ FlushWrite(n) \/ FinalizeFlushed(n) \/ FinalizeRelease(n),
         stage' = stage, conf' = conf, raised' = raised
  PROVE  PlaceInv'
<1>1. FinalizeFlush(n) \/ FlushWrite(n) \/ FinalizeFlushed(n) \/ FinalizeRelease(n)
  OBVIOUS
<1>2. MainTyped /\ NodeTypeOK /\ SinkTyped /\ Listed /\ Working
  BY DEF JobInv, Typed
<1>3. Place(n)
  BY DEF PlaceInv
<1>4. Place(n)'
  BY <1>1, <1>2, <1>3, PlaceFinal
<1>5. shared' = shared
  BY <1>1 DEF FinalizeFlush, FlushWrite, FinalizeFlushed, Flushed, FinalizeRelease
<1>6. ASSUME NEW m \in Node, m # n
      PROVE  /\ at'[m] = at[m] /\ last'[m] = last[m] /\ arg'[m] = arg[m]
             /\ pending'[m] = pending[m] /\ next'[m] = next[m] /\ index'[m] = index[m]
             /\ rse'[m] = rse[m] /\ buffer'[m] = buffer[m]
  BY <1>1, <1>2, <1>3, <1>6 DEF FinalizeFlush, Flush, FlushWrite, FinalizeFlushed, Flushed, Advance,
                                FinalizeRelease, At, NodeTypeOK
<1>7. ASSUME NEW m \in Node, m # n PROVE Place(m)'
  <2>1. Place(m)
    BY DEF PlaceInv
  <2> QED BY <1>1, <1>5, <1>6, <1>7, <2>1, OthersStay
<1>8. ~Early'
  BY <1>1 DEF Early
<1>9. Filed'
  <2>1. CASE FlushWrite(n)
    <3>1. at[n] # "idle" /\ last[n] >= 0
      BY <1>2, <1>3, <2>1 DEF FlushWrite, Working
    <3> QED BY <1>1, <1>3, <1>8, <2>1, <3>1, FiledByNode
  <2>2. CASE ~FlushWrite(n)
    <3>1. UNCHANGED <<templated, files>>
      BY <1>1, <2>2 DEF FinalizeFlush, FinalizeFlushed, Flushed, FinalizeRelease, Release, sinkvars
    <3> QED BY <1>1, <1>8, <3>1, FiledStays DEF PlaceInv
  <2> QED BY <2>1, <2>2
<1> QED BY <1>4, <1>7, <1>8, <1>9 DEF PlaceInv

LEMMA PlaceStep ==
  ASSUME PlaceInv, JobInv, Orderly, EveryEventNamed, [JobNext]_jobvars
  PROVE  PlaceInv'
<1>1. CASE Load \/ Extend \/ Loaded
  <2>1. Early /\ shared = {} /\ UNCHANGED nodevars /\ files' = files
    BY <1>1 DEF Load, Extend, Loaded, Early, JobInv, Listed, sinkvars
  <2> QED BY <2>1, EarlyStays DEF PlaceInv, Filed
<1>2. CASE Construct \/ NextStage \/ SinkMissing \/ Fails
  <2>1. Early /\ conf' = conf /\ UNCHANGED nodevars /\ files' = files
    BY <1>2 DEF Construct, NextStage, SinkMissing, Fails, Early, sinkvars
  <2> QED BY <2>1, EarlyStays DEF PlaceInv, Filed
<1>3. CASE Configure /\ Comp = Sink
  <2>1. Early /\ conf' = conf /\ UNCHANGED nodevars /\ SinkConfigure(Data)
    BY <1>3 DEF Configure, Early
  <2>2. \A z \in ZipFile : files'[z] = <<>>
    BY <2>1 DEF SinkConfigure, PlaceInv, Filed, JobInv, Typed, SinkTyped
  <2> QED BY <2>1, <2>2, EarlyStays
<1>4. CASE (Configure /\ Comp # Sink) \/ ConfigureFails
  BY <1>4, PlaceConfigured DEF ConfigureFails
<1>5. CASE RunEnds \/ Finalized \/ (Finalize /\ ~Doomed(Comp)) \/ Gone \/ UNCHANGED jobvars
  <2>1. /\ UNCHANGED nodevars /\ UNCHANGED sinkvars /\ conf' = conf /\ raised' = raised
        /\ Early' => Early
        /\ stage' = "run" => stage = "run"
    <3>1. CASE RunEnds \/ Finalized \/ (Finalize /\ ~Doomed(Comp))
      BY <3>1 DEF RunEnds, Finalized, Finalize, Enter, Early
    <3>2. CASE Gone \/ UNCHANGED jobvars
      BY <3>2 DEF Gone, jobvars, mainvars, Early
    <3> QED BY <1>5, <3>1, <3>2
  <2> QED BY <2>1, LateStays
<1>6. CASE Finalize /\ Doomed(Comp)
  <2>1. Comp \in Node
    BY <1>6 DEF Finalize, Doomed, Comp, JobInv, Typed, MainTyped
  <2>2. /\ stage = "finalize" /\ stage' = stage /\ conf' = conf /\ raised' = raised
        /\ \/ FinalizeFlush(Comp) \/ FlushWrite(Comp)
           \/ FinalizeFlushed(Comp) \/ FinalizeRelease(Comp)
    BY <1>6 DEF Finalize
  <2>3. \A n \in Node :
          FinalizeFlush(n) \/ FlushWrite(n) \/ FinalizeFlushed(n) \/ FinalizeRelease(n) => PlaceInv'
    BY <2>2, PlaceFinalizes
  <2> QED BY <2>1, <2>2, <2>3
<1>7. CASE \E n \in Node : Run(n) \/ RunFails(n)
  BY <1>7, PlaceRuns
<1> QED BY <1>1, <1>2, <1>3, <1>4, <1>5, <1>6, <1>7 DEF JobNext, Startup, Shutdown

LEMMA PlaceKept == ASSUME Orderly, EveryEventNamed PROVE JobSpec => []PlaceInv
<1>1. JobInit => PlaceInv
  <2> SUFFICES ASSUME JobInit PROVE PlaceInv
    OBVIOUS
  <2>1. /\ \A n \in Node : next[n] = 1 /\ last[n] = -1 /\ rse[n] = FirstRSE /\ Blank(n)
        /\ shared = {} /\ \A z \in ZipFile : files[z] = <<>>
    BY DEF JobInit, NodeInit, SinkInit, Blank
  <2>2. Filed /\ \A n \in Node : Unstarted(n)
    BY <2>1 DEF Filed, Unstarted
  <2> QED BY <2>2 DEF PlaceInv, Place
<1>2. PlaceInv /\ JobInv /\ [JobNext]_jobvars => PlaceInv'
  BY PlaceStep
<1> QED BY <1>1, <1>2, JobKept, PTL DEF JobSpec

\* Everything that is written, at the next event, at the end or by finalize(), is
\* under the index and the run and event numbers of the event it was made from,
\* however nodes that share the file interleave and whatever raises.
THEOREM EverythingAtItsIndex ==
  ASSUME Orderly, EveryEventNamed
  PROVE  JobSpec => []AtItsIndex
<1>1. PlaceInv => AtItsIndex
  <2> SUFFICES ASSUME PlaceInv, NEW z \in ZipFile, NEW e \in Entries(z), NEW i \in e[3].items
               PROVE  /\ e[1] = IF templated THEN 0 ELSE Initial(NodeOf(e)) + Ordinal(i)
                      /\ e[2] = TrueRSE(NodeOf(e), i)
                      /\ templated => z = TrueRSE(NodeOf(e), i)[2]
    BY DEF AtItsIndex
  <2>1. PICK p \in DOMAIN files[z] : e = files[z][p]
    BY DEF Entries, ToSet
  <2>2. Right(z, e)
    BY <2>1 DEF PlaceInv, Filed
  <2> QED BY <2>2 DEF Right
<1> QED BY <1>1, PlaceKept, PTL

-----------------------------------------------------------------------------
(* No name twice under one index.                                          *)

\* Where a file is named after the number of an event, no two events of a node
\* have one number.
Apart ==
  \A n \in Node : \A i, j \in DOMAIN Stream :
    /\ Stream[i] # EOS /\ Stream[j] # EOS
    /\ TrueRSE(n, i)[2] = TrueRSE(n, j)[2]
    => Ordinal(i) = Ordinal(j)

\* The entry e of file z is of the event of the input at k.  The node is past that
\* event, or it is flushing it and is done with the object.
Stamp(z, e, k) ==
  LET n == NodeOf(e)
      first == Initial(n)
  IN  /\ first \in Nat /\ Stream[k] # EOS
      /\ e[1] = IF templated THEN 0 ELSE first + Ordinal(k)
      /\ templated => z = TrueRSE(n, k)[2]
      /\ first + Ordinal(k) <= index[n]
      /\ first + Ordinal(k) = index[n] =>
           /\ at[n] \in {"flush", "final"}
           /\ \A p \in DOMAIN pending[n] : pending[n][p] # e[3].name
Stamped(z, e) == e[3].name # "tagger" => \E k \in DOMAIN Stream : Stamp(z, e, k)

UniqueInv == /\ \A z \in ZipFile : \A p \in DOMAIN files[z] : Stamped(z, files[z][p])
             /\ \A n \in Node : Once(pending[n])
             /\ (templated => Apart) => UniqueNames

\* A file after a write: what it had, or nothing, and one entry more.
LEMMA Rewritten ==
  ASSUME SinkTyped, EveryEventNamed, NEW i, NEW e \in Nat \X Nat, NEW obj, Write(i, e, obj)
  PROVE  /\ templated' = templated /\ DOMAIN files' = ZipFile
         /\ \A y \in ZipFile : \A p \in DOMAIN files'[y] :
              \/ p \in DOMAIN files[y] /\ files'[y][p] = files[y][p]
              \/ /\ templated => y = e[2]
                 /\ p = Len(files'[y])
                 /\ files'[y][p] = <<IF templated THEN 0 ELSE i, e, obj>>
<1> DEFINE z == Target(e[2])
           set == SetIndex(IF templated THEN 0 ELSE i)
           now == Indexed(set[1], set[2], obj.name)
           old == IF Reopens(e[2]) THEN <<>> ELSE files[z]
           one == <<now[1], e, obj>>
<1>1. /\ files' = [files EXCEPT ![z] = Append(old, one)] /\ templated' = templated
      /\ z # NoZip
  BY DEF Write
<1>2. z \in ZipFile /\ (templated => z = e[2])
  BY <1>1 DEF Target, SinkTyped, EveryEventNamed
<1>3. one = <<IF templated THEN 0 ELSE i, e, obj>>
  BY DEF SetIndex, Indexed
<1>4. old \in Seq(Written) /\ (old = <<>> \/ old = files[z])
  BY <1>2 DEF SinkTyped
<1> HIDE DEF z, old, one
<1>5. ASSUME NEW y \in ZipFile, NEW p \in DOMAIN files'[y]
      PROVE  \/ p \in DOMAIN files[y] /\ files'[y][p] = files[y][p]
             \/ /\ templated => y = e[2]
                /\ p = Len(files'[y])
                /\ files'[y][p] = one
  <2>1. CASE y # z
    BY <1>1, <1>2, <1>5, <2>1 DEF SinkTyped
  <2>2. CASE y = z
    <3>1. files'[y] = Append(old, one)
      BY <1>1, <1>2, <2>2 DEF SinkTyped
    <3>2. /\ p \in 1 .. Len(old) + 1 /\ Len(old) \in Nat /\ DOMAIN old = 1 .. Len(old)
          /\ Len(files'[y]) = Len(old) + 1
      BY <1>4, <1>5, <3>1
    <3>3. CASE p = Len(old) + 1
      BY <1>2, <1>4, <2>2, <3>1, <3>2, <3>3
    <3>4. CASE p \in DOMAIN old
      BY <1>4, <2>2, <3>1, <3>4
    <3> QED BY <3>2, <3>3, <3>4
  <2> QED BY <2>1, <2>2
<1> QED BY <1>1, <1>3, <1>5 DEF SinkTyped

\* An entry stays where it is, as its node goes on.
LEMMA StampStays ==
  ASSUME NEW z, NEW e, NEW k \in DOMAIN Stream, Stamp(z, e, k),
         conf' = conf, templated' = templated, NodeTypeOK,
         \/ index'[NodeOf(e)] = index[NodeOf(e)] + 1
         \/ /\ index'[NodeOf(e)] = index[NodeOf(e)]
            /\ \/ at[NodeOf(e)] \notin {"flush", "final"}
               \/ /\ at'[NodeOf(e)] = at[NodeOf(e)]
                  /\ \A q \in DOMAIN pending'[NodeOf(e)] : \E p \in DOMAIN pending[NodeOf(e)] :
                       pending'[NodeOf(e)][q] = pending[NodeOf(e)][p],
         NodeOf(e) \in Node
  PROVE  Stamp(z, e, k)'
<1>1. Initial(NodeOf(e))' = Initial(NodeOf(e))
  BY DEF Initial, NodeOf
<1>2. index[NodeOf(e)] \in Nat /\ Ordinal(k) \in Int
  BY OrdinalNext, StreamIs DEF NodeTypeOK
<1>3. NodeOf(e)' = NodeOf(e)
  BY DEF NodeOf
<1> QED BY <1>1, <1>2, <1>3 DEF Stamp

LEMMA StampedStays ==
  ASSUME NEW z, NEW e \in Written, Stamped(z, e),
         conf' = conf, templated' = templated, NodeTypeOK,
         \A n \in Node :
           \/ index'[n] = index[n] + 1
           \/ /\ index'[n] = index[n]
              /\ \/ at[n] \notin {"flush", "final"}
                 \/ /\ at'[n] = at[n]
                    /\ \A q \in DOMAIN pending'[n] : \E p \in DOMAIN pending[n] :
                         pending'[n][q] = pending[n][p]
  PROVE  Stamped(z, e)'
<1>1. NodeOf(e) \in Node
  BY DEF Written, NodeOf
<1>2. SUFFICES ASSUME e[3].name # "tagger" PROVE \E k \in DOMAIN Stream : Stamp(z, e, k)'
  BY DEF Stamped
<1>3. PICK k \in DOMAIN Stream : Stamp(z, e, k)
  BY <1>2 DEF Stamped
<1>4. Stamp(z, e, k)'
  BY <1>1, <1>3, StampStays
<1> QED BY <1>4

\* The nodes go on, and nothing is written.
LEMMA UniqueStays ==
  ASSUME UniqueInv, SinkTyped, NodeTypeOK, conf' = conf, templated' = templated, files' = files,
         \A n \in Node :
           \/ index'[n] = index[n] + 1
           \/ /\ index'[n] = index[n]
              /\ at[n] \notin {"flush", "final"} \/ (at'[n] = at[n] /\ pending'[n] = pending[n]),
         \A n \in Node : Once(pending'[n])
  PROVE  UniqueInv'
<1>1. ASSUME NEW z \in ZipFile, NEW p \in DOMAIN files[z]
      PROVE  Stamped(z, files[z][p])'
  <2>1. files[z][p] \in Written /\ Stamped(z, files[z][p])
    BY DEF SinkTyped, UniqueInv
  <2>2. ASSUME NEW e \in Written, Stamped(z, e) PROVE Stamped(z, e)'
    BY <2>2, StampedStays
  <2>3. ASSUME NEW e \in Written, Stamped(z, e), e = files[z][p] PROVE Stamped(z, files[z][p])'
    <3>1. e = files'[z][p]
      BY <2>3
    <3> QED BY <2>2, <2>3, <3>1
  <2> QED BY <2>1, <2>3
<1>2. (\A z \in ZipFile : \A p \in DOMAIN files[z] : Stamped(z, files[z][p]))'
  BY <1>1
<1>3. ((templated => Apart) => UniqueNames)'
  BY DEF UniqueInv, UniqueNames, Apart, TrueRSE, Ordinal, Begins
<1> QED BY <1>2, <1>3 DEF UniqueInv

\* One object is written by a node that is flushing.
LEMMA UniqueWrite ==
  ASSUME UniqueInv, PlaceInv, JobInv, EveryEventNamed, NEW n \in Node, FlushWrite(n), conf' = conf
  PROVE  UniqueInv'
<1> DEFINE x == Head(pending[n])
           obj == [node |-> n, name |-> x, items |-> buffer[n][x]]
           one == <<IF templated THEN 0 ELSE index[n], rse[n], obj>>
<1>1. /\ Typed /\ SinkTyped /\ NodeTypeOK /\ MainTyped /\ Listed /\ Place(n)
      /\ at[n] \in {"flush", "final"} /\ pending[n] # <<>>
      /\ last[n] >= 0 /\ n \in shared
  BY DEF JobInv, Typed, PlaceInv, FlushWrite, Working
<1>2. PICK k \in DOMAIN Stream : Within(n, k)
  BY <1>1, WithinSome
<1>3. /\ pending[n] \in Seq(Name) /\ x \in Name /\ x # "tagger" /\ rse[n] \in Nat \X Nat
      /\ index[n] \in Nat /\ Initial(n) \in Nat /\ Ordinal(k) \in Int
      /\ index[n] = Initial(n) + Ordinal(k) /\ rse[n] = TrueRSE(n, k) /\ Stream[k] # EOS
  <2>1. pending[n] \in Seq(Name) /\ rse[n] \in Nat \X Nat /\ index[n] \in Nat
    BY <1>1 DEF NodeTypeOK
  <2>2. x \in Name /\ x # "tagger"
    BY <1>1, <2>1 DEF Name
  <2>3. Initial(n) \in Nat
    BY <1>1, InitialIs
  <2>4. Ordinal(k) \in Int
    BY StreamIs, OrdinalNext
  <2> QED BY <1>2, <2>1, <2>2, <2>3, <2>4 DEF Within
<1>4. /\ Write(index[n], rse[n], obj) /\ UNCHANGED <<at, index>>
      /\ pending' = [pending EXCEPT ![n] = Tail(@)]
  BY DEF FlushWrite
<1>5. /\ \A q \in DOMAIN pending'[n] : \E p \in DOMAIN pending[n] : pending'[n][q] = pending[n][p]
      /\ \A q \in DOMAIN pending'[n] : pending'[n][q] # x
      /\ Once(pending'[n])
  <2>1. pending'[n] = Tail(pending[n]) /\ Once(pending[n])
    BY <1>1, <1>4 DEF NodeTypeOK, UniqueInv
  <2>2. \A q \in DOMAIN Tail(pending[n]) :
          q + 1 \in DOMAIN pending[n] /\ Tail(pending[n])[q] = pending[n][q + 1] /\ q \in Nat \ {0}
    <3> DEFINE s == pending[n]
    <3>1. s \in Seq(Name) /\ s # <<>>
      BY <1>1, <1>3
    <3> HIDE DEF s
    <3>2. \A q \in DOMAIN Tail(s) : q + 1 \in DOMAIN s /\ Tail(s)[q] = s[q + 1] /\ q \in Nat \ {0}
      BY <3>1
    <3> QED BY <3>2 DEF s
  <2>3. 1 \in DOMAIN pending[n] /\ pending[n][1] = x
    BY <1>1, <1>3
  <2> HIDE DEF x
  <2>4. \A q \in DOMAIN Tail(pending[n]) : Tail(pending[n])[q] # x
    BY <2>1, <2>2, <2>3 DEF Once
  <2>5. Once(Tail(pending[n]))
    BY <2>1, <2>2 DEF Once
  <2> QED BY <2>1, <2>2, <2>4, <2>5
<1>6. /\ templated' = templated /\ DOMAIN files' = ZipFile
      /\ \A y \in ZipFile : \A p \in DOMAIN files'[y] :
           \/ p \in DOMAIN files[y] /\ files'[y][p] = files[y][p]
           \/ /\ templated => y = rse[n][2]
              /\ p = Len(files'[y])
              /\ files'[y][p] = one
  <2>1. SinkTyped /\ rse[n] \in Nat \X Nat /\ Write(index[n], rse[n], obj)
    BY <1>1, <1>3, <1>4
  <2> HIDE DEF obj
  <2> QED BY <2>1, Rewritten
<1>7. /\ obj.node = n /\ obj.name = x
      /\ one[1] = (IF templated THEN 0 ELSE index[n]) /\ one[3].node = n /\ one[3].name = x
  OBVIOUS
<1> HIDE DEF x, obj, one
<1>8. \A m \in Node :
        /\ index'[m] = index[m] /\ at'[m] = at[m]
        /\ \A q \in DOMAIN pending'[m] : \E p \in DOMAIN pending[m] : pending'[m][q] = pending[m][p]
        /\ Once(pending'[m])
  <2>1. \A m \in Node : m # n => pending'[m] = pending[m]
    BY <1>1, <1>4 DEF NodeTypeOK
  <2> QED BY <1>4, <1>5, <2>1 DEF UniqueInv
\* The entries
<1>9. ASSUME NEW y \in ZipFile, NEW p \in DOMAIN files'[y]
      PROVE  Stamped(y, files[y][p])'
  <2>1. CASE p \in DOMAIN files[y] /\ files'[y][p] = files[y][p]
    <3>1. files[y][p] \in Written /\ Stamped(y, files[y][p])
      BY <1>1, <2>1 DEF SinkTyped, UniqueInv
    <3>2. ASSUME NEW e \in Written, Stamped(y, e) PROVE Stamped(y, e)'
      BY <1>1, <1>6, <1>8, <3>2, StampedStays
    <3>3. ASSUME NEW e \in Written, Stamped(y, e), e = files[y][p] PROVE Stamped(y, files[y][p])'
      <4>1. e = files'[y][p]
        BY <2>1, <3>3
      <4> QED BY <3>2, <3>3, <4>1
    <3> QED BY <3>1, <3>3
  <2>2. CASE (templated => y = rse[n][2]) /\ files'[y][p] = one
    <3>1. ASSUME NEW e, e = one PROVE Stamp(y, e, k)'
      <4>1. Initial(n)' = Initial(n)
        BY DEF Initial
      <4>2. NodeOf(e) = n /\ NodeOf(e)' = n /\ e[3].name = x /\ e[1] = IF templated THEN 0 ELSE index[n]
        BY <1>7, <3>1 DEF NodeOf
      <4> QED BY <1>1, <1>3, <1>4, <1>5, <1>6, <2>2, <4>1, <4>2 DEF Stamp
    <3>2. ASSUME NEW e, e = one PROVE Stamped(y, files[y][p])'
      <4>1. e = files'[y][p]
        BY <2>2, <3>2
      <4>2. Stamp(y, e, k)'
        BY <3>1, <3>2
      <4> QED BY <4>1, <4>2 DEF Stamped
    <3> QED BY <3>2
  <2> QED BY <1>6, <2>1, <2>2
\* do not meet.
<1>10. ASSUME NEW y \in ZipFile, templated => Apart, NEW p \in DOMAIN files[y],
              templated => y = rse[n][2],
              files[y][p][1] = one[1], files[y][p][3].node = n, files[y][p][3].name = x
       PROVE  FALSE
  <2>1. NodeOf(files[y][p]) = n /\ Stamped(y, files[y][p])
    BY <1>10 DEF NodeOf, UniqueInv
  <2>2. PICK j \in DOMAIN Stream : Stamp(y, files[y][p], j)
    BY <1>3, <1>10, <2>1 DEF Stamped
  <2>3. Ordinal(j) \in Int /\ Stream[j] # EOS
    BY <2>2, StreamIs, OrdinalNext DEF Stamp
  <2>4. Initial(n) + Ordinal(j) # index[n]
    <3>1. 1 \in DOMAIN pending[n] /\ pending[n][1] = x
      BY <1>1, <1>3 DEF x
    <3> QED BY <1>10, <2>1, <2>2, <3>1 DEF Stamp
  <2>5. CASE templated
    <3>1. TrueRSE(n, j)[2] = TrueRSE(n, k)[2]
      BY <1>3, <1>10, <2>1, <2>2, <2>5 DEF Stamp
    <3>2. Ordinal(j) = Ordinal(k)
      BY <1>3, <1>10, <2>3, <2>5, <3>1 DEF Apart
    <3> QED BY <1>3, <2>4, <3>2
  <2>6. CASE ~templated
    BY <1>7, <1>10, <2>1, <2>2, <2>4, <2>6 DEF Stamp
  <2> QED BY <2>5, <2>6
<1>11. ASSUME templated' => Apart' PROVE UniqueNames'
  <2>1. templated => Apart
    BY <1>6, <1>11 DEF Apart, TrueRSE, Ordinal, Begins
  <2> SUFFICES ASSUME NEW y \in ZipFile, NEW i \in DOMAIN files'[y], NEW j \in DOMAIN files'[y],
                      files'[y][i][1] = files'[y][j][1],
                      files'[y][i][3].node = files'[y][j][3].node,
                      files'[y][i][3].name = files'[y][j][3].name,
                      files'[y][i][3].name # "tagger"
               PROVE  i = j
    BY DEF UniqueNames
  <2>2. UniqueNames
    BY <2>1 DEF UniqueInv
  <2>3. CASE i \in DOMAIN files[y] /\ files'[y][i] = files[y][i]
    <3>1. CASE j \in DOMAIN files[y] /\ files'[y][j] = files[y][j]
      BY <2>2, <2>3, <3>1 DEF UniqueNames
    <3>2. CASE (templated => y = rse[n][2]) /\ files'[y][j] = one
      BY <1>7, <1>10, <2>1, <2>3, <3>2
    <3> QED BY <1>6, <3>1, <3>2
  <2>4. CASE (templated => y = rse[n][2]) /\ i = Len(files'[y]) /\ files'[y][i] = one
    <3>1. CASE j \in DOMAIN files[y] /\ files'[y][j] = files[y][j]
      BY <1>7, <1>10, <2>1, <2>4, <3>1
    <3>2. CASE j = Len(files'[y])
      BY <2>4, <3>2
    <3> QED BY <1>6, <3>1, <3>2
  <2> QED BY <1>6, <2>3, <2>4
<1>12. (\A y \in ZipFile : \A p \in DOMAIN files[y] : Stamped(y, files[y][p]))'
  BY <1>9
<1>13. ((templated => Apart) => UniqueNames)'
  BY <1>11
<1> QED BY <1>8, <1>12, <1>13 DEF UniqueInv

\* A tagger's object is written, which has no name of its own.
LEMMA UniqueTag ==
  ASSUME UniqueInv, PlaceInv, JobInv, EveryEventNamed, NEW n \in Node, Visit(n), conf' = conf
  PROVE  UniqueInv'
<1> DEFINE obj == [node |-> n, name |-> "tagger", items |-> {next[n]}]
           one == <<IF templated THEN 0 ELSE index[n], rse[n], obj>>
<1>1. SinkTyped /\ NodeTypeOK
  BY DEF JobInv, Typed
<1>2. Write(index[n], rse[n], obj) /\ UNCHANGED <<at, pending, index>>
  BY DEF Visit
<1>3. rse[n] \in Nat \X Nat /\ obj.name = "tagger"
  BY <1>1 DEF NodeTypeOK
<1> HIDE DEF obj
<1>4. /\ templated' = templated /\ DOMAIN files' = ZipFile
      /\ \A y \in ZipFile : \A p \in DOMAIN files'[y] :
           \/ p \in DOMAIN files[y] /\ files'[y][p] = files[y][p]
           \/ files'[y][p] = one
  <2>1. \A y \in ZipFile : \A p \in DOMAIN files'[y] :
          \/ p \in DOMAIN files[y] /\ files'[y][p] = files[y][p]
          \/ /\ templated => y = rse[n][2]
             /\ p = Len(files'[y])
             /\ files'[y][p] = <<IF templated THEN 0 ELSE index[n], rse[n], obj>>
    BY <1>1, <1>2, <1>3, Rewritten
  <2>2. templated' = templated /\ DOMAIN files' = ZipFile
    BY <1>1, <1>2, <1>3, Rewritten
  <2> QED BY <2>1, <2>2
<1>5. one[3].name = "tagger"
  BY <1>3
<1> HIDE DEF one
<1>6. \A m \in Node : /\ index'[m] = index[m] /\ pending'[m] = pending[m] /\ at'[m] = at[m]
  BY <1>1, <1>2 DEF NodeTypeOK
<1>7. ASSUME NEW y \in ZipFile, NEW p \in DOMAIN files'[y]
      PROVE  Stamped(y, files[y][p])'
  <2>1. CASE p \in DOMAIN files[y] /\ files'[y][p] = files[y][p]
    <3>1. files[y][p] \in Written /\ Stamped(y, files[y][p])
      BY <1>1, <2>1 DEF SinkTyped, UniqueInv
    <3>2. ASSUME NEW e \in Written, Stamped(y, e) PROVE Stamped(y, e)'
      BY <1>1, <1>4, <1>6, <3>2, StampedStays
    <3>3. ASSUME NEW e \in Written, Stamped(y, e), e = files[y][p] PROVE Stamped(y, files[y][p])'
      <4>1. e = files'[y][p]
        BY <2>1, <3>3
      <4> QED BY <3>2, <3>3, <4>1
    <3> QED BY <3>1, <3>3
  <2>2. CASE files'[y][p] = one
    BY <1>5, <2>2 DEF Stamped
  <2> QED BY <1>4, <2>1, <2>2
<1>8. ASSUME templated' => Apart' PROVE UniqueNames'
  <2>1. templated => Apart
    BY <1>4, <1>8 DEF Apart, TrueRSE, Ordinal, Begins
  <2>2. UniqueNames
    BY <2>1 DEF UniqueInv
  <2>3. \A y \in ZipFile : \A p \in DOMAIN files'[y] :
          files'[y][p][3].name # "tagger" => p \in DOMAIN files[y] /\ files'[y][p] = files[y][p]
    BY <1>4, <1>5
  <2> QED BY <2>2, <2>3 DEF UniqueNames
<1>9. (\A y \in ZipFile : \A p \in DOMAIN files[y] : Stamped(y, files[y][p]))'
  BY <1>7
<1>10. ((templated => Apart) => UniqueNames)'
  BY <1>8
<1> QED BY <1>6, <1>9, <1>10 DEF UniqueInv

\* A node goes on and writes nothing.
LEMMA UniqueNode ==
  ASSUME UniqueInv, PlaceInv, JobInv, EveryEventNamed, NEW n \in Node, conf' = conf,
         \/ CallNode(n) \/ EndStream(n) \/ NewEvent(n) \/ Fill(n) \/ Return(n) \/ Fail(n)
         \/ FinalizeFlush(n) \/ FinalizeFlushed(n) \/ FinalizeRelease(n)
  PROVE  UniqueInv'
<1>1. SinkTyped /\ NodeTypeOK /\ Working
  BY DEF JobInv, Typed
<1>2. \A m \in Node : Once(pending[m])
  BY DEF UniqueInv
<1>3. \A ident : Once(ToFlush(n, ident))
  BY ToFlushIs
<1>4. Once(<<>>)
  BY DEF Once
<1>5. CASE CallNode(n) \/ FinalizeFlush(n)
  <2>1. /\ at[n] = "idle" /\ UNCHANGED <<index, sinkvars>>
        /\ at' = [at EXCEPT ![n] = at'[n]]
        /\ pending' = pending \/ \E ident : pending' = [pending EXCEPT ![n] = ToFlush(n, ident)]
    <3>1. CASE CallNode(n)
      BY <1>1, <3>1 DEF CallNode, CallEOS, CallNext, CallSame, Flush, StartBody, At,
                              NodeTypeOK
    <3>2. CASE FinalizeFlush(n)
      BY <1>1, <3>2 DEF FinalizeFlush, Flush, At, NodeTypeOK
    <3> QED BY <1>5, <3>1, <3>2
  <2>2. \A m \in Node : m # n => at'[m] = at[m] /\ pending'[m] = pending[m]
    BY <1>1, <2>1 DEF NodeTypeOK
  <2>3. Once(pending'[n])
    <3>1. CASE pending' = pending
      BY <1>2, <3>1
    <3>2. CASE \E ident : pending' = [pending EXCEPT ![n] = ToFlush(n, ident)]
      BY <1>1, <1>3, <3>2 DEF NodeTypeOK
    <3> QED BY <2>1, <3>1, <3>2
  <2>4. \A m \in Node : Once(pending'[m])
    BY <1>2, <2>2, <2>3
  <2>5. templated' = templated /\ files' = files /\ index' = index
    BY <2>1 DEF sinkvars
  <2>6. \A m \in Node :
          \/ index'[m] = index[m] + 1
          \/ /\ index'[m] = index[m]
             /\ at[m] \notin {"flush", "final"} \/ (at'[m] = at[m] /\ pending'[m] = pending[m])
    BY <2>1, <2>2, <2>5
  <2> QED BY <1>1, <2>4, <2>5, <2>6, UniqueStays
<1>6. CASE EndStream(n) \/ NewEvent(n) \/ FinalizeFlushed(n)
  <2>1. /\ UNCHANGED <<pending, templated, files>> /\ index' = [index EXCEPT ![n] = @ + 1]
        /\ \E s : at' = [at EXCEPT ![n] = s]
    BY <1>6 DEF EndStream, NewEvent, FinalizeFlushed, Flushed, Advance, StartBody, At, sinkvars
  <2>2. \A m \in Node :
          \/ index'[m] = index[m] + 1
          \/ /\ index'[m] = index[m]
             /\ at[m] \notin {"flush", "final"} \/ (at'[m] = at[m] /\ pending'[m] = pending[m])
    BY <1>1, <2>1 DEF NodeTypeOK
  <2> QED BY <1>1, <1>2, <2>1, <2>2, UniqueStays
<1>7. CASE Fill(n) \/ Return(n) \/ FinalizeRelease(n)
  <2>1. /\ UNCHANGED <<pending, index, templated, files>>
        /\ at[n] \in {"body", "release"} /\ (at' = at \/ \E s : at' = [at EXCEPT ![n] = s])
    BY <1>7 DEF Fill, Return, FinalizeRelease, Release, At, sinkvars
  <2>2. \A m \in Node :
          \/ index'[m] = index[m] + 1
          \/ /\ index'[m] = index[m]
             /\ at[m] \notin {"flush", "final"} \/ (at'[m] = at[m] /\ pending'[m] = pending[m])
    BY <1>1, <2>1 DEF NodeTypeOK
  <2> QED BY <1>1, <1>2, <2>1, <2>2, UniqueStays
<1>8. CASE Fail(n)
  <2>1. FileIsThere
    BY FileThere
  <2>2. /\ at[n] = "body" /\ UNCHANGED <<index, templated, files>>
        /\ at' = [at EXCEPT ![n] = "idle"] /\ pending' = [pending EXCEPT ![n] = <<>>]
    BY <1>8, <2>1 DEF Fail, MayFail, FileIsThere, At, sinkvars
  <2>3. \A m \in Node :
          /\ Once(pending'[m])
          /\ \/ index'[m] = index[m] + 1
             \/ /\ index'[m] = index[m]
                /\ at[m] \notin {"flush", "final"} \/ (at'[m] = at[m] /\ pending'[m] = pending[m])
    BY <1>1, <1>2, <1>4, <2>2 DEF NodeTypeOK
  <2> QED BY <1>1, <2>2, <2>3, UniqueStays
<1> QED BY <1>5, <1>6, <1>7, <1>8

LEMMA UniqueStep ==
  ASSUME UniqueInv, PlaceInv, PlaceInv', JobInv, EveryEventNamed, [JobNext]_jobvars
  PROVE  UniqueInv'
<1>1. SinkTyped /\ NodeTypeOK /\ Working /\ \A m \in Node : Once(pending[m])
  BY DEF JobInv, Typed, UniqueInv
<1>2. CASE Load \/ Extend \/ Loaded \/ Construct \/ NextStage \/ SinkMissing \/ Fails \/ Configure \/ ConfigureFails
  <2>1. pending' = pending /\ \A z \in ZipFile : files'[z] = <<>>
    <3>1. Early /\ \A z \in ZipFile : files[z] = <<>>
      BY <1>2 DEF Load, Extend, Loaded, Construct, NextStage, SinkMissing, Fails, Configure,
                  ConfigureFails, Early, PlaceInv, Filed
    <3>2. CASE Configure \/ ConfigureFails
      BY <1>1, <3>1, <3>2 DEF Configure, ConfigureFails, SinkConfigure, NodeConfigure, Acquire,
                              nodevars, SinkTyped
    <3>3. CASE ~(Configure \/ ConfigureFails)
      BY <1>2, <3>1, <3>3 DEF Load, Extend, Loaded, Construct, NextStage, SinkMissing, Fails,
                              nodevars, sinkvars
    <3> QED BY <3>2, <3>3
  <2>2. \A z \in ZipFile : DOMAIN files'[z] = {}
    BY <2>1
  <2> QED BY <1>1, <2>1, <2>2 DEF UniqueInv, UniqueNames
<1>3. CASE RunEnds \/ Finalized \/ (Finalize /\ ~Doomed(Comp)) \/ Gone \/ UNCHANGED jobvars
  <2>1. /\ UNCHANGED nodevars /\ UNCHANGED sinkvars /\ conf' = conf
    <3>1. CASE RunEnds \/ Finalized \/ (Finalize /\ ~Doomed(Comp))
      BY <3>1 DEF RunEnds, Finalized, Finalize
    <3>2. CASE Gone \/ UNCHANGED jobvars
      BY <3>2 DEF Gone, jobvars, mainvars
    <3> QED BY <1>3, <3>1, <3>2
  <2>2. UNCHANGED <<at, pending, index, templated, files>>
    BY <2>1 DEF nodevars, sinkvars
  <2> QED BY <1>1, <2>1, <2>2, UniqueStays
<1>4. CASE Finalize /\ Doomed(Comp)
  <2>1. Comp \in Node
    BY <1>4 DEF Finalize, Doomed, Comp, JobInv, Typed, MainTyped
  <2>2. /\ conf' = conf
        /\ \/ FinalizeFlush(Comp) \/ FlushWrite(Comp)
           \/ FinalizeFlushed(Comp) \/ FinalizeRelease(Comp)
    BY <1>4 DEF Finalize
  <2>3. \A n \in Node : FlushWrite(n) => UniqueInv'
    BY <2>2, UniqueWrite
  <2>4. \A n \in Node : FinalizeFlush(n) \/ FinalizeFlushed(n) \/ FinalizeRelease(n) => UniqueInv'
    BY <2>2, UniqueNode
  <2> QED BY <2>1, <2>2, <2>3, <2>4
<1>5. ASSUME NEW n \in Node, Run(n) \/ RunFails(n) PROVE UniqueInv'
  <2>1. conf' = conf /\ (CallNode(n) \/ GoOn(n) \/ Fail(n))
    BY <1>5 DEF Run, RunFails, mainvars
  <2>2. CASE FlushWrite(n)
    BY <2>1, <2>2, UniqueWrite
  <2>3. CASE Visit(n)
    BY <2>1, <2>3, UniqueTag
  <2>4. CASE ~FlushWrite(n) /\ ~Visit(n)
    BY <2>1, <2>4, UniqueNode DEF GoOn
  <2> QED BY <2>2, <2>3, <2>4
<1> QED BY <1>2, <1>3, <1>4, <1>5 DEF JobNext, Startup, Shutdown

LEMMA UniqueKept == ASSUME Orderly, EveryEventNamed PROVE JobSpec => []UniqueInv
<1>1. JobInit => UniqueInv
  <2> SUFFICES ASSUME JobInit PROVE UniqueInv
    OBVIOUS
  <2>1. /\ \A z \in ZipFile : files[z] = <<>> /\ DOMAIN files[z] = {}
        /\ \A n \in Node : pending[n] = <<>> /\ DOMAIN pending[n] = {}
    BY DEF JobInit, NodeInit, SinkInit
  <2> QED BY <2>1 DEF UniqueInv, UniqueNames, Once
<1>2. UniqueInv /\ PlaceInv /\ PlaceInv' /\ JobInv /\ [JobNext]_jobvars => UniqueInv'
  BY UniqueStep
<1> QED BY <1>1, <1>2, PlaceKept, JobKept, PTL DEF JobSpec

\* No object of a node stands twice under one index, where all events share a file,
THEOREM NothingTwiceInOneFile ==
  ASSUME Orderly, EveryEventNamed
  PROVE  JobSpec => [](~templated => UniqueNames)
<1>1. UniqueInv => (~templated => UniqueNames)
  BY DEF UniqueInv
<1> QED BY <1>1, UniqueKept, PTL

\* and also where each event has a file of its own, if no two events of a node have
\* one number: although the sink writes all of these files from its first index on.
THEOREM NothingTwice ==
  ASSUME Orderly, EveryEventNamed, Apart
  PROVE  JobSpec => []UniqueNames
<1>1. UniqueInv => UniqueNames
  BY DEF UniqueInv
<1> QED BY <1>1, UniqueKept, PTL

-----------------------------------------------------------------------------
(* All that was filled is written.                                         *)

\* The last position whose event n knows.
Seen(n) == IF at[n] = "body" THEN next[n] ELSE next[n] - 1

\* What the input at i fills, as far as a body of n is concerned.
Filled(n, i) == Stream[i].fills \cap ToSet(Body[n])

\* What calls have filled is kept or written, or replaced within its event.
Kept(n) ==
  \A i \in 1 .. next[n] - 1 :
    Stream[i] # EOS =>
      \A x \in Filled(n, i) :
        i \in buffer[n][x] \/ InFiles(n, x, i) \/ Superseded(n, x, i)

\* What the call that goes on fills is kept, or has yet to be filled.
Done(n) ==
  at[n] = "body" =>
    \A x \in Filled(n, next[n]) : x \in ToSet(todo[n]) \/ next[n] \in buffer[n][x]

\* Positions between which no event begins have the same numbers.
SameNumbers(n) ==
  \A i, k \in DOMAIN Stream :
    i <= k /\ k <= Seen(n) /\ Stream[k] # EOS /\ (\A j \in i + 1 .. k : ~Begins(j)) =>
      TrueRSE(n, i) = TrueRSE(n, k)

\* An event that another has followed has its layer.
Layered(n) ==
  n \in Emits =>
    \A i, j \in DOMAIN Stream : i < j /\ j <= Seen(n) /\ Begins(j) => LayerAt(n, i)

\* An event that another is about to follow has it or is about to have it.
Owed(n) ==
  n \in Emits /\ at[n] = "flush" /\ arg[n] >= 0 =>
    (\E p \in DOMAIN pending[n] : pending[n][p] = "layer") \/ LayerAt(n, next[n] - 1)

Full(n) == Kept(n) /\ Done(n) /\ SameNumbers(n) /\ Layered(n) /\ Owed(n)

\* A node that is finalized keeps nothing.
Emptied ==
  /\ \A n \in Node : at[n] = "release" => last[n] < 0
  /\ stage = "finalize" => \A n \in Node : Passed(n) => last[n] < 0
  /\ stage = "gone" => \A n \in Node : last[n] < 0

CompleteInv ==
  /\ Emptied
  /\ ~templated => \A n \in Node : Full(n)

LEMMA EntryOf ==
  \A e : e \in AllEntries <=> \E z \in ZipFile : \E p \in DOMAIN files[z] : e = files[z][p]
BY DEF AllEntries, Entries, ToSet

\* A write adds an entry, where there is one file.
LEMMA WriteAdds ==
  ASSUME SinkTyped, EveryEventNamed, ~templated, NEW i, NEW e \in Nat \X Nat, NEW obj, Write(i, e, obj)
  PROVE  AllEntries \subseteq AllEntries' /\ <<i, e, obj>> \in AllEntries'
<1> DEFINE set == SetIndex(i)
           now == Indexed(set[1], set[2], obj.name)
           one == <<now[1], e, obj>>
<1>1. /\ out \in ZipFile
      /\ files' = [files EXCEPT ![out] = Append(files[out], one)]
  BY DEF Write, Target, Reopens, SinkTyped
<1>2. one = <<i, e, obj>>
  BY DEF SetIndex, Indexed
<1> HIDE DEF one
<1>3. /\ files'[out] = Append(files[out], one) /\ files[out] \in Seq(Written)
      /\ \A z \in ZipFile : z # out => files'[z] = files[z]
  BY <1>1 DEF SinkTyped
<1>4. Len(files[out]) + 1 \in DOMAIN files'[out] /\ files'[out][Len(files[out]) + 1] = one
  BY <1>3
<1>5. one \in AllEntries'
  BY <1>1, <1>4 DEF AllEntries, Entries, ToSet
<1>6. ASSUME NEW z \in ZipFile, NEW p \in DOMAIN files[z]
      PROVE  p \in DOMAIN files'[z] /\ files'[z][p] = files[z][p]
  <2>1. CASE z = out
    <3>1. \A q \in DOMAIN files[out] :
            q \in DOMAIN Append(files[out], one) /\ Append(files[out], one)[q] = files[out][q]
      BY <1>3
    <3> QED BY <1>3, <1>6, <2>1, <3>1
  <2>2. CASE z # out
    BY <1>3, <1>6, <2>2
  <2> QED BY <2>1, <2>2
<1>7. ASSUME NEW a \in AllEntries PROVE a \in AllEntries'
  <2>1. PICK z \in ZipFile : \E p \in DOMAIN files[z] : a = files[z][p]
    BY EntryOf
  <2>2. PICK p \in DOMAIN files[z] : a = files[z][p]
    BY <2>1
  <2>3. p \in DOMAIN files'[z] /\ a = files'[z][p]
    BY <1>6, <2>2
  <2> QED BY <2>3 DEF AllEntries, Entries, ToSet
<1> QED BY <1>2, <1>5, <1>7

\* What is in the files is there to stay.
LEMMA EntriesStay ==
  ASSUME AllEntries \subseteq AllEntries'
  PROVE  \A n : /\ \A x, i : InFiles(n, x, i) => InFiles(n, x, i)'
                /\ \A k : LayerAt(n, k) => LayerAt(n, k)'
BY DEF InFiles, LayerAt, NodeOf, TrueRSE, Ordinal, Begins

LEMMA FilledNamed ==
  ASSUME NEW n, NEW i \in DOMAIN Stream, Stream[i] # EOS PROVE Filled(n, i) \subseteq Name
BY StreamAssumption DEF Filled

\* A node that goes on in the stream.
LEMMA SupersededStays ==
  ASSUME NEW n, next[n] \in Nat, next'[n] \in {next[n], next[n] + 1}, NEW x, NEW i \in Nat,
         Superseded(n, x, i)
  PROVE  Superseded(n, x, i)'
<1>1. PICK j \in i + 1 .. next[n] :
        /\ j \in DOMAIN Stream /\ Stream[j] # EOS
        /\ Ordinal(j) = Ordinal(i) /\ Replaces(n, x, Stream[j])
  BY DEF Superseded
<1>2. j \in i + 1 .. next'[n]
  BY <1>1
<1> QED BY <1>1, <1>2 DEF Superseded, Ordinal, Begins, Replaces

LEMMA KeptStays ==
  ASSUME NEW n \in Node, Kept(n), NodeTypeOK, AllEntries \subseteq AllEntries',
         next'[n] \in {next[n], next[n] + 1},
         \A x \in Name : \A i \in buffer[n][x] : i < next[n] =>
           i \in buffer'[n][x] \/ InFiles(n, x, i)' \/ Superseded(n, x, i)',
         next'[n] = next[n] + 1 =>
           Stream[next[n]] = EOS \/ \A x \in Filled(n, next[n]) : next[n] \in buffer'[n][x]
  PROVE  Kept(n)'
<1>1. next[n] \in Nat /\ \A i \in 1 .. next[n] - 1 : i \in DOMAIN Stream /\ i \in Nat /\ i < next[n]
  BY StreamIs DEF NodeTypeOK
<1>2. \A x, i : InFiles(n, x, i) => InFiles(n, x, i)'
  BY EntriesStay
<1>3. ASSUME NEW i \in 1 .. next'[n] - 1, Stream[i] # EOS, NEW x \in Filled(n, i)
      PROVE  i \in buffer'[n][x] \/ InFiles(n, x, i)' \/ Superseded(n, x, i)'
  <2>1. CASE i \in 1 .. next[n] - 1
    <3>1. i \in DOMAIN Stream /\ i \in Nat /\ i < next[n] /\ x \in Name
      BY <1>1, <1>3, <2>1, FilledNamed
    <3>2. i \in buffer[n][x] \/ InFiles(n, x, i) \/ Superseded(n, x, i)
      BY <1>3, <2>1 DEF Kept
    <3>3. Superseded(n, x, i) => Superseded(n, x, i)'
      BY <1>1, <3>1, SupersededStays
    <3> QED BY <1>2, <3>1, <3>2, <3>3
  <2>2. CASE i \notin 1 .. next[n] - 1
    <3>1. next'[n] = next[n] + 1 /\ i = next[n]
      BY <1>1, <1>3, <2>2
    <3> QED BY <1>3, <3>1
  <2> QED BY <2>1, <2>2
<1> QED BY <1>3 DEF Kept, Filled

LEMMA SameStays ==
  ASSUME NEW n \in Node, SameNumbers(n), Seen(n) \in Nat, Seen(n)' \in Nat,
         \/ Seen(n)' <= Seen(n)
         \/ /\ Seen(n)' = Seen(n) + 1
            /\ \/ Stream[Seen(n) + 1] = EOS \/ Begins(Seen(n) + 1)
               \/ /\ Seen(n) \in DOMAIN Stream /\ Stream[Seen(n)] # EOS
                  /\ Together(Seen(n) + 1, Seen(n))
  PROVE  SameNumbers(n)'
<1> DEFINE s == Seen(n)
           t == Seen(n)'
<1>1. \A i, k \in DOMAIN Stream :
        i <= k /\ k <= t /\ Stream[k] # EOS /\ (\A j \in i + 1 .. k : ~Begins(j)) =>
          TrueRSE(n, i) = TrueRSE(n, k)
  <2> SUFFICES ASSUME NEW i \in DOMAIN Stream, NEW k \in DOMAIN Stream, i <= k, k <= t,
                      Stream[k] # EOS, \A j \in i + 1 .. k : ~Begins(j), i # k
               PROVE  TrueRSE(n, i) = TrueRSE(n, k)
    OBVIOUS
  <2>1. i \in Nat /\ k \in Nat /\ i < k /\ s \in Nat /\ t \in Nat
    BY StreamIs
  <2>2. CASE k <= s
    BY <2>2 DEF SameNumbers
  <2>3. CASE k = s + 1
    <3>1. ~Begins(k)
      BY <2>1
    <3>2. Together(k, s) /\ s \in DOMAIN Stream /\ Stream[s] # EOS /\ i <= s
      BY <2>1, <2>3, <3>1
    <3>3. TrueRSE(n, i) = TrueRSE(n, s)
      BY <2>1, <2>3, <3>2 DEF SameNumbers
    <3> QED BY <3>2, <3>3 DEF Together
  <2> QED BY <2>1, <2>2, <2>3
<1> QED BY <1>1 DEF SameNumbers, TrueRSE, Ordinal, Begins

LEMMA LayeredStays ==
  ASSUME NEW n \in Node, SameNumbers(n), Layered(n), AllEntries \subseteq AllEntries',
         Seen(n) \in Nat, Seen(n)' \in Nat,
         \/ Seen(n)' <= Seen(n)
         \/ /\ Seen(n)' = Seen(n) + 1
            /\ \/ Seen(n) = 0 \/ ~Begins(Seen(n) + 1)
               \/ /\ Seen(n) \in DOMAIN Stream /\ Stream[Seen(n)] # EOS
                  /\ n \in Emits => LayerAt(n, Seen(n))
  PROVE  Layered(n)'
<1> DEFINE s == Seen(n)
           t == Seen(n)'
<1>1. n \in Emits =>
        \A i, j \in DOMAIN Stream : i < j /\ j <= t /\ Begins(j) => LayerAt(n, i)
  <2> SUFFICES ASSUME n \in Emits, NEW i \in DOMAIN Stream, NEW j \in DOMAIN Stream, i < j, j <= t,
                      Begins(j)
               PROVE  LayerAt(n, i)
    OBVIOUS
  <2>1. i \in Nat \ {0} /\ j \in Nat /\ s \in Nat /\ t \in Nat
    BY StreamIs
  <2>2. CASE j <= s
    BY <2>2 DEF Layered
  <2>3. CASE j = s + 1
    <3>1. s \in DOMAIN Stream /\ Stream[s] # EOS /\ LayerAt(n, s) /\ i <= s
      BY <2>1, <2>3
    <3>2. CASE \E b \in i + 1 .. s : Begins(b)
      <4>1. PICK b \in i + 1 .. s : Begins(b)
        BY <3>2
      <4>2. b \in DOMAIN Stream /\ i < b /\ b <= s
        BY <2>1, <3>1, <4>1, StreamIs
      <4> QED BY <4>1, <4>2 DEF Layered
    <3>3. CASE \A b \in i + 1 .. s : ~Begins(b)
      <4>1. TrueRSE(n, i) = TrueRSE(n, s)
        BY <2>1, <3>1, <3>3 DEF SameNumbers
      <4> QED BY <3>1, <4>1 DEF LayerAt
    <3> QED BY <3>2, <3>3
  <2> QED BY <2>1, <2>2, <2>3
<1>2. \A k : LayerAt(n, k) => LayerAt(n, k)'
  BY EntriesStay
<1> QED BY <1>1, <1>2 DEF Layered, Begins

\* A node that others leave alone.
LEMMA LeftAlone ==
  ASSUME NEW n \in Node, Full(n), AllEntries \subseteq AllEntries',
         next'[n] = next[n], at'[n] = at[n], arg'[n] = arg[n], pending'[n] = pending[n],
         todo'[n] = todo[n], buffer'[n] = buffer[n]
  PROVE  Full(n)'
<1>1. Seen(n)' = Seen(n)
  BY DEF Seen
<1>2. /\ \A x, i : InFiles(n, x, i) => InFiles(n, x, i)'
      /\ \A k : LayerAt(n, k) => LayerAt(n, k)'
  BY EntriesStay
<1>3. Kept(n)' /\ Done(n)'
  <2>1. \A x, i : Superseded(n, x, i) => Superseded(n, x, i)'
    BY DEF Superseded, Ordinal, Begins, Replaces
  <2> QED BY <1>2, <2>1 DEF Full, Kept, Done, Filled
<1>4. SameNumbers(n)'
  BY <1>1 DEF Full, SameNumbers, TrueRSE, Ordinal, Begins
<1>5. Layered(n)'
  BY <1>1, <1>2 DEF Full, Layered, Begins
<1>6. Owed(n)'
  BY <1>2 DEF Full, Owed
<1> QED BY <1>3, <1>4, <1>5, <1>6 DEF Full

LEMMA FlushesLayer ==
  ASSUME NEW n \in Emits, NEW ident \in Nat
  PROVE  \E p \in DOMAIN ToFlush(n, ident) : ToFlush(n, ident)[p] = "layer"
<1>1. "layer" \in ToSet(ToFlush(n, ident))
  BY ToFlushIs DEF Name
<1> QED BY <1>1, InToSet

\* A call begins.
LEMMA FullCall ==
  ASSUME Orderly, NodeTypeOK, NEW n \in Node, Place(n), Full(n), CallNode(n), stage = "run"
  PROVE  Full(n)'
<1>1. /\ at[n] = "idle" /\ ~raised /\ next[n] \in 1 .. Len(Stream) /\ next[n] \in Nat
      /\ DOMAIN Stream = 1 .. Len(Stream) /\ Len(Stream) \in Nat
      /\ files' = files /\ buffer' = buffer
  BY StreamIs DEF CallNode, MayCall, CallEOS, CallNext, CallSame, NodeTypeOK, sinkvars
<1>2. AllEntries' = AllEntries
  BY <1>1 DEF AllEntries, Entries
<1>3. Seen(n) = next[n] - 1 /\ Seen(n) \in Nat /\ next[n] = Seen(n) + 1
  BY <1>1 DEF Seen
<1>4. Kept(n) /\ SameNumbers(n) /\ Layered(n)
  BY DEF Full
<1>5. CASE CallEOS(n)
  <2>1. /\ Stream[next[n]] = EOS
        /\ \/ next'[n] = next[n] + 1 /\ at'[n] = "idle"
           \/ next'[n] = next[n] /\ at'[n] = "flush" /\ arg'[n] = -1
    BY <1>1, <1>5 DEF CallEOS, Flush, At, NodeTypeOK
  <2>2. Seen(n)' \in {Seen(n), Seen(n) + 1}
    BY <1>1, <1>3, <2>1 DEF Seen
  <2>3. Kept(n)'
    BY <1>1, <1>2, <1>4, <2>1, KeptStays
  <2>4. SameNumbers(n)'
    BY <1>3, <1>4, <2>1, <2>2, SameStays
  <2>5. ~Begins(Seen(n) + 1)
    BY <1>3, <2>1 DEF Begins
  <2>6. Layered(n)'
    BY <1>2, <1>3, <1>4, <2>2, <2>5, LayeredStays
  <2>7. Owed(n)' /\ Done(n)'
    BY <2>1 DEF Owed, Done
  <2> QED BY <2>3, <2>4, <2>6, <2>7 DEF Full
<1>6. CASE CallNext(n)
  <2> DEFINE ident == Stream[next[n]].ident
  <2>1. /\ ident \in Nat /\ next' = next /\ at'[n] = "flush"
        /\ pending'[n] = ToFlush(n, ident)
    BY <1>1, <1>6, StreamIs DEF CallNext, Flush, At, NodeTypeOK
  <2> HIDE DEF ident
  <2>2. Seen(n)' = Seen(n)
    BY <1>3, <2>1 DEF Seen
  <2>3. Kept(n)'
    BY <1>1, <1>2, <1>4, <2>1, KeptStays
  <2>4. SameNumbers(n)'
    BY <1>3, <1>4, <2>2, SameStays
  <2>5. Layered(n)'
    BY <1>2, <1>3, <1>4, <2>2, LayeredStays
  <2>6. n \in Emits => \E p \in DOMAIN ToFlush(n, ident) : ToFlush(n, ident)[p] = "layer"
    BY <2>1, FlushesLayer
  <2>7. Owed(n)' /\ Done(n)'
    BY <2>1, <2>6 DEF Owed, Done
  <2> QED BY <2>3, <2>4, <2>5, <2>7 DEF Full
<1>7. CASE CallSame(n)
  <2>1. /\ Stream[next[n]] # EOS /\ next' = next /\ at'[n] = "body" /\ todo'[n] = Body[n]
        /\ last[n] < 0 \/ last[n] = Stream[next[n]].ident
    BY <1>1, <1>7 DEF CallSame, StartBody, At, NodeTypeOK
  <2>2. Seen(n)' = Seen(n) + 1
    BY <1>3, <2>1 DEF Seen
  <2>3. \/ Seen(n) = 0 /\ Begins(Seen(n) + 1)
        \/ /\ Seen(n) \in DOMAIN Stream /\ Stream[Seen(n)] # EOS
           /\ Together(Seen(n) + 1, Seen(n)) /\ ~Begins(Seen(n) + 1)
    <3>1. CASE Unstarted(n)
      BY <1>3, <2>1, <3>1 DEF Unstarted, Begins
    <3>2. CASE \E k \in DOMAIN Stream : Within(n, k)
      <4>1. PICK k \in DOMAIN Stream : Within(n, k)
        BY <3>2
      <4>2. /\ next[n] = k + 1 /\ last[n] = Stream[k].ident /\ Stream[k] # EOS /\ k \in Nat \ {0}
            /\ Stream[k].ident \in Nat
        BY <1>1, <4>1, StreamIs DEF Within
      <4>3. Seen(n) = k /\ k + 1 \in DOMAIN Stream /\ Stream[k + 1].ident = Stream[k].ident
        BY <1>1, <1>3, <2>1, <4>2
      <4>4. Together(k + 1, k)
        BY <2>1, <4>2, <4>3, SameEvent
      <4>5. ~Begins(k + 1)
        BY <4>2, <4>3 DEF Begins
      <4> QED BY <4>2, <4>3, <4>4, <4>5
    <3>3. ~Finished(n)
      BY <1>1 DEF Finished
    <3> QED BY <3>1, <3>2, <3>3 DEF Place
  <2>4. Kept(n)'
    BY <1>1, <1>2, <1>4, <2>1, KeptStays
  <2>5. Seen(n)' \in Nat
    BY <1>3, <2>2
  <2>6. SameNumbers(n)'
    BY <1>3, <1>4, <2>2, <2>3, <2>5, SameStays
  <2>7. Layered(n)'
    BY <1>2, <1>3, <1>4, <2>2, <2>3, <2>5, LayeredStays
  <2>8. Owed(n)' /\ Done(n)'
    BY <2>1 DEF Owed, Done, Filled
  <2> QED BY <2>4, <2>6, <2>7, <2>8 DEF Full
<1> QED BY <1>5, <1>6, <1>7 DEF CallNode

\* An object is written.
LEMMA FullWrite ==
  ASSUME NodeTypeOK, SinkTyped, EveryEventNamed, ~templated, Working, NEW n \in Node, Place(n), Full(n),
         FlushWrite(n)
  PROVE  Full(n)' /\ AllEntries \subseteq AllEntries'
<1> DEFINE x == Head(pending[n])
           obj == [node |-> n, name |-> x, items |-> buffer[n][x]]
           one == <<index[n], rse[n], obj>>
<1>1. /\ at[n] \in {"flush", "final"} /\ pending[n] # <<>> /\ last[n] >= 0
      /\ pending[n] \in Seq(Name) /\ x \in Name /\ rse[n] \in Nat \X Nat /\ next[n] \in Nat \ {0}
      /\ buffer[n] \in [Name -> SUBSET DOMAIN Stream]
  BY DEF FlushWrite, Working, NodeTypeOK
<1>2. PICK k \in DOMAIN Stream : Within(n, k)
  BY <1>1, WithinSome
<1>3. Write(index[n], rse[n], obj) /\ UNCHANGED <<next, at, last, arg, index, rse, shared>>
  BY DEF FlushWrite
<1>4. /\ pending'[n] = Tail(pending[n])
      /\ buffer'[n] = [buffer[n] EXCEPT ![x] = {}]
  BY <1>1 DEF FlushWrite, NodeTypeOK
<1> HIDE DEF obj
<1>5. AllEntries \subseteq AllEntries' /\ one \in AllEntries'
  BY <1>1, <1>3, WriteAdds
<1>6. one[2] = rse[n] /\ NodeOf(one) = n /\ one[3].name = x /\ one[3].items = buffer[n][x]
  BY DEF NodeOf, obj
<1> HIDE DEF one
<1>7. Seen(n) = next[n] - 1 /\ Seen(n) \in Nat /\ Seen(n)' = Seen(n)
  BY <1>1, <1>3 DEF Seen
<1>8. Kept(n)'
  <2>1. ASSUME NEW y \in Name, NEW i \in buffer[n][y], i \notin buffer'[n][y]
        PROVE  InFiles(n, y, i)'
    <3>1. x = y
      BY <1>1, <1>4, <2>1
    <3> QED BY <1>5, <1>6, <2>1, <3>1 DEF InFiles, NodeOf
  <2>2. next'[n] = next[n] /\ Kept(n)
    BY <1>3 DEF Full
  <2> QED BY <1>1, <1>5, <2>1, <2>2, KeptStays
<1>9. SameNumbers(n)'
  BY <1>7, SameStays DEF Full
<1>10. Layered(n)'
  BY <1>5, <1>7, LayeredStays DEF Full
<1>11. Owed(n)'
  <2> SUFFICES ASSUME n \in Emits, at[n] = "flush", arg[n] >= 0
               PROVE  \/ \E p \in DOMAIN pending'[n] : pending'[n][p] = "layer"
                      \/ LayerAt(n, next[n] - 1)'
    BY <1>3 DEF Owed
  <2>1. CASE LayerAt(n, next[n] - 1)
    <3>1. \A j : LayerAt(n, j) => LayerAt(n, j)'
      BY <1>5, EntriesStay
    <3> QED BY <1>3, <2>1, <3>1 DEF LayerAt
  <2>2. CASE \E p \in DOMAIN pending[n] : pending[n][p] = "layer"
    <3>1. PICK p \in DOMAIN pending[n] : pending[n][p] = "layer"
      BY <2>2
    <3>2. CASE x = "layer"
      <4>1. next[n] - 1 = k /\ rse[n] = TrueRSE(n, k)
        BY <1>2, <2>2, StreamIs DEF Within
      <4> QED BY <1>3, <1>5, <1>6, <3>2, <4>1 DEF LayerAt, NodeOf, TrueRSE, Ordinal, Begins
    <3>3. CASE x # "layer"
      <4>1. p - 1 \in DOMAIN Tail(pending[n]) /\ Tail(pending[n])[p - 1] = "layer"
        <5> DEFINE s == pending[n]
        <5>1. s \in Seq(Name) /\ s # <<>> /\ p \in DOMAIN s /\ s[p] = "layer" /\ Head(s) # "layer"
          BY <1>1, <3>1, <3>3
        <5> HIDE DEF s
        <5>2. p \in 1 .. Len(s) /\ p # 1 /\ Len(s) \in Nat
          BY <5>1
        <5>3. p - 1 \in 1 .. Len(s) - 1 /\ (p - 1) + 1 = p
          BY <5>2
        <5>4. p - 1 \in DOMAIN Tail(s) /\ Tail(s)[p - 1] = s[(p - 1) + 1]
          BY <5>1, <5>3
        <5> QED BY <5>1, <5>3, <5>4 DEF s
      <4> QED BY <1>4, <4>1
    <3> QED BY <3>2, <3>3
  <2> QED BY <2>1, <2>2 DEF Full, Owed
<1>12. Done(n)'
  BY <1>1, <1>3 DEF Done
<1> QED BY <1>5, <1>8, <1>9, <1>10, <1>11, <1>12 DEF Full

\* A flush ends.
LEMMA FullFlushed ==
  ASSUME Orderly, NodeTypeOK, Working, NEW n \in Node, Place(n), Full(n),
         EndStream(n) \/ NewEvent(n) \/ FinalizeFlushed(n)
  PROVE  Full(n)'
<1>1. /\ at[n] \in {"flush", "final"} /\ Flushed(n) /\ last[n] >= 0 /\ next[n] \in Nat \ {0}
      /\ files' = files /\ buffer' = buffer /\ pending[n] = <<>>
  <2>1. at[n] \in {"flush", "final"} /\ Flushed(n)
    BY DEF EndStream, NewEvent, FinalizeFlushed
  <2>2. files' = files /\ buffer' = buffer /\ pending[n] = <<>>
    BY <2>1 DEF Flushed, sinkvars
  <2>3. last[n] >= 0 /\ next[n] \in Nat \ {0}
    BY <2>1 DEF Working, NodeTypeOK
  <2> QED BY <2>1, <2>2, <2>3
<1>2. AllEntries' = AllEntries
  BY <1>1 DEF AllEntries, Entries
<1>3. Seen(n) = next[n] - 1 /\ Seen(n) \in Nat /\ next[n] = Seen(n) + 1
  BY <1>1 DEF Seen
<1>4. Kept(n) /\ SameNumbers(n) /\ Layered(n) /\ Owed(n)
  BY DEF Full
<1>5. PICK k \in DOMAIN Stream : Within(n, k)
  BY <1>1, WithinSome
<1>6. CASE EndStream(n)
  <2>1. /\ at[n] = "flush" /\ arg[n] < 0 /\ at'[n] = "idle" /\ next'[n] = next[n] + 1
        /\ next[n] \in DOMAIN Stream
    BY <1>6 DEF EndStream, At, Working, NodeTypeOK
  <2>2. Stream[next[n]] = EOS
    <3>1. Stream[next[n]] # EOS => Stream[next[n]].ident \in Nat
      BY <2>1, StreamIs
    <3> QED BY <1>5, <2>1, <3>1 DEF Within
  <2>3. Seen(n)' = Seen(n) + 1
    BY <1>1, <1>3, <2>1 DEF Seen
  <2>4. Kept(n)'
    BY <1>1, <1>2, <1>4, <2>1, <2>2, KeptStays
  <2>5. Seen(n)' \in Nat /\ Stream[Seen(n) + 1] = EOS /\ ~Begins(Seen(n) + 1)
    BY <1>3, <2>2, <2>3 DEF Begins
  <2>6. SameNumbers(n)'
    BY <1>3, <1>4, <2>3, <2>5, SameStays
  <2>7. Layered(n)'
    BY <1>2, <1>3, <1>4, <2>3, <2>5, LayeredStays
  <2>8. Owed(n)' /\ Done(n)'
    BY <2>1 DEF Owed, Done
  <2> QED BY <2>4, <2>6, <2>7, <2>8 DEF Full
<1>7. CASE NewEvent(n)
  <2>1. /\ at[n] = "flush" /\ arg[n] >= 0 /\ at'[n] = "body" /\ next'[n] = next[n]
        /\ todo'[n] = Body[n]
        /\ next[n] \in DOMAIN Stream /\ Stream[next[n]] # EOS
    BY <1>7 DEF NewEvent, StartBody, At, Working, NodeTypeOK
  <2>2. /\ k = Seen(n) /\ k \in Nat \ {0} /\ Stream[k] # EOS
        /\ Stream[k + 1] # EOS /\ Stream[k + 1].ident # Stream[k].ident
    BY <1>3, <1>5, <2>1, StreamIs DEF Within
  <2>3. Begins(Seen(n) + 1)
    BY <2>2 DEF Begins
  <2>4. Seen(n)' = Seen(n) + 1 /\ Seen(n)' \in Nat
    BY <1>3, <2>1 DEF Seen
  <2>5. n \in Emits => LayerAt(n, Seen(n))
    BY <1>1, <1>3, <1>4, <2>1 DEF Owed
  <2>6. Kept(n)'
    BY <1>1, <1>2, <1>4, <2>1, KeptStays
  <2>7. SameNumbers(n)'
    BY <1>3, <1>4, <2>3, <2>4, SameStays
  <2>8. Layered(n)'
    BY <1>2, <1>3, <1>4, <2>2, <2>4, <2>5, LayeredStays
  <2>9. Owed(n)' /\ Done(n)'
    BY <2>1 DEF Owed, Done, Filled
  <2> QED BY <2>6, <2>7, <2>8, <2>9 DEF Full
<1>8. CASE FinalizeFlushed(n)
  <2>1. at'[n] = "release" /\ next'[n] = next[n]
    BY <1>8 DEF FinalizeFlushed, At, NodeTypeOK
  <2>2. Seen(n)' = Seen(n)
    BY <1>3, <2>1 DEF Seen
  <2>3. Kept(n)'
    BY <1>1, <1>2, <1>4, <2>1, KeptStays
  <2>4. SameNumbers(n)'
    BY <1>3, <1>4, <2>2, SameStays
  <2>5. Layered(n)'
    BY <1>2, <1>3, <1>4, <2>2, LayeredStays
  <2>6. Owed(n)' /\ Done(n)'
    BY <2>1 DEF Owed, Done
  <2> QED BY <2>3, <2>4, <2>5, <2>6 DEF Full
<1> QED BY <1>6, <1>7, <1>8

\* What a body drops from an object, filling it anew, is replaced.
LEMMA Dropped ==
  ASSUME NodeTypeOK, Working, NEW n \in Node, Place(n), at[n] = "body", next'[n] = next[n],
         NEW x \in Name, NEW i \in buffer[n][x], i < next[n], Replaces(n, x, Stream[next[n]])
  PROVE  Superseded(n, x, i)'
<1> DEFINE k == next[n]
<1>1. /\ last[n] >= 0 /\ k \in DOMAIN Stream /\ k \in Nat /\ Stream[k] # EOS
      /\ i \in DOMAIN Stream
  BY DEF Working, NodeTypeOK
<1>2. PICK j \in DOMAIN Stream : Within(n, j)
  BY <1>1, WithinSome
<1>3. j = k /\ Together(i, j)
  BY <1>2 DEF Within
<1>4. i \in Nat /\ k \in i + 1 .. k
  BY <1>1, StreamIs
<1>5. Ordinal(k) = Ordinal(i)
  BY <1>3 DEF Together
<1>6. \E m \in i + 1 .. k :
        /\ m \in DOMAIN Stream /\ Stream[m] # EOS
        /\ Ordinal(m) = Ordinal(i) /\ Replaces(n, x, Stream[m])
  BY <1>1, <1>4, <1>5
<1> QED BY <1>6 DEF Superseded, Ordinal, Begins, Replaces

LEMMA HeadOrTail ==
  ASSUME NEW S, NEW s \in Seq(S), s # <<>>, NEW x \in ToSet(s)
  PROVE  x = Head(s) \/ x \in ToSet(Tail(s))
<1>1. PICK p \in DOMAIN s : s[p] = x
  BY InToSet
<1>2. p \in 1 .. Len(s) /\ Len(s) \in Nat
  OBVIOUS
<1>3. CASE p = 1
  BY <1>1, <1>3
<1>4. CASE p # 1
  <2>1. p - 1 \in 1 .. Len(s) - 1 /\ (p - 1) + 1 = p
    BY <1>2, <1>4
  <2>2. p - 1 \in DOMAIN Tail(s) /\ Tail(s)[p - 1] = s[p]
    BY <2>1
  <2> QED BY <1>1, <2>2, InToSet
<1> QED BY <1>3, <1>4

\* A body fills an object.
LEMMA FullFill ==
  ASSUME NodeTypeOK, Working, NEW n \in Node, Place(n), Full(n), Fill(n)
  PROVE  Full(n)'
<1> DEFINE k == next[n]
           h == Head(todo[n])
<1>1. /\ at[n] = "body" /\ k \in DOMAIN Stream /\ k \in Nat /\ Stream[k] # EOS
      /\ todo[n] # <<>> /\ todo[n] \in Seq(Objects)
      /\ next' = next /\ at' = at /\ files' = files
  BY StreamIs DEF Fill, Working, NodeTypeOK, Objects, sinkvars
<1>2. todo'[n] = Tail(todo[n])
  BY DEF Fill, NodeTypeOK
<1>3. \A x \in ToSet(todo[n]) : x = h \/ x \in ToSet(todo'[n])
  BY <1>1, <1>2, HeadOrTail
<1>4. AllEntries' = AllEntries
  BY <1>1 DEF AllEntries, Entries
<1>5. Kept(n) /\ Done(n) /\ SameNumbers(n) /\ Layered(n)
  BY DEF Full
<1>6. \A x \in Name :
        /\ x # h => buffer'[n][x] = buffer[n][x]
        /\ x = h => /\ x \in Stream[k].fills => k \in buffer'[n][x]
                    /\ ~Replaces(n, x, Stream[k]) => buffer[n][x] \subseteq buffer'[n][x]
  BY <1>1, FillGrows
<1>7. Kept(n)'
  <2>1. ASSUME NEW x \in Name, NEW i \in buffer[n][x], i < next[n], i \notin buffer'[n][x]
        PROVE  Superseded(n, x, i)'
    <3>1. Replaces(n, x, Stream[k])
      BY <1>6, <2>1
    <3> QED BY <1>1, <2>1, <3>1, Dropped
  <2>2. next'[n] = next[n] /\ next[n] # next[n] + 1
    BY <1>1
  <2> QED BY <1>4, <1>5, <2>1, <2>2, KeptStays
<1>8. Done(n)'
  <2>1. ASSUME NEW x \in Filled(n, k)
        PROVE  x \in ToSet(todo'[n]) \/ k \in buffer'[n][x]
    <3>1. x \in Name /\ x \in Stream[k].fills
      BY <1>1, FilledNamed DEF Filled
    <3>2. x \in ToSet(todo[n]) \/ k \in buffer[n][x]
      BY <1>1, <1>5, <2>1 DEF Done
    <3>3. CASE x = h
      BY <1>6, <3>1, <3>3
    <3>4. CASE x # h
      BY <1>3, <1>6, <3>1, <3>2, <3>4
    <3> QED BY <3>3, <3>4
  <2> QED BY <1>1, <2>1 DEF Done, Filled
<1>9. Seen(n)' = Seen(n) /\ Seen(n) \in Nat
  BY <1>1 DEF Seen
<1>10. SameNumbers(n)'
  BY <1>5, <1>9, SameStays
<1>11. Layered(n)'
  BY <1>4, <1>5, <1>9, LayeredStays
<1>12. Owed(n)'
  BY <1>1 DEF Owed
<1> QED BY <1>7, <1>8, <1>10, <1>11, <1>12 DEF Full

\* A visitor writes.
LEMMA FullVisit ==
  ASSUME NodeTypeOK, SinkTyped, EveryEventNamed, ~templated, Working, NEW n \in Node, Full(n),
         Visit(n)
  PROVE  Full(n)' /\ AllEntries \subseteq AllEntries'
<1> DEFINE obj == [node |-> n, name |-> "tagger", items |-> {next[n]}]
<1>1. /\ Write(index[n], rse[n], obj) /\ rse[n] \in Nat \X Nat /\ next[n] \in Nat \ {0}
      /\ at[n] = "body" /\ todo[n] # <<>> /\ Head(todo[n]) = "tagger"
      /\ todo[n] \in Seq(Objects)
      /\ UNCHANGED <<next, at, arg, pending, buffer>> /\ todo'[n] = Tail(todo[n])
  BY DEF Visit, NodeTypeOK, Objects
<1> HIDE DEF obj
<1>2. AllEntries \subseteq AllEntries'
  BY <1>1, WriteAdds
<1>3. Kept(n) /\ Done(n) /\ SameNumbers(n) /\ Layered(n)
  BY DEF Full
<1>4. Seen(n)' = Seen(n) /\ Seen(n) \in Nat
  BY <1>1 DEF Seen
<1>5. Kept(n)'
  <2>1. next'[n] = next[n] /\ next[n] # next[n] + 1 /\ buffer'[n] = buffer[n]
    BY <1>1
  <2> QED BY <1>2, <1>3, <2>1, KeptStays
<1>6. Done(n)'
  <2>1. ASSUME NEW x \in Filled(n, next[n]), Stream[next[n]] # EOS, next[n] \in DOMAIN Stream
        PROVE  x \in ToSet(todo'[n]) \/ next[n] \in buffer'[n][x]
    <3>1. x \in Name /\ x # "tagger"
      BY <2>1, FilledNamed DEF Name
    <3>2. x \in ToSet(todo[n]) \/ next[n] \in buffer[n][x]
      BY <1>1, <1>3, <2>1 DEF Done
    <3>3. x \in ToSet(todo[n]) => x \in ToSet(Tail(todo[n]))
      BY <1>1, <3>1, HeadOrTail
    <3> QED BY <1>1, <3>2, <3>3
  <2>2. Stream[next[n]] # EOS /\ next[n] \in DOMAIN Stream
    BY <1>1 DEF Working
  <2> QED BY <1>1, <2>1, <2>2 DEF Done, Filled
<1>7. SameNumbers(n)'
  BY <1>3, <1>4, SameStays
<1>8. Layered(n)'
  BY <1>2, <1>3, <1>4, LayeredStays
<1>9. Owed(n)'
  BY <1>1 DEF Owed
<1> QED BY <1>2, <1>5, <1>6, <1>7, <1>8, <1>9 DEF Full

\* A call returns or raises.
LEMMA FullReturn ==
  ASSUME NodeTypeOK, Working, NEW n \in Node, Place(n), Full(n), Return(n) \/ Fail(n)
  PROVE  Full(n)'
<1>1. next[n] \in Nat \ {0} /\ files' = files
  BY DEF NodeTypeOK, Return, Fail, sinkvars
<1>2. AllEntries' = AllEntries
  BY <1>1 DEF AllEntries, Entries
<1>3. Kept(n) /\ Done(n) /\ SameNumbers(n) /\ Layered(n)
  BY DEF Full
<1>4. CASE Return(n)
  <2>1. /\ at[n] = "body" /\ at'[n] = "idle" /\ next'[n] = next[n] + 1 /\ todo[n] = <<>>
        /\ buffer' = buffer
    BY <1>4 DEF Return, At, NodeTypeOK
  <2>2. Seen(n)' = Seen(n) /\ Seen(n) \in Nat
    BY <1>1, <2>1 DEF Seen
  <2>3. ASSUME NEW x \in Filled(n, next[n]) PROVE next[n] \in buffer'[n][x]
    <3>1. x \notin ToSet(todo[n])
      BY <2>1, InToSet
    <3> QED BY <1>3, <2>1, <2>3, <3>1 DEF Done
  <2>4. Kept(n)'
    BY <1>2, <1>3, <2>1, <2>3, KeptStays
  <2>5. SameNumbers(n)'
    BY <1>3, <2>2, SameStays
  <2>6. Layered(n)'
    BY <1>2, <1>3, <2>2, LayeredStays
  <2>7. Owed(n)' /\ Done(n)'
    BY <2>1 DEF Owed, Done
  <2> QED BY <2>4, <2>5, <2>6, <2>7 DEF Full
<1>5. CASE Fail(n)
  <2>1. at'[n] = "idle" /\ next'[n] = next[n]
    BY <1>5 DEF Fail, At, NodeTypeOK
  <2>2. Seen(n)' <= Seen(n) /\ Seen(n) \in Nat /\ Seen(n)' \in Nat
    BY <1>1, <2>1 DEF Seen
  <2>3. ASSUME NEW x \in Name, NEW i \in buffer[n][x], i < next[n], i \notin buffer'[n][x]
        PROVE  Superseded(n, x, i)'
    <3>1. at[n] = "body" /\ Replaces(n, x, Stream[next[n]])
      BY <1>5, <2>3, FailShrinks
    <3> QED BY <2>1, <2>3, <3>1, Dropped
  <2>4. next[n] # next[n] + 1
    BY <1>1
  <2>5. Kept(n)'
    BY <1>2, <1>3, <2>1, <2>3, <2>4, KeptStays
  <2>6. SameNumbers(n)'
    BY <1>3, <2>2, SameStays
  <2>7. Layered(n)'
    BY <1>2, <1>3, <2>2, LayeredStays
  <2>8. Owed(n)' /\ Done(n)'
    BY <2>1 DEF Owed, Done
  <2> QED BY <2>5, <2>6, <2>7, <2>8 DEF Full
<1> QED BY <1>4, <1>5

\* A node is finalized, what is left besides its flush.
LEMMA FullFinal ==
  ASSUME NodeTypeOK, NEW n \in Node, Full(n), FinalizeFlush(n) \/ FinalizeRelease(n)
  PROVE  Full(n)'
<1>1. /\ next[n] \in Nat \ {0} /\ next' = next /\ buffer' = buffer
      /\ at[n] # "body" /\ at'[n] \in {"idle", "final", "release"}
  BY DEF FinalizeFlush, FinalizeRelease, Flush, At, NodeTypeOK
<1>2. files' = files
  BY DEF FinalizeFlush, FinalizeRelease, Release, sinkvars
<1>3. AllEntries' = AllEntries
  BY <1>2 DEF AllEntries, Entries
<1>4. Kept(n) /\ SameNumbers(n) /\ Layered(n)
  BY DEF Full
<1>5. Seen(n)' = Seen(n) /\ Seen(n) \in Nat
  BY <1>1 DEF Seen
<1>6. Kept(n)'
  <2>1. next'[n] = next[n] /\ next[n] # next[n] + 1 /\ buffer'[n] = buffer[n]
    BY <1>1
  <2> QED BY <1>3, <1>4, <2>1, KeptStays
<1>7. SameNumbers(n)'
  BY <1>4, <1>5, SameStays
<1>8. Layered(n)'
  BY <1>3, <1>4, <1>5, LayeredStays
<1>9. Owed(n)' /\ Done(n)'
  BY <1>1 DEF Owed, Done
<1> QED BY <1>6, <1>7, <1>8, <1>9 DEF Full

\* A step of one node.
LEMMA FullNode ==
  ASSUME Orderly, EveryEventNamed, JobInv, PlaceInv, ~templated, NEW n \in Node,
         \A m \in Node : Full(m),
         \/ stage = "run" /\ (CallNode(n) \/ GoOn(n) \/ Fail(n))
         \/ FinalizeFlush(n) \/ FlushWrite(n) \/ FinalizeFlushed(n) \/ FinalizeRelease(n)
  PROVE  \A m \in Node : Full(m)'
<1>1. NodeTypeOK /\ SinkTyped /\ Working /\ FileIsThere /\ Place(n) /\ Full(n)
  BY FileThere DEF JobInv, Typed, PlaceInv
<1>2. Full(n)' /\ AllEntries \subseteq AllEntries'
  <2>1. CASE stage = "run" /\ CallNode(n)
    <3>1. files' = files
      BY <2>1 DEF CallNode, CallEOS, CallNext, CallSame, sinkvars
    <3> QED BY <1>1, <2>1, <3>1, FullCall DEF AllEntries, Entries
  <2>2. CASE EndStream(n) \/ NewEvent(n) \/ FinalizeFlushed(n)
    <3>1. files' = files
      BY <2>2 DEF EndStream, NewEvent, FinalizeFlushed, Flushed, sinkvars
    <3> QED BY <1>1, <2>2, <3>1, FullFlushed DEF AllEntries, Entries
  <2>3. CASE FlushWrite(n)
    BY <1>1, <2>3, FullWrite
  <2>4. CASE Visit(n)
    BY <1>1, <2>4, FullVisit
  <2>5. CASE Fill(n) \/ Return(n) \/ Fail(n) \/ FinalizeFlush(n) \/ FinalizeRelease(n)
    <3>1. files' = files
      BY <2>5 DEF Fill, Return, Fail, FinalizeFlush, FinalizeRelease, Release, sinkvars
    <3>2. Full(n)'
      BY <1>1, <2>5, FullFill, FullReturn, FullFinal
    <3> QED BY <3>1, <3>2 DEF AllEntries, Entries
  <2> QED BY <2>1, <2>2, <2>3, <2>4, <2>5 DEF GoOn
<1>3. ASSUME NEW m \in Node, m # n
      PROVE  /\ next'[m] = next[m] /\ at'[m] = at[m] /\ arg'[m] = arg[m]
             /\ pending'[m] = pending[m] /\ todo'[m] = todo[m] /\ buffer'[m] = buffer[m]
  <2>1. CASE CallNode(n)
    BY <1>1, <1>3, <2>1 DEF CallNode, CallEOS, CallNext, CallSame, StartBody, Flush, At, NodeTypeOK
  <2>2. CASE EndStream(n) \/ NewEvent(n) \/ FinalizeFlushed(n) \/ Visit(n)
    BY <1>1, <1>3, <2>2
       DEF EndStream, NewEvent, FinalizeFlushed, Flushed, StartBody, Visit, At, NodeTypeOK
  <2>3. CASE FlushWrite(n) \/ Fill(n)
    BY <1>1, <1>3, <2>3 DEF FlushWrite, Fill, At, NodeTypeOK
  <2>4. CASE Return(n) \/ Fail(n) \/ FinalizeFlush(n) \/ FinalizeRelease(n)
    BY <1>1, <1>3, <2>4
       DEF Return, Fail, ResetOnly, FinalizeFlush, FinalizeRelease, Flush, At, NodeTypeOK
  <2> QED BY <2>1, <2>2, <2>3, <2>4 DEF GoOn
<1>4. ASSUME NEW m \in Node, m # n PROVE Full(m)'
  BY <1>2, <1>3, <1>4, LeftAlone
<1> QED BY <1>2, <1>4

\* A node is done with before the next is finalized.
LEMMA EmptiedStep ==
  ASSUME Emptied, PlaceInv, JobInv, JobInv', [JobNext]_jobvars
  PROVE  Emptied'
<1>1. /\ MainTyped /\ NodeTypeOK /\ Listed /\ Working
      /\ \A i \in DOMAIN conf : i \in Nat /\ i >= 1 /\ i <= Len(conf)
      /\ pos \in Nat \ {0} /\ DOMAIN conf = 1 .. Len(conf) /\ Len(conf) \in Nat
  BY DomainIs DEF JobInv, Typed, MainTyped
<1>2. \A n \in Node : last[n] \in Int /\ (last[n] >= 0 => n \in shared /\ n \in made)
  BY <1>1 DEF Working, Listed, NodeTypeOK
<1>3. CASE Load \/ Extend \/ Loaded \/ Construct \/ NextStage \/ SinkMissing \/ Fails \/ Configure \/ ConfigureFails
  <2>1. Early
    BY <1>3 DEF Load, Extend, Loaded, Construct, NextStage, SinkMissing, Fails, Configure,
                ConfigureFails, Early
  <2>2. last' = last /\ at' = at
    BY <1>3 DEF Load, Extend, Loaded, Construct, NextStage, SinkMissing, Fails, Configure,
                ConfigureFails, NodeConfigure, nodevars
  <2>3. \A n \in Node : last[n] < 0 /\ at[n] = "idle"
    BY <1>1, <2>1 DEF Early, Working
  <2> QED BY <2>2, <2>3 DEF Emptied
<1>4. CASE RunEnds
  <2>1. stage' = "finalize" /\ pos' = 1 /\ conf' = conf /\ last' = last /\ at' = at
    BY <1>4 DEF RunEnds, Enter, nodevars
  <2>2. \A n : ~Passed(n)'
    BY <1>1, <2>1 DEF Passed
  <2> QED BY <2>1, <2>2 DEF Emptied
<1>5. CASE Finalized
  <2>1. stage = "finalize" /\ pos > Len(conf) /\ stage' = "gone" /\ last' = last /\ at' = at
    BY <1>5 DEF Finalized, Enter, nodevars
  <2>2. ASSUME NEW n \in Node PROVE last[n] < 0
    <3>1. CASE n \in made
      <4>1. PICK i \in DOMAIN conf : conf[i].comp = n
        BY <1>1, <3>1 DEF Listed, Has
      <4>2. Passed(n)
        BY <1>1, <2>1, <4>1 DEF Passed
      <4> QED BY <2>1, <4>2 DEF Emptied
    <3>2. CASE n \notin made
      BY <1>2, <3>2
    <3> QED BY <3>1, <3>2
  <2> QED BY <2>1, <2>2 DEF Emptied
<1>6. CASE Gone \/ UNCHANGED jobvars
  <2>1. UNCHANGED <<stage, pos, conf, last, at>>
    BY <1>6 DEF Gone, jobvars, mainvars, nodevars
  <2> QED BY <2>1 DEF Emptied, Passed
<1>7. CASE Finalize /\ ~Doomed(Comp)
  <2>1. /\ stage = "finalize" /\ stage' = stage /\ conf' = conf /\ pos' = pos + 1
        /\ last' = last /\ at' = at /\ pos \in DOMAIN conf
    BY <1>1, <1>7 DEF Finalize, nodevars
  <2>2. ASSUME NEW n \in Node, Passed(n)' PROVE last[n] < 0
    <3>1. CASE Passed(n)
      BY <2>1, <3>1 DEF Emptied
    <3>2. CASE conf[pos].comp = n
      <4>1. n \notin made
        BY <1>7, <3>2, ComponentAssumption DEF Doomed, Comp
      <4> QED BY <1>2, <4>1
    <3> QED BY <1>1, <2>1, <2>2, <3>1, <3>2 DEF Passed
  <2> QED BY <2>1, <2>2 DEF Emptied
<1>8. CASE Finalize /\ Doomed(Comp)
  <2>1. /\ stage = "finalize" /\ stage' = stage /\ conf' = conf /\ pos \in DOMAIN conf
        /\ pos' = (IF at[Comp] = "release" THEN pos + 1 ELSE pos)
        /\ \/ FinalizeFlush(Comp) \/ FlushWrite(Comp)
           \/ FinalizeFlushed(Comp) \/ FinalizeRelease(Comp)
    BY <1>1, <1>8 DEF Finalize
  <2>2. ASSUME NEW n \in Node, n = Comp PROVE Emptied'
    <3>1. FinalizeFlush(n) \/ FlushWrite(n) \/ FinalizeFlushed(n) \/ FinalizeRelease(n)
      BY <2>1, <2>2
    <3>2. \A m \in Node : m # n => last'[m] = last[m] /\ at'[m] = at[m]
      <4>1. CASE FinalizeFlush(n)
        BY <1>1, <4>1 DEF FinalizeFlush, Flush, At, NodeTypeOK
      <4>2. CASE FlushWrite(n)
        BY <4>2 DEF FlushWrite
      <4>3. CASE FinalizeFlushed(n)
        BY <1>1, <4>3 DEF FinalizeFlushed, Flushed, At, NodeTypeOK
      <4>4. CASE FinalizeRelease(n)
        BY <1>1, <4>4 DEF FinalizeRelease, At, NodeTypeOK
      <4> QED BY <3>1, <4>1, <4>2, <4>3, <4>4
    <3>3. /\ last'[n] < 0 \/ last'[n] = last[n]
          /\ at'[n] = "release" => last'[n] < 0
          /\ at[n] = "release" => last'[n] = last[n] /\ at'[n] = "idle"
      <4>1. CASE FinalizeFlushed(n)
        <5>1. /\ at[n] = "final" /\ Flushed(n) /\ last[n] >= 0 /\ Place(n)
          BY <1>1, <4>1 DEF FinalizeFlushed, Working, PlaceInv
        <5>2. PICK k \in DOMAIN Stream : Within(n, k)
          BY <1>1, <5>1, WithinSome
        <5>3. last'[n] = -1
          BY <1>1, <5>1, <5>2, AllWritten DEF Within
        <5> QED BY <5>1, <5>3
      <4>2. CASE FinalizeFlush(n) \/ FlushWrite(n) \/ FinalizeRelease(n)
        BY <1>1, <4>2 DEF FinalizeFlush, FlushWrite, FinalizeRelease, Flush, NothingSince, At, NodeTypeOK
      <4> QED BY <3>1, <4>1, <4>2
    <3>4. \A m \in Node : last'[m] < 0 \/ last'[m] = last[m]
      BY <3>2, <3>3
    <3>5. \A m \in Node : at'[m] = "release" => last'[m] < 0
      BY <3>2, <3>3 DEF Emptied
    <3>6. ASSUME NEW m \in Node, Passed(m)' PROVE last'[m] < 0
      <4>1. CASE Passed(m)
        BY <2>1, <3>4, <4>1 DEF Emptied
      <4>2. CASE ~Passed(m)
        <5>1. m = n /\ at[n] = "release"
          BY <1>1, <2>1, <2>2, <3>6, <4>2 DEF Passed, Comp
        <5> QED BY <3>3, <5>1 DEF Emptied
      <4> QED BY <4>1, <4>2
    <3> QED BY <2>1, <3>5, <3>6 DEF Emptied
  <2>3. Comp \in Node
    BY <1>1, <1>8 DEF Doomed, Comp, MainTyped
  <2> QED BY <2>2, <2>3
<1>9. ASSUME NEW n \in Node, Run(n) \/ RunFails(n) PROVE Emptied'
  <2>1. stage' = "run"
    BY <1>9 DEF Run, RunFails, mainvars
  <2>2. \A m \in Node : at'[m] # "release"
    BY <2>1 DEF JobInv, Working
  <2> QED BY <2>1, <2>2 DEF Emptied
<1> QED BY <1>3, <1>4, <1>5, <1>6, <1>7, <1>8, <1>9 DEF JobNext, Startup, Shutdown

LEMMA CompleteStep ==
  ASSUME CompleteInv, Orderly, EveryEventNamed, PlaceInv, PlaceInv', JobInv, JobInv', [JobNext]_jobvars
  PROVE  CompleteInv'
<1>1. Emptied'
  BY EmptiedStep DEF CompleteInv
<1>2. SinkTyped /\ NodeTypeOK /\ Working
  BY DEF JobInv, Typed
<1>3. CASE Load \/ Extend \/ Loaded \/ Construct \/ NextStage \/ SinkMissing \/ Fails \/ Configure \/ ConfigureFails
  <2>1. Early /\ next' = next /\ at' = at
    BY <1>3 DEF Load, Extend, Loaded, Construct, NextStage, SinkMissing, Fails, Configure,
                ConfigureFails, NodeConfigure, nodevars, Early
  <2>2. \A n \in Node : next[n] = 1 /\ at[n] = "idle"
    BY <1>2, <2>1 DEF PlaceInv, Unstarted, Working, Early
  <2>3. ASSUME NEW n \in Node PROVE Full(n)'
    <3>1. next'[n] = 1 /\ at'[n] = "idle"
      BY <2>1, <2>2
    <3>2. Seen(n)' = 0 /\ DOMAIN Stream \subseteq Nat \ {0}
      BY <3>1, StreamIs DEF Seen
    <3> QED BY <3>1, <3>2 DEF Full, Kept, Done, SameNumbers, Layered, Owed
  <2> QED BY <1>1, <2>3 DEF CompleteInv
<1>4. CASE RunEnds \/ Finalized \/ (Finalize /\ ~Doomed(Comp)) \/ Gone \/ UNCHANGED jobvars
  <2>1. UNCHANGED nodevars /\ UNCHANGED sinkvars
    <3>1. CASE RunEnds \/ Finalized \/ (Finalize /\ ~Doomed(Comp))
      BY <3>1 DEF RunEnds, Finalized, Finalize
    <3>2. CASE Gone \/ UNCHANGED jobvars
      BY <3>2 DEF Gone, jobvars
    <3> QED BY <1>4, <3>1, <3>2
  <2>2. UNCHANGED <<next, at, arg, pending, todo, buffer, templated, files>>
    BY <2>1 DEF nodevars, sinkvars
  <2>3. AllEntries \subseteq AllEntries'
    BY <2>2 DEF AllEntries, Entries
  <2>4. ASSUME NEW n \in Node, Full(n) PROVE Full(n)'
    BY <2>2, <2>3, <2>4, LeftAlone
  <2> QED BY <1>1, <2>2, <2>4 DEF CompleteInv
<1>5. CASE Finalize /\ Doomed(Comp)
  <2>1. Comp \in Node
    BY <1>5 DEF Finalize, Doomed, Comp, JobInv, Typed, MainTyped
  <2>2. \/ FinalizeFlush(Comp) \/ FlushWrite(Comp)
        \/ FinalizeFlushed(Comp) \/ FinalizeRelease(Comp)
    BY <1>5 DEF Finalize
  <2>3. ASSUME NEW n \in Node,
               FinalizeFlush(n) \/ FlushWrite(n) \/ FinalizeFlushed(n) \/ FinalizeRelease(n)
        PROVE  CompleteInv'
    <3>1. templated' = templated
      BY <2>3 DEF FinalizeFlush, FlushWrite, FinalizeFlushed, Flushed, FinalizeRelease, Release, Write,
                  sinkvars
    <3>2. ~templated => \A m \in Node : Full(m)'
      BY <2>3, FullNode DEF CompleteInv
    <3> QED BY <1>1, <3>1, <3>2 DEF CompleteInv
  <2> QED BY <2>1, <2>2, <2>3
<1>6. ASSUME NEW n \in Node, Run(n) \/ RunFails(n) PROVE CompleteInv'
  <2>1. stage = "run" /\ (CallNode(n) \/ GoOn(n) \/ Fail(n))
    BY <1>6 DEF Run, RunFails
  <2>2. templated' = templated
    BY <2>1 DEF CallNode, CallEOS, CallNext, CallSame, GoOn, FlushWrite, EndStream, NewEvent, Flushed,
                Visit, Fill, Return, Fail, Write, sinkvars
  <2>3. ~templated => \A m \in Node : Full(m)'
    BY <2>1, FullNode DEF CompleteInv
  <2> QED BY <1>1, <2>2, <2>3 DEF CompleteInv
<1> QED BY <1>3, <1>4, <1>5, <1>6 DEF JobNext, Startup, Shutdown

LEMMA CompleteFollows ==
  ASSUME CompleteInv, PlaceInv, JobInv PROVE ~templated => Complete
<1> SUFFICES ASSUME ~templated, stage = "gone", NEW n \in Node
             PROVE  /\ \A x \in Name : buffer[n][x] = {}
                    /\ \A i \in 1 .. next[n] - 1 : Stream[i] # EOS =>
                         /\ \A x \in Filled(n, i) : InFiles(n, x, i) \/ Superseded(n, x, i)
                         /\ n \in Emits /\ (\E j \in i + 1 .. next[n] - 1 : Begins(j)) =>
                              LayerAt(n, i)
  BY DEF Complete, Filled
<1>1. NodeTypeOK /\ Working /\ Full(n) /\ Place(n) /\ last[n] < 0
  BY DEF JobInv, Typed, PlaceInv, CompleteInv, Emptied
<1>2. Blank(n)
  <2>1. \A k \in DOMAIN Stream : ~Within(n, k)
    BY <1>1, StreamIs DEF Within
  <2> QED BY <1>1, <2>1 DEF Place, Unstarted, Finished
<1>3. /\ Seen(n) = next[n] - 1 /\ next[n] \in 1 .. Len(Stream) + 1
      /\ DOMAIN Stream = 1 .. Len(Stream) /\ Len(Stream) \in Nat
  BY <1>1, StreamIs DEF Seen, Working, NodeTypeOK
<1>4. ASSUME NEW i \in 1 .. next[n] - 1, Stream[i] # EOS, NEW x \in Filled(n, i)
      PROVE  InFiles(n, x, i) \/ Superseded(n, x, i)
  <2>1. x \in Name
    BY <1>3, <1>4, FilledNamed
  <2> QED BY <1>1, <1>2, <1>4, <2>1 DEF Full, Kept, Blank
<1>5. ASSUME NEW i \in 1 .. next[n] - 1, n \in Emits, NEW j \in i + 1 .. next[n] - 1, Begins(j)
      PROVE  LayerAt(n, i)
  <2>1. i \in DOMAIN Stream /\ j \in DOMAIN Stream /\ i < j /\ j <= Seen(n)
    BY <1>3
  <2> QED BY <1>1, <1>5, <2>1 DEF Full, Layered
<1> QED BY <1>2, <1>4, <1>5 DEF Blank

\* When a job has ended, whatever has raised, no node keeps anything back; what
\* each call that returned had filled is in the file, unless a later input of its
\* event made the node fill that object anew; and each event that another followed
\* has the layer of each node with emit_empty, where there is one file for all events.  (With a file for each event
\* it takes an engine that runs one body at a time: BeeSink::write() makes the file
\* of an event anew when a node comes back to it.)
THEOREM NothingLost ==
  ASSUME Orderly, EveryEventNamed
  PROVE  JobSpec => [](~templated => Complete)
<1>1. JobInit => CompleteInv
  <2> SUFFICES ASSUME JobInit PROVE CompleteInv
    OBVIOUS
  <2>1. stage = "load" /\ \A n \in Node : next[n] = 1 /\ at[n] = "idle"
    BY DEF JobInit, MainInit, NodeInit
  <2>2. ASSUME NEW n \in Node PROVE Full(n)
    <3>1. Seen(n) = 0 /\ DOMAIN Stream \subseteq Nat \ {0}
      BY <2>1, StreamIs DEF Seen
    <3> QED BY <2>1, <3>1 DEF Full, Kept, Done, SameNumbers, Layered, Owed
  <2> QED BY <2>1, <2>2 DEF CompleteInv, Emptied
<1>2. CompleteInv /\ PlaceInv /\ PlaceInv' /\ JobInv /\ JobInv' /\ [JobNext]_jobvars => CompleteInv'
  BY CompleteStep
<1>3. CompleteInv /\ PlaceInv /\ JobInv => (~templated => Complete)
  BY CompleteFollows
<1> QED BY <1>1, <1>2, <1>3, PlaceKept, JobKept, PTL DEF JobSpec
=============================================================================
