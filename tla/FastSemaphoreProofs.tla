------------------------ MODULE FastSemaphoreProofs ------------------------
(***************************************************************************)
(* For any number of threads and any limit: the counters of FastSemaphore  *)
(* account for the threads, no wake-up is lost, and it implements Limiter. *)
(***************************************************************************)
EXTENDS FastSemaphore, FiniteSetTheorems, TLAPS

State == {"out", "slow", "asleep", "in", "post", "notify"}

\* How many threads the function f puts at s.
CountOf(f, s) == Cardinality({t \in Thread : f[t] = s})

\* The number of threads at a place is a natural number.
LEMMA CountType ==
  ASSUME NEW f, NEW s
  PROVE  CountOf(f, s) \in Nat
<1> DEFINE A == {t \in Thread : f[t] = s}
<1>1. IsFiniteSet(A)
  BY ThreadAssumption, FS_Subset, A \subseteq Thread
<1> QED BY <1>1, FS_CardinalityType DEF CountOf

\* A place with a thread is counted so, one without is not.
LEMMA CountNone ==
  ASSUME NEW f, NEW s
  PROVE  CountOf(f, s) = 0 <=> {t \in Thread : f[t] = s} = {}
<1> DEFINE A == {t \in Thread : f[t] = s}
<1>1. IsFiniteSet(A)
  BY ThreadAssumption, FS_Subset, A \subseteq Thread
<1> QED BY <1>1, FS_EmptySet DEF CountOf

\* From f to g, thread t moves from a to b; and what that does to the counts.
Moves(f, g, t, a, b) ==
  /\ f \in [Thread -> State] /\ t \in Thread /\ b \in State
  /\ f[t] = a /\ a # b
  /\ g = [f EXCEPT ![t] = b]
Counted(f, g, a, b) ==
  /\ g \in [Thread -> State]
  /\ CountOf(g, a) = CountOf(f, a) - 1
  /\ CountOf(g, b) = CountOf(f, b) + 1
  /\ \A s \in State \ {a, b} : CountOf(g, s) = CountOf(f, s)

\* When thread t moves from a to b, one less is at a, one more at b, and as many
\* as before everywhere else.
LEMMA MoveOne ==
  ASSUME NEW f, NEW g, NEW t, NEW a, NEW b, Moves(f, g, t, a, b)
  PROVE  Counted(f, g, a, b)
<1> USE DEF Moves
<1> DEFINE F(s) == {u \in Thread : f[u] = s}
           G(s) == {u \in Thread : g[u] = s}
<1>1. \A s : IsFiniteSet(F(s))
  BY ThreadAssumption, FS_Subset, \A s : F(s) \subseteq Thread
<1>2. G(a) = F(a) \ {t} /\ t \in F(a)
  OBVIOUS
<1>3. G(b) = F(b) \cup {t} /\ t \notin F(b)
  OBVIOUS
<1>4. \A s \in State \ {a, b} : G(s) = F(s)
  OBVIOUS
<1> HIDE DEF F, G
<1>5. Cardinality(G(a)) = Cardinality(F(a)) - 1
  BY <1>1, <1>2, FS_RemoveElement
<1>6. Cardinality(G(b)) = Cardinality(F(b)) + 1
  BY <1>1, <1>3, FS_AddElement
<1>7. \A s \in State \ {a, b} : Cardinality(G(s)) = Cardinality(F(s))
  BY <1>4
<1>8. \A s : CountOf(f, s) = Cardinality(F(s)) /\ CountOf(g, s) = Cardinality(G(s))
  BY DEF CountOf, F, G
<1>9. g \in [Thread -> State]
  OBVIOUS
<1> QED BY <1>5, <1>6, <1>7, <1>8, <1>9 DEF Counted

\* The counts of the module, as counts of the function at.
LEMMA Counts == /\ \A s : HowMany(s) = CountOf(at, s)
                /\ \A s : HowMany(s) \in Nat
                /\ \A s : HowMany(s) = 0 <=> At(s) = {}
BY CountType, CountNone DEF HowMany, At, CountOf

LEMMA NextCounts == /\ \A s : HowMany(s)' = CountOf(at', s)
                    /\ \A s : HowMany(s)' \in Nat
                    /\ \A s : HowMany(s)' = 0 <=> At(s)' = {}
BY CountType, CountNone DEF HowMany, At, CountOf

\* The inductive invariant.
SemInv == SemTypeOK /\ Accounting /\ NoLostWakeup

LEMMA InitInv == SemInit => SemInv
<1> SUFFICES ASSUME SemInit PROVE SemInv
  OBVIOUS
<1>1. SemTypeOK
  BY LimitAssumption DEF SemInit, SemTypeOK
<1>2. \A s \in State \ {"out"} : At(s) = {}
  BY DEF SemInit, At, State
<1>3. \A s \in State \ {"out"} : HowMany(s) = 0
  BY <1>2, Counts
<1>4. Accounting
  BY <1>3, LimitAssumption DEF SemInit, Accounting, Waiting, State
<1>5. NoLostWakeup
  BY <1>2 DEF NoLostWakeup, State
<1> QED BY <1>1, <1>4, <1>5 DEF SemInv

\* One thread's move, in the terms of the module.
LEMMA Moved ==
  ASSUME SemTypeOK, NEW t \in Thread, NEW a, NEW b \in State,
         at[t] = a, a # b, Goto(t, b)
  PROVE  /\ at' \in [Thread -> State]
         /\ HowMany(a)' = HowMany(a) - 1
         /\ HowMany(b)' = HowMany(b) + 1
         /\ \A s \in State \ {a, b} : HowMany(s)' = HowMany(s)
<1>1. at \in [Thread -> State] /\ at' = [at EXCEPT ![t] = b]
  BY DEF SemTypeOK, Goto, State
<1>2. Counted(at, at', a, b)
  BY <1>1, MoveOne DEF Moves
<1> QED BY <1>2, Counts, NextCounts DEF Counted

\* The invariant in numbers: what one action must show of the counts.
LEMMA ByNumbers ==
  ASSUME count' \in Int, inner' \in Nat, at' \in [Thread -> State],
         count' = Limit - HowMany("in")' - (HowMany("slow")' + HowMany("asleep")'),
         HowMany("slow")' + HowMany("asleep")'
           = inner' + HowMany("post")' + (IF count' < 0 THEN -count' ELSE 0),
         HowMany("asleep")' # 0 => inner' <= HowMany("slow")' + HowMany("notify")'
  PROVE  SemInv'
<1>1. SemTypeOK'
  BY DEF SemTypeOK, State
<1>2. Accounting'
  BY DEF Accounting, Waiting
<1>3. NoLostWakeup'
  BY NextCounts DEF NoLostWakeup
<1> QED BY <1>1, <1>2, <1>3 DEF SemInv

\* The same of the invariant before the action.
LEMMA InNumbers ==
  ASSUME SemInv
  PROVE  /\ count \in Int /\ inner \in Nat /\ at \in [Thread -> State]
         /\ Limit \in Nat \ {0}
         /\ \A s \in State : HowMany(s) \in Nat
         /\ count = Limit - HowMany("in") - (HowMany("slow") + HowMany("asleep"))
         /\ HowMany("slow") + HowMany("asleep")
              = inner + HowMany("post") + (IF count < 0 THEN -count ELSE 0)
         /\ HowMany("asleep") # 0 => inner <= HowMany("slow") + HowMany("notify")
BY Counts, LimitAssumption DEF SemInv, SemTypeOK, Accounting, Waiting, NoLostWakeup, State

\* A thread is counted where it is.
LEMMA IsThere ==
  ASSUME SemTypeOK, NEW t \in Thread
  PROVE  HowMany(at[t]) \in Nat \ {0}
<1>1. t \in At(at[t])
  BY DEF At
<1> QED BY <1>1, Counts

\* Every action of every thread preserves the invariant.
LEMMA StepInv ==
  ASSUME SemInv, NEW t \in Thread, SemStep(t)
  PROVE  SemInv'
<1> USE DEF State
<1>0. SemTypeOK
  BY DEF SemInv
<1>1. CASE FetchSub(t)
  <2>1. CASE count < 1
    <3>1. at[t] = "out" /\ Goto(t, "slow") /\ count' = count - 1 /\ inner' = inner
      BY <1>1, <2>1 DEF FetchSub
    <3>2. /\ at' \in [Thread -> State]
          /\ HowMany("slow")' = HowMany("slow") + 1
          /\ \A s \in State \ {"out", "slow"} : HowMany(s)' = HowMany(s)
      BY <1>0, <3>1, Moved
    <3> QED BY <2>1, <3>1, <3>2, InNumbers, ByNumbers
  <2>2. CASE ~(count < 1)
    <3>1. at[t] = "out" /\ Goto(t, "in") /\ count' = count - 1 /\ inner' = inner
      BY <1>1, <2>2 DEF FetchSub
    <3>2. /\ at' \in [Thread -> State]
          /\ HowMany("in")' = HowMany("in") + 1
          /\ \A s \in State \ {"out", "in"} : HowMany(s)' = HowMany(s)
      BY <1>0, <3>1, Moved
    <3> QED BY <2>2, <3>1, <3>2, InNumbers, ByNumbers
  <2> QED BY <2>1, <2>2
<1>2. CASE InnerAcquire(t)
  <2>1. at[t] = "slow" /\ Goto(t, "in") /\ inner # 0 /\ inner' = inner - 1 /\ count' = count
    BY <1>2 DEF InnerAcquire
  <2>2. /\ at' \in [Thread -> State]
        /\ HowMany("slow")' = HowMany("slow") - 1
        /\ HowMany("in")' = HowMany("in") + 1
        /\ \A s \in State \ {"slow", "in"} : HowMany(s)' = HowMany(s)
    BY <1>0, <2>1, Moved
  <2> QED BY <2>1, <2>2, InNumbers, ByNumbers
<1>3. CASE InnerWait(t)
  <2>1. at[t] = "slow" /\ Goto(t, "asleep") /\ inner = 0 /\ inner' = inner /\ count' = count
    BY <1>3 DEF InnerWait
  <2>2. /\ at' \in [Thread -> State]
        /\ HowMany("slow")' = HowMany("slow") - 1
        /\ HowMany("asleep")' = HowMany("asleep") + 1
        /\ \A s \in State \ {"slow", "asleep"} : HowMany(s)' = HowMany(s)
    BY <1>0, <2>1, Moved
  <2>3. HowMany("slow") \in Nat \ {0}
    BY <1>0, <2>1, IsThere
  <2> QED BY <2>1, <2>2, <2>3, InNumbers, ByNumbers
<1>4. CASE SpuriousWake(t)
  <2>1. at[t] = "asleep" /\ Goto(t, "slow") /\ inner' = inner /\ count' = count
    BY <1>4 DEF SpuriousWake
  <2>2. /\ at' \in [Thread -> State]
        /\ HowMany("asleep")' = HowMany("asleep") - 1
        /\ HowMany("slow")' = HowMany("slow") + 1
        /\ \A s \in State \ {"slow", "asleep"} : HowMany(s)' = HowMany(s)
    BY <1>0, <2>1, Moved
  <2>3. HowMany("asleep") \in Nat \ {0}
    BY <1>0, <2>1, IsThere
  <2> QED BY <2>1, <2>2, <2>3, InNumbers, ByNumbers
<1>5. CASE FetchAdd(t)
  <2>1. CASE count < 0
    <3>1. at[t] = "in" /\ Goto(t, "post") /\ count' = count + 1 /\ inner' = inner
      BY <1>5, <2>1 DEF FetchAdd
    <3>2. /\ at' \in [Thread -> State]
          /\ HowMany("in")' = HowMany("in") - 1
          /\ HowMany("post")' = HowMany("post") + 1
          /\ \A s \in State \ {"in", "post"} : HowMany(s)' = HowMany(s)
      BY <1>0, <3>1, Moved
    <3> QED BY <2>1, <3>1, <3>2, InNumbers, ByNumbers
  <2>2. CASE ~(count < 0)
    <3>1. at[t] = "in" /\ Goto(t, "out") /\ count' = count + 1 /\ inner' = inner
      BY <1>5, <2>2 DEF FetchAdd
    <3>2. /\ at' \in [Thread -> State]
          /\ HowMany("in")' = HowMany("in") - 1
          /\ \A s \in State \ {"in", "out"} : HowMany(s)' = HowMany(s)
      BY <1>0, <3>1, Moved
    <3> QED BY <2>2, <3>1, <3>2, InNumbers, ByNumbers
  <2> QED BY <2>1, <2>2
<1>6. CASE InnerRelease(t)
  <2>1. at[t] = "post" /\ Goto(t, "notify") /\ inner' = inner + 1 /\ count' = count
    BY <1>6 DEF InnerRelease
  <2>2. /\ at' \in [Thread -> State]
        /\ HowMany("post")' = HowMany("post") - 1
        /\ HowMany("notify")' = HowMany("notify") + 1
        /\ \A s \in State \ {"post", "notify"} : HowMany(s)' = HowMany(s)
    BY <1>0, <2>1, Moved
  <2> QED BY <2>1, <2>2, InNumbers, ByNumbers
<1>7. CASE NotifyOne(t)
  <2>1. CASE At("asleep") = {}
    <3>1. at[t] = "notify" /\ Goto(t, "out") /\ inner' = inner /\ count' = count
      BY <1>7, <2>1 DEF NotifyOne
    <3>2. /\ at' \in [Thread -> State]
          /\ \A s \in State \ {"notify", "out"} : HowMany(s)' = HowMany(s)
      BY <1>0, <3>1, Moved
    <3>3. HowMany("asleep") = 0
      BY <2>1, Counts
    <3> QED BY <3>1, <3>2, <3>3, InNumbers, ByNumbers
  <2>2. CASE At("asleep") # {}
    <3>1. PICK u \in At("asleep") : at' = [at EXCEPT ![t] = "out", ![u] = "slow"]
      BY <1>7, <2>2 DEF NotifyOne
    <3> DEFINE f == [at EXCEPT ![t] = "out"]
    <3>2. at \in [Thread -> State] /\ u \in Thread /\ at[u] = "asleep" /\ at[t] = "notify"
      BY <1>0, <1>7, <3>1 DEF SemTypeOK, At, NotifyOne
    <3>3. Counted(at, f, "notify", "out")
      BY <3>2, MoveOne DEF Moves
    <3>4. at' = [f EXCEPT ![u] = "slow"] /\ f[u] = "asleep" /\ f \in [Thread -> State]
      BY <3>1, <3>2
    <3> HIDE DEF f
    <3>5. Counted(f, at', "asleep", "slow")
      BY <3>2, <3>4, MoveOne DEF Moves
    <3>6. /\ at' \in [Thread -> State]
          /\ HowMany("notify")' = HowMany("notify") - 1
          /\ HowMany("asleep")' = HowMany("asleep") - 1
          /\ HowMany("slow")' = HowMany("slow") + 1
          /\ \A s \in {"in", "post"} : HowMany(s)' = HowMany(s)
      BY <3>3, <3>5, Counts, NextCounts DEF Counted
    <3>7. HowMany("asleep") \in Nat \ {0}
      BY <1>0, <3>2, IsThere
    <3>8. inner' = inner /\ count' = count
      BY <1>7 DEF NotifyOne
    <3> QED BY <3>6, <3>7, <3>8, InNumbers, ByNumbers
  <2> QED BY <2>1, <2>2
<1> QED BY <1>1, <1>2, <1>3, <1>4, <1>5, <1>6, <1>7 DEF SemStep, Acquiring, Releasing

\* SemInv is an invariant of the semaphore: its types, what the counters count,
\* and that no wake-up is lost.
THEOREM SemaphoreInvariant == SemSpec => []SemInv
<1>1. SemInit => SemInv
  BY InitInv
<1>2. SemInv /\ [SemNext]_semvars => SemInv'
  <2> SUFFICES ASSUME SemInv, [SemNext]_semvars PROVE SemInv'
    OBVIOUS
  <2>1. CASE SemNext
    BY <2>1, StepInv DEF SemNext
  <2>2. CASE UNCHANGED semvars
    BY <2>2 DEF semvars, SemInv, SemTypeOK, Accounting, NoLostWakeup, Waiting, HowMany, At
  <2> QED BY <2>1, <2>2
<1> QED BY <1>1, <1>2, PTL DEF SemSpec

\* A notification sent outside of the mutex is never lost, for any number of
\* threads.
THEOREM WakeupsArrive == SemSpec => []NoLostWakeup
<1>1. SemInv => NoLostWakeup
  BY DEF SemInv
<1> QED BY <1>1, SemaphoreInvariant, PTL

\* When a place is free, in the terms of the counters.
LEMMA RoomInside ==
  ASSUME SemInv, NEW t \in Thread,
         \/ FetchSub(t) /\ ~(count < 1)
         \/ InnerAcquire(t)
  PROVE  HowMany("in") < Limit
<1>1. CASE FetchSub(t) /\ ~(count < 1)
  BY <1>1, InNumbers DEF State
<1>2. CASE InnerAcquire(t)
  <2>1. inner # 0
    BY <1>2 DEF InnerAcquire
  <2>2. /\ HowMany("in") \in Nat /\ HowMany("post") \in Nat
        /\ HowMany("slow") \in Nat /\ HowMany("asleep") \in Nat
    BY Counts
  <2> QED BY <2>1, <2>2, InNumbers
<1> QED BY <1>1, <1>2

\* The abstract specification counts as this module does.
LEMMA SameCardinality == \A S : Limits!Cardinality(S) = Cardinality(S)
BY DEF Cardinality, Limits!Cardinality

\* FastSemaphore implements the limiter: at most Limit threads are ever between
\* acquire() and release(), and each enters and leaves by itself.
THEOREM LimitedThreads == SemSpec => ImplementsLimiter
<1>1. SemInit => Limits!Free
  BY DEF SemInit, Limits!Free, At
<1>2. SemInv /\ [SemNext]_semvars => [Limits!LimiterNext]_(At("in"))
  <2> SUFFICES ASSUME SemInv, [SemNext]_semvars
               PROVE  Limits!LimiterNext \/ At("in")' = At("in")
    OBVIOUS
  <2>0. at \in [Thread -> State]
    BY DEF SemInv, SemTypeOK, State
  <2>1. CASE UNCHANGED semvars
    BY <2>1 DEF semvars, At
  <2>2. ASSUME NEW t \in Thread, SemStep(t)
        PROVE  Limits!LimiterNext \/ At("in")' = At("in")
    <3>1. CASE (FetchSub(t) /\ ~(count < 1)) \/ InnerAcquire(t)
      <4>1. Cardinality(At("in")) < Limit
        BY <3>1, RoomInside DEF HowMany
      <4>2. at[t] # "in" /\ at' = [at EXCEPT ![t] = "in"]
        BY <3>1 DEF FetchSub, InnerAcquire, Goto
      <4>3. t \notin At("in") /\ At("in")' = At("in") \cup {t}
        BY <2>0, <4>2 DEF At
      <4> QED BY <4>1, <4>3, SameCardinality DEF Limits!LimiterNext, Limits!Enter
    <3>2. CASE FetchAdd(t)
      <4>1. at[t] = "in" /\ \E s \in {"post", "out"} : at' = [at EXCEPT ![t] = s]
        BY <3>2 DEF FetchAdd, Goto
      <4>2. t \in At("in") /\ At("in")' = At("in") \ {t}
        BY <2>0, <4>1 DEF At
      <4> QED BY <4>2 DEF Limits!LimiterNext, Limits!Leave
    <3>3. CASE NotifyOne(t)
      <4>1. \/ at' = [at EXCEPT ![t] = "out"]
            \/ \E u \in At("asleep") : at' = [at EXCEPT ![t] = "out", ![u] = "slow"]
        BY <3>3 DEF NotifyOne, Goto
      <4>2. at[t] = "notify"
        BY <3>3 DEF NotifyOne
      <4> QED BY <2>0, <4>1, <4>2 DEF At
    <3>4. CASE \/ FetchSub(t) /\ count < 1
               \/ InnerWait(t)
               \/ SpuriousWake(t)
               \/ InnerRelease(t)
      <4>1. at[t] # "in" /\ \E s \in State \ {"in"} : at' = [at EXCEPT ![t] = s]
        BY <3>4 DEF FetchSub, InnerWait, SpuriousWake, InnerRelease, Goto, State
      <4> QED BY <2>0, <4>1 DEF At
    <3> QED BY <2>2, <3>1, <3>2, <3>3, <3>4 DEF SemStep, Acquiring, Releasing
  <2> QED BY <2>1, <2>2 DEF SemNext
<1> QED BY <1>1, <1>2, SemaphoreInvariant, PTL DEF SemSpec, ImplementsLimiter, Limits!LimiterSpec
=============================================================================
