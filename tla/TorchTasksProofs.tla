-------------------------- MODULE TorchTasksProofs --------------------------
(***************************************************************************)
(* For any threads, bodies, contexts, kernels and limit: the semaphore     *)
(* keeps its promises under the bodies that use it, a thread comes out of  *)
(* a body with the mode it came in with, and a value is made once.         *)
(***************************************************************************)
EXTENDS TorchTasks, FastSemaphoreProofs, ThreadSafeCacheProofs

-----------------------------------------------------------------------------
(* The semaphore in its context.                                           *)

\* A step of a thread is a step of the semaphore or does not touch it.
LEMMA SemaphoreSteps ==
  ASSUME [TaskNext]_vars
  PROVE  [SemNext]_semvars
<1>1. ASSUME NEW t \in Thread, ThreadStep(t) \/ Spurious(t) \/ Raise(t)
      PROVE  SemStep(t) \/ UNCHANGED semvars
  <2>1. CASE Begin(t) \/ Semaphoring(t) \/ Spurious(t) \/ Leave(t)
    BY <2>1 DEF Begin, Semaphoring, Spurious, Leave, SemStep
  <2>2. CASE \/ Enter(t) \/ AskBypass(t) \/ AskHit(t) \/ AskMiss(t)
             \/ Made(t) \/ Unwinding(t) \/ Exit(t) \/ Raise(t)
    BY <2>2 DEF Enter, AskBypass, AskHit, AskMiss, Made, Unwinding, Exit, Raise
  <2> QED BY <1>1, <2>1, <2>2 DEF ThreadStep
<1>2. CASE Rested \/ UNCHANGED vars
  BY <1>2 DEF Rested, vars
<1> QED BY <1>1, <1>2 DEF TaskNext, SemNext

LEMMA SemaphoreUsed == TaskSpec => SemSpec
<1>1. [TaskNext]_vars => [SemNext]_semvars
  BY SemaphoreSteps
<1> QED BY <1>1, PTL DEF TaskSpec, SemSpec

\* The semaphore of the torch nodes limits the threads inside of their bodies,
\* also when bodies raise.
THEOREM LimitedBodies == TaskSpec => ImplementsLimiter
BY SemaphoreUsed, LimitedThreads, PTL

\* And no wake-up of it is lost.
THEOREM BodiesWakeUp == TaskSpec => []NoLostWakeup
BY SemaphoreUsed, WakeupsArrive, PTL

-----------------------------------------------------------------------------
(* The mode of a thread.                                                   *)

Working == {"ask", "made", "raise"}

\* A thread that waits for the semaphore or has it is in a body; it has entered
\* its context only when it has the semaphore; and while it works the context
\* holds the mode that every thread comes in with.
ModeInv ==
  /\ at \in [Thread -> State]
  /\ todo \in [Thread -> Seq(Task)]
  /\ phase \in [Thread -> {"idle", "leave"} \cup Working]
  /\ grad \in [Thread -> BOOLEAN] /\ agm \in [Context -> BOOLEAN]
  /\ \A t \in Thread :
       /\ at[t] \in {"slow", "asleep", "in"} => todo[t] # <<>>
       /\ phase[t] # "idle" => at[t] = "in"
       /\ grad[t] = (phase[t] \notin Working)
       /\ phase[t] \in Working => agm[Ctx(t)] = TRUE

\* What the steps of the semaphore alone do to a thread.
LEMMA SemaphoreOnly ==
  ASSUME ModeInv, NEW t \in Thread, Semaphoring(t) \/ Spurious(t)
  PROVE  ModeInv'
<1>1. UNCHANGED <<todo, phase, grad, agm>>
  BY DEF Semaphoring, Spurious, taskvars
<1>2. /\ at' \in [Thread -> State]
      /\ \A u \in Thread : /\ at[u] = "in" => at'[u] = "in"
                           /\ at'[u] \in {"slow", "asleep", "in"} =>
                                at[u] \in {"slow", "asleep", "in"}
  BY DEF Semaphoring, Spurious, Acquiring, Releasing, InnerAcquire, InnerWait, InnerRelease,
         NotifyOne, SpuriousWake, Goto, At, ModeInv, State
<1> QED BY <1>1, <1>2 DEF ModeInv, Ctx

LEMMA ModeStep ==
  ASSUME ModeInv, [TaskNext]_vars
  PROVE  ModeInv'
<1> USE DEF ModeInv, Working
<1>1. ASSUME NEW t \in Thread, Begin(t) PROVE ModeInv'
  BY <1>1 DEF Begin, FetchSub, Goto, taskvars, State, Ctx
<1>2. ASSUME NEW t \in Thread, Enter(t) PROVE ModeInv'
  <2>1. Ctx(t) \in Context
    BY <1>2 DEF Enter, Ctx, Task
  <2>2. /\ UNCHANGED <<at, todo>> /\ at[t] = "in" /\ phase[t] = "idle"
        /\ phase' = [phase EXCEPT ![t] = "ask"]
        /\ agm' = [agm EXCEPT ![Ctx(t)] = grad[t]]
        /\ grad' = [grad EXCEPT ![t] = FALSE]
    BY <1>2 DEF Enter, Step, semvars
  <2>3. grad[t] = TRUE
    BY <2>2
  <2>4. /\ phase' \in [Thread -> {"idle", "leave"} \cup Working]
        /\ grad' \in [Thread -> BOOLEAN]
        /\ agm' = [agm EXCEPT ![Ctx(t)] = TRUE]
    BY <2>2, <2>3
  <2>5. agm' \in [Context -> BOOLEAN]
    BY <2>4
  <2>6. \A u \in Thread : /\ phase'[u] # "idle" => at'[u] = "in"
                          /\ grad'[u] = (phase'[u] \notin Working)
    BY <2>2
  <2>7. ASSUME NEW u \in Thread, phase'[u] \in Working
        PROVE  agm'[Ctx(u)'] = TRUE
    <3>1. Ctx(u)' = Ctx(u)
      BY <2>2 DEF Ctx
    <3>2. CASE u = t
      BY <2>1, <2>4, <3>1, <3>2
    <3>3. CASE u # t
      <4>1. phase[u] \in Working
        BY <2>2, <2>7, <3>3
      <4>2. Ctx(u) \in Context
        BY <2>2, <4>1 DEF Ctx, Task
      <4> QED BY <2>1, <2>4, <3>1, <4>1, <4>2
    <3> QED BY <3>2, <3>3
  <2> QED BY <2>2, <2>4, <2>5, <2>6, <2>7
<1>3. ASSUME NEW t \in Thread, AskBypass(t) \/ AskHit(t) \/ AskMiss(t) \/ Raise(t)
      PROVE  ModeInv'
  <2>1. /\ UNCHANGED <<at, todo, grad, agm>> /\ phase[t] \in Working
        /\ \E p \in Working : phase' = [phase EXCEPT ![t] = p]
    BY <1>3 DEF AskBypass, AskHit, AskMiss, Raise, Compute, Step, semvars
  <2> QED BY <2>1 DEF Ctx
<1>4. ASSUME NEW t \in Thread, Made(t) \/ Unwinding(t) PROVE ModeInv'
  BY <1>4 DEF Made, Unwinding, semvars, taskvars, Ctx
<1>5. ASSUME NEW t \in Thread, Exit(t) PROVE ModeInv'
  <2>1. /\ UNCHANGED <<at, todo, agm>> /\ phase[t] \in Working
        /\ phase' = [phase EXCEPT ![t] = "leave"]
        /\ grad' = [grad EXCEPT ![t] = agm[Ctx(t)]]
    BY <1>5 DEF Exit, Step, semvars
  <2>2. agm[Ctx(t)] = TRUE
    BY <2>1
  <2> QED BY <2>1, <2>2 DEF Ctx
<1>6. ASSUME NEW t \in Thread, Leave(t) PROVE ModeInv'
  <2>1. /\ UNCHANGED <<grad, agm>> /\ phase[t] = "leave"
        /\ phase' = [phase EXCEPT ![t] = "idle"]
        /\ todo' = [todo EXCEPT ![t] = Tail(@)]
        /\ \E s \in {"post", "out"} : at' = [at EXCEPT ![t] = s]
    BY <1>6 DEF Leave, FetchAdd, Step, Goto
  <2>2. todo[t] # <<>>
    BY <2>1
  <2>3. todo' \in [Thread -> Seq(Task)]
    BY <2>1, <2>2
  <2> QED BY <2>1, <2>3 DEF Ctx, State
<1>7. CASE Rested \/ UNCHANGED vars
  BY <1>7 DEF Rested, vars, semvars, taskvars, Ctx
<1> QED
  BY <1>1, <1>2, <1>3, <1>4, <1>5, <1>6, <1>7, SemaphoreOnly DEF TaskNext, ThreadStep

\* A body runs with autograd off and a thread leaves with it on, for all threads
\* and contexts, although threads share the member that keeps the mode.
THEOREM ModeRestored == TaskSpec => []GradRestored
<1>1. SemInit /\ TaskInit /\ todo \in [Thread -> Seq(Task)] => ModeInv
  BY DEF SemInit, TaskInit, ModeInv, Working, State
<1>2. ModeInv /\ [TaskNext]_vars => ModeInv'
  BY ModeStep
<1>3. ModeInv => GradRestored
  BY DEF ModeInv, GradRestored, Working
<1> QED BY <1>1, <1>2, <1>3, PTL DEF TaskSpec

-----------------------------------------------------------------------------
(* The caches.                                                             *)

\* A thread that asks, asks a kernel there is.
AskInv == /\ want \in [Thread -> Kernel \cup {NoKernel}]
          /\ \A t \in Thread : phase[t] = "ask" => want[t] \in Kernel

LEMMA AskStep ==
  ASSUME ModeInv, AskInv, [TaskNext]_vars
  PROVE  AskInv'
<1>1. ASSUME NEW t \in Thread, Enter(t) PROVE AskInv'
  <2>1. Head(todo[t])[2] \in Kernel
    BY <1>1 DEF Enter, ModeInv, Task
  <2> QED BY <1>1, <2>1 DEF Enter, Step, AskInv
<1>2. ASSUME NEW t \in Thread, AskBypass(t) \/ AskMiss(t) PROVE AskInv'
  <2>1. Compute(t, want[t]) /\ want[t] \in Kernel
    BY <1>2 DEF AskBypass, AskMiss, AskInv
  <2> QED BY <2>1, KernelAssumption DEF Compute, Step, AskInv, Kernel, ModeInv
<1>3. ASSUME NEW t \in Thread, AskHit(t) \/ Raise(t) \/ Exit(t) \/ Leave(t) PROVE AskInv'
  BY <1>3 DEF AskHit, Raise, Exit, Leave, Step, AskInv, ModeInv
<1>4. ASSUME NEW t \in Thread,
             Begin(t) \/ Semaphoring(t) \/ Spurious(t) \/ Made(t) \/ Unwinding(t)
      PROVE  AskInv'
  BY <1>4 DEF Begin, Semaphoring, Spurious, Made, Unwinding, taskvars, AskInv
<1>5. CASE Rested \/ UNCHANGED vars
  BY <1>5 DEF Rested, vars, taskvars, AskInv
<1> QED BY <1>1, <1>2, <1>3, <1>4, <1>5 DEF TaskNext, ThreadStep

\* What a thread does to the caches, it does by a call of one of them.
LEMMA CacheSteps ==
  ASSUME ModeInv, AskInv, [TaskNext]_vars
  PROVE  [CacheNext]_cachevars
<1>1. ASSUME NEW t \in Thread, AskHit(t) \/ AskMiss(t)
      PROVE  CacheNext
  <2>1. want[t] \in Cache /\ TheKey(t) \in Key
    BY <1>1 DEF AskHit, AskMiss, AskInv, ModeInv, Working, TheKey, Task, Kernel
  <2>2. Hit(want[t], TheKey(t)) \/ LockMissing(t, want[t], TheKey(t))
    BY <1>1 DEF AskHit, AskMiss
  <2> QED BY <2>1, <2>2 DEF CacheNext, CacheCall
<1>2. ASSUME NEW t \in Thread, Made(t) \/ Unwinding(t)
      PROVE  CacheNext
  BY <1>2 DEF Made, Unwinding, CacheNext, CacheCall
<1>3. ASSUME NEW t \in Thread,
             \/ Begin(t) \/ Semaphoring(t) \/ Spurious(t) \/ Enter(t) \/ AskBypass(t)
             \/ Exit(t) \/ Leave(t) \/ Raise(t)
      PROVE  UNCHANGED cachevars
  BY <1>3 DEF Begin, Semaphoring, Spurious, Enter, AskBypass, Exit, Leave, Raise
<1>4. CASE Rested \/ UNCHANGED vars
  BY <1>4 DEF Rested, vars
<1> QED BY <1>1, <1>2, <1>3, <1>4 DEF TaskNext, ThreadStep

LEMMA CachesUsed == TaskSpec => CacheSpec
<1> DEFINE Inv == ModeInv /\ AskInv
<1>1. SemInit /\ TaskInit /\ todo \in [Thread -> Seq(Task)] => Inv
  BY DEF SemInit, TaskInit, ModeInv, Working, State, AskInv
<1>2. Inv /\ [TaskNext]_vars => Inv'
  BY ModeStep, AskStep
<1>3. Inv /\ [TaskNext]_vars => [CacheNext]_cachevars
  BY CacheSteps
<1> QED BY <1>1, <1>2, <1>3, PTL DEF TaskSpec, CacheSpec

\* Bodies whose kernels ask one another, each with its own cache locked, make
\* the value of a key once, whatever raises.
THEOREM MadeOnce == TaskSpec => []OneMaker
BY CachesUsed, OneMakerOnly, PTL

\* A body that raises in the middle of a computation leaves no half of an entry.
THEOREM KernelCachesConsistent == TaskSpec => []Consistent
BY CachesUsed, CachesConsistent, PTL

\* Nor does the order of use get lost between the threads that use a kernel.
THEOREM KernelsForgetTheOldest == TaskSpec => []LeastRecentlyUsed
BY CachesUsed, OldestEvicted, PTL

-----------------------------------------------------------------------------
(* Types.                                                                  *)

LEMMA CancelledStep ==
  ASSUME cancelled \in BOOLEAN, [TaskNext]_vars
  PROVE  (cancelled \in BOOLEAN)'
BY DEF TaskNext, ThreadStep, Begin, Semaphoring, Spurious, Enter, AskBypass, AskHit, AskMiss,
       Made, Unwinding, Exit, Leave, Raise, Rested, vars, taskvars

\* The semaphore, the caches and the threads that use them keep their types, a
\* list of bodies shrinking only from its front.
THEOREM TasksTypeCorrect == TaskSpec => []TaskTypeOK
<1> DEFINE Inv == ModeInv /\ AskInv /\ cancelled \in BOOLEAN
<1>1. SemInit /\ TaskInit /\ todo \in [Thread -> Seq(Task)] => Inv
  BY DEF SemInit, TaskInit, ModeInv, Working, State, AskInv
<1>2. Inv /\ [TaskNext]_vars => Inv'
  BY ModeStep, AskStep, CancelledStep
<1>3. Inv /\ SemInv /\ Shelved /\ CacheInv => TaskTypeOK
  <2> SUFFICES ASSUME Inv, SemInv, Shelved, CacheInv PROVE TaskTypeOK
    OBVIOUS
  <2>1. CacheTypeOK
    BY DEF Shelved, CacheInv, CacheTypeOK
  <2> QED BY <2>1 DEF ModeInv, AskInv, SemInv, Working, TaskTypeOK
<1> QED BY <1>1, <1>2, <1>3, SemaphoreUsed, SemaphoreInvariant, CachesUsed, CachesKept, PTL DEF TaskSpec
=============================================================================
