----------------------------- MODULE TorchTasks -----------------------------
(***************************************************************************)
(* Nodes that use a torch device, run by the threads of the TBB engine: a  *)
(* TorchSemaphore around the body (spng/src/TorchContext.cxx), inside of   *)
(* which the body asks a kernel for a spectrum.  Kernels are services that *)
(* nodes share; each has a cache and, to compute a missing value, may ask  *)
(* another kernel while its own cache is locked (DeconKernel.cxx,          *)
(* ResponseKernel.cxx).                                                    *)
(***************************************************************************)
EXTENDS FastSemaphore, ThreadSafeCache

CONSTANTS
  Context,   \* TorchContexts, all with the same semaphore
  Needs,     \* Needs[c], the kernel that kernel c asks, or NoKernel
  NoKernel
ASSUME KernelAssumption == NoKernel \notin Cache /\ Needs \in [Cache -> Cache \cup {NoKernel}]

Kernel == Cache
Task == Context \X Kernel \X Key

VARIABLES
  todo,    \* todo[t], the bodies thread t is to run, the current one first
  phase,   \* phase[t], where it is in the current one
  want,    \* want[t], the kernel it asks next
  grad,    \* grad[t], torch's GradMode, thread local
  agm,     \* agm[x], the member m_agm of context x
  cancelled  \* an exception has left a body

taskvars == <<todo, phase, want, grad, agm, cancelled>>
vars == <<semvars, cachevars, taskvars>>

TaskTypeOK ==
  /\ SemTypeOK /\ CacheTypeOK
  /\ todo \in [Thread -> Seq(Task)]
  /\ phase \in [Thread -> {"idle", "ask", "made", "raise", "leave"}]
  /\ want \in [Thread -> Kernel \cup {NoKernel}]
  /\ grad \in [Thread -> BOOLEAN] /\ agm \in [Context -> BOOLEAN]
  /\ cancelled \in BOOLEAN

TaskInit ==
  /\ phase = [t \in Thread |-> "idle"]
  /\ want = [t \in Thread |-> NoKernel]
  /\ grad = [t \in Thread |-> TRUE]
  /\ agm = [x \in Context |-> FALSE]
  /\ cancelled = FALSE

Ctx(t) == Head(todo[t])[1]
TheKey(t) == Head(todo[t])[3]
Step(t, p) == phase' = [phase EXCEPT ![t] = p]

-----------------------------------------------------------------------------
\* A body is called and takes the semaphore.
Begin(t) ==
  /\ todo[t] # <<>> /\ ~cancelled
  /\ FetchSub(t)
  /\ UNCHANGED <<cachevars, taskvars>>

\* The steps of the semaphore that follow.
Semaphoring(t) ==
  /\ Acquiring(t) \/ Releasing(t)
  /\ UNCHANGED <<cachevars, taskvars>>
Spurious(t) == SpuriousWake(t) /\ UNCHANGED <<cachevars, taskvars>>

\* Mutation: the mode is switched off before it is remembered.
EnterLate(t) ==
  /\ at[t] = "in" /\ phase[t] = "idle"
  /\ agm' = [agm EXCEPT ![Ctx(t)] = FALSE]
  /\ grad' = [grad EXCEPT ![t] = FALSE]
  /\ Step(t, "ask") /\ want' = [want EXCEPT ![t] = Head(todo[t])[2]]
  /\ UNCHANGED <<semvars, cachevars, todo, cancelled>>

\* TorchContext::enter(), what follows acquire().
Enter(t) ==
  /\ at[t] = "in" /\ phase[t] = "idle"
  /\ agm' = [agm EXCEPT ![Ctx(t)] = grad[t]]
  /\ grad' = [grad EXCEPT ![t] = FALSE]
  /\ Step(t, "ask") /\ want' = [want EXCEPT ![t] = Head(todo[t])[2]]
  /\ UNCHANGED <<semvars, cachevars, todo, cancelled>>

\* After kernel c has begun to compute: the next kernel is asked, if any.
Compute(t, c) ==
  /\ Step(t, IF Needs[c] = NoKernel THEN "made" ELSE "ask")
  /\ want' = [want EXCEPT ![t] = Needs[c]]

\* spectrum() of a kernel without a cache.
AskBypass(t) ==
  /\ phase[t] = "ask" /\ capacity[want[t]] = 0
  /\ Compute(t, want[t])
  /\ UNCHANGED <<semvars, cachevars, todo, grad, agm, cancelled>>

\* spectrum(): get_or_compute() finds the key,
AskHit(t) ==
  /\ phase[t] = "ask" /\ capacity[want[t]] # 0
  /\ Hit(want[t], TheKey(t))
  /\ Step(t, "made") /\ want' = [want EXCEPT ![t] = NoKernel]
  /\ UNCHANGED <<semvars, todo, grad, agm, cancelled>>

\* or calls make_spectrum() with the cache locked.
AskMiss(t) ==
  /\ phase[t] = "ask" /\ capacity[want[t]] # 0
  /\ LockMissing(t, want[t], TheKey(t))
  /\ Compute(t, want[t])
  /\ UNCHANGED <<semvars, todo, grad, agm, cancelled>>

\* make_spectrum() returns to the innermost get_or_compute().
Made(t) ==
  /\ phase[t] = "made"
  /\ PutAndRelease(t)
  /\ UNCHANGED <<semvars, taskvars>>

\* A computation raises, in make_spectrum() or in the body itself.
Raise(t) ==
  /\ phase[t] = "made"
  /\ Step(t, "raise")
  /\ UNCHANGED <<semvars, cachevars, todo, want, grad, agm, cancelled>>
Unwinding(t) ==
  /\ phase[t] = "raise"
  /\ Unwind(t)
  /\ UNCHANGED <<semvars, taskvars>>

\* Mutation: exit() is called at the end of the body, which an exception skips.
ExitReturning(t) ==
  /\ phase[t] = "made" /\ making[t] = <<>>
  /\ grad' = [grad EXCEPT ![t] = agm[Ctx(t)]]
  /\ Step(t, "leave")
  /\ UNCHANGED <<semvars, cachevars, todo, want, agm, cancelled>>

\* The body has ended, one way or the other, and ~TorchSemaphore() calls
\* TorchContext::exit(): first the mode,
Exit(t) ==
  /\ phase[t] \in {"made", "raise"} /\ making[t] = <<>>
  /\ grad' = [grad EXCEPT ![t] = agm[Ctx(t)]]
  /\ Step(t, "leave")
  /\ cancelled' = (cancelled \/ phase[t] = "raise")
  /\ UNCHANGED <<semvars, cachevars, todo, want, agm>>

\* then release().
Leave(t) ==
  /\ phase[t] = "leave"
  /\ FetchAdd(t)
  /\ Step(t, "idle") /\ todo' = [todo EXCEPT ![t] = Tail(@)]
  /\ UNCHANGED <<cachevars, want, grad, agm, cancelled>>

ThreadStep(t) ==
  \/ Begin(t) \/ Semaphoring(t) \/ Enter(t)
  \/ AskBypass(t) \/ AskHit(t) \/ AskMiss(t)
  \/ Made(t) \/ Unwinding(t) \/ Exit(t) \/ Leave(t)

AtRest(t) == at[t] = "out" /\ (todo[t] = <<>> \/ cancelled)
Rested == (\A t \in Thread : AtRest(t)) /\ UNCHANGED vars

TaskNext == (\E t \in Thread : ThreadStep(t) \/ Spurious(t) \/ Raise(t)) \/ Rested

\* Each thread goes on when it can; spurious wake-ups and exceptions happen or
\* do not.
TaskFairness == \A t \in Thread : WF_vars(ThreadStep(t))

\* Any bodies on any threads, with caches of any capacity.
TaskSpec == /\ SemInit /\ TaskInit /\ CacheInit(Nat)
            /\ todo \in [Thread -> Seq(Task)]
            /\ [][TaskNext]_vars /\ TaskFairness

-----------------------------------------------------------------------------
(* Properties.                                                             *)

\* A thread that runs a body does so with autograd off, and has it on again
\* when it has left, although the mode to go back to is kept in a member that
\* all threads in the same context write.
GradRestored ==
  \A t \in Thread : /\ phase[t] \in {"ask", "made", "raise"} => ~grad[t]
                    /\ at[t] = "out" => grad[t]

\* Every thread comes to the end of its work with nothing held: the semaphore
\* and the locks taken inside of one another never make threads wait for one
\* another, also when a computation raises.
AllDone == <>[](\A t \in Thread : AtRest(t) /\ making[t] = <<>>)
=============================================================================
