--------------------------- MODULE FastSemaphore ---------------------------
(***************************************************************************)
(* FastSemaphore of util/inc/WireCellUtil/Semaphore.h, behind the          *)
(* component aux/src/Semaphore.cxx.  An atomic counts free places, below   *)
(* zero the threads that go the slow way: to an inner Semaphore made of a  *)
(* counter, a mutex and a condition variable.  One action is one access to *)
(* shared memory, or one critical section of the mutex.                    *)
(*                                                                         *)
(*   at[t]     the thread is                                               *)
(*   "out"     not using the semaphore                                     *)
(*   "slow"    in m_semaphore.acquire(), about to test m_count != 0        *)
(*   "asleep"  in m_cv.wait()                                              *)
(*   "in"      past acquire()                                              *)
(*   "post"    in release(), about to call m_semaphore.release()           *)
(*   "notify"  past the critical section of it, before notify_one()        *)
(***************************************************************************)
EXTENDS Threads

CONSTANT Limit   \* "concurrency", made at least 1 by Aux::Semaphore::configure()
ASSUME LimitAssumption == Limit \in Nat \ {0}

VARIABLES
  count,   \* FastSemaphore::m_count
  inner,   \* Semaphore::m_count of m_semaphore
  at

semvars == <<count, inner, at>>

At(s) == {t \in Thread : at[t] = s}
Goto(t, s) == at' = [at EXCEPT ![t] = s]

SemTypeOK ==
  /\ count \in Int
  /\ inner \in Nat
  /\ at \in [Thread -> {"out", "slow", "asleep", "in", "post", "notify"}]

\* Aux::Semaphore::configure() has set the count; the inner one begins at 0.
SemInit == /\ count = Limit
           /\ inner = 0
           /\ at = [t \in Thread |-> "out"]

-----------------------------------------------------------------------------
\* Mutation: one thread too many passes.
FetchSubLate(t) ==
  /\ at[t] = "out"
  /\ count' = count - 1
  /\ Goto(t, IF count < 0 THEN "slow" ELSE "in")
  /\ UNCHANGED inner

\* acquire(): m_count.fetch_sub(1), and what its old value decides.
FetchSub(t) ==
  /\ at[t] = "out"
  /\ count' = count - 1
  /\ Goto(t, IF count < 1 THEN "slow" ELSE "in")
  /\ UNCHANGED inner

\* Mutation: a thread that was woken does not test the predicate again.
InnerAcquireBlindly(t) ==
  /\ at[t] = "slow"
  /\ inner' = inner - 1
  /\ Goto(t, "in")
  /\ UNCHANGED count

\* m_semaphore.acquire(): the predicate holds and the thread goes on.
InnerAcquire(t) ==
  /\ at[t] = "slow" /\ inner # 0
  /\ inner' = inner - 1
  /\ Goto(t, "in")
  /\ UNCHANGED count

\* It does not hold: m_cv.wait() unlocks and sleeps in one.
InnerWait(t) ==
  /\ at[t] = "slow" /\ inner = 0
  /\ Goto(t, "asleep")
  /\ UNCHANGED <<count, inner>>

\* A condition variable may wake without being notified.
SpuriousWake(t) ==
  /\ at[t] = "asleep"
  /\ Goto(t, "slow")
  /\ UNCHANGED <<count, inner>>

\* release(): m_count.fetch_add(1), and what its old value decides.
FetchAdd(t) ==
  /\ at[t] = "in"
  /\ count' = count + 1
  /\ Goto(t, IF count < 0 THEN "post" ELSE "out")
  /\ UNCHANGED inner

\* Mutation: the count is raised and nobody is told.
InnerReleaseSilently(t) ==
  /\ at[t] = "post"
  /\ inner' = inner + 1
  /\ Goto(t, "out")
  /\ UNCHANGED count

\* m_semaphore.release(): its critical section.
InnerRelease(t) ==
  /\ at[t] = "post"
  /\ inner' = inner + 1
  /\ Goto(t, "notify")
  /\ UNCHANGED count

\* notify_one() outside of the mutex: one sleeping thread, if there is one.
NotifyOne(t) ==
  /\ at[t] = "notify"
  /\ IF At("asleep") = {}
     THEN Goto(t, "out")
     ELSE \E s \in At("asleep") : at' = [at EXCEPT ![t] = "out", ![s] = "slow"]
  /\ UNCHANGED <<count, inner>>

Acquiring(t) == InnerAcquire(t) \/ InnerWait(t)
Releasing(t) == InnerRelease(t) \/ NotifyOne(t)

SemStep(t) == \/ FetchSub(t) \/ Acquiring(t) \/ SpuriousWake(t)
              \/ FetchAdd(t) \/ Releasing(t)
SemNext == \E t \in Thread : SemStep(t)
SemSpec == SemInit /\ [][SemNext]_semvars

-----------------------------------------------------------------------------
(* Properties.                                                             *)

HowMany(s) == Cardinality(At(s))
Waiting == HowMany("slow") + HowMany("asleep")

\* The counters account for every thread: the atomic for those inside or
\* waiting, the inner one, with those about to raise it, for waiting threads
\* that have been let in and have not noticed.
Accounting ==
  /\ count = Limit - HowMany("in") - Waiting
  /\ Waiting = inner + HowMany("post") + (IF count < 0 THEN -count ELSE 0)

\* No wake-up is lost, although the notification is sent outside of the mutex
\* and other threads may take the place meanwhile: while a thread sleeps, each
\* unit of the inner count has a thread awake to take it, or a notification
\* under way.
NoLostWakeup ==
  At("asleep") # {} => inner <= HowMany("slow") + HowMany("notify")

\* The semaphore implements what it promises: never more than Limit threads
\* between acquire() and release(), whatever way they take.
Limits == INSTANCE Limiter WITH inside <- At("in")
ImplementsLimiter == Limits!LimiterSpec
=============================================================================
