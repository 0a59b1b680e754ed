---------------------------- MODULE MCTorchTasks ----------------------------
(***************************************************************************)
(* Two ways to use caches, chosen in the first state: four threads running *)
(* bodies that share a semaphore of two places, two deconvolution kernels  *)
(* and the response kernel that both need; and two threads that call one   *)
(* cache directly, any operation in any order, as                          *)
(* util/test/doctest_threadsafecache.cxx does.                             *)
(***************************************************************************)
EXTENDS TorchTasks

CONSTANTS t1, t2, t3, t4, d1, d2, r, x, y, MaxOps
MCThread == {t1, t2, t3, t4}
MCNeeds == [c \in Cache |-> IF c = r THEN NoKernel ELSE r]

VARIABLE ops   \* calls the clients may still make; 0 when threads run bodies
MCvars == <<vars, ops>>

\* Bodies <<context, kernel, key>>.  Threads share contexts and kernels; in the
\* first case one thread runs bodies one after another and one asks the response
\* kernel itself, in the second more threads wait than there are places.
Busy == [t \in MCThread |-> CASE t = t1 -> << <<x, d1, 1>>, <<x, d1, 2>> >>
                              [] t = t2 -> << <<y, d2, 1>> >>
                              [] t = t3 -> << <<x, r, 1>> >>
                              [] t = t4 -> <<>>]
Crowded == [t \in MCThread |-> CASE t = t1 -> << <<x, d1, 1>> >>
                                 [] t = t2 -> << <<y, d2, 1>> >>
                                 [] t = t3 -> << <<x, d1, 2>> >>
                                 [] t = t4 -> << <<y, d2, 2>> >>]

TasksInit == todo \in {Busy, Crowded} /\ ops = 0 /\ CacheInit({0, 1}) /\ capacity[d1] = capacity[d2]
ClientsInit == /\ todo = [t \in Thread |-> <<>>]
               /\ ops = MaxOps
               /\ CacheInit({1, 2}) /\ \A c \in Cache : capacity[c] = capacity[r]

MCInit == SemInit /\ TaskInit /\ (TasksInit \/ ClientsInit)

\* A client calls the one cache r.
Client(t) == /\ ops > 0
             /\ CacheCall(t, {r}, {0, 1, 2})
             /\ ops' = ops - 1
             /\ UNCHANGED <<semvars, taskvars>>
MCNext == \/ TaskNext /\ UNCHANGED ops
          \/ \E t \in {t1, t2} : Client(t)
MCSpec == MCInit /\ [][MCNext]_MCvars /\ TaskFairness

\* AllDone, of the threads that run bodies: every thread comes to the end of its
\* work with neither the semaphore nor the lock of a cache.
BodiesDone == ops = 0 => AllDone
=============================================================================
