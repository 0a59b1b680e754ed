------------------------------ MODULE Limiter ------------------------------
(***************************************************************************)
(* What an ISemaphore promises: "limit the number of active threads in a   *)
(* code context" (util/inc/WireCellUtil/Semaphore.h:5).  It says nothing   *)
(* of who waits, of counters or of wake-ups.                               *)
(***************************************************************************)
EXTENDS FiniteSets, Integers

CONSTANTS
  Thread,
  Limit    \* "concurrency", at least 1 after Aux::Semaphore::configure()

VARIABLE inside   \* the threads between acquire() and release()

Free == inside = {}

Enter(t) == /\ t \notin inside
            /\ Cardinality(inside) < Limit
            /\ inside' = inside \cup {t}
Leave(t) == /\ t \in inside
            /\ inside' = inside \ {t}

LimiterNext == \E t \in Thread : Enter(t) \/ Leave(t)
LimiterSpec == Free /\ [][LimiterNext]_inside
=============================================================================
