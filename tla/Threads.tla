------------------------------ MODULE Threads ------------------------------
(***************************************************************************)
(* The threads of the TBB engine, or of a test: finitely many.             *)
(***************************************************************************)
EXTENDS FiniteSets, Integers

CONSTANT Thread
ASSUME ThreadAssumption == IsFiniteSet(Thread)
=============================================================================
