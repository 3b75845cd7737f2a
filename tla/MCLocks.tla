------------------------------ MODULE MCLocks -------------------------------
(***************************************************************************)
(* Instance of Locks for TLC: the threads and MaxIfaces bound it.          *)
(***************************************************************************)
EXTENDS Locks, TLC

Symmetry == Permutations(Thread)
=============================================================================
