------------------------------ MODULE MCManaged -----------------------------
(***************************************************************************)
(* Instance of Managed.                                                    *)
(***************************************************************************)
EXTENDS Managed, TLC

Symmetry == Permutations(Path) \cup Permutations(Object)
=============================================================================
