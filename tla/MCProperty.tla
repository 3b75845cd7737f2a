----------------------------- MODULE MCProperty -----------------------------
(***************************************************************************)
(* Instance of Property: q1 and r1 share a cell (r1 is the copy in the     *)
(* table of an interface, which the bus may set), q2 has one of its own.   *)
(***************************************************************************)
EXTENDS Property, TLC

CONSTANTS q1, r1, q2, c1, c2

MCCellOf == q1 :> c1 @@ r1 :> c1 @@ q2 :> c2
=============================================================================
