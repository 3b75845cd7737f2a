----------------------------- MODULE MCRegistry -----------------------------
(***************************************************************************)
(* Instance of Registry: nodes n1 and n2 have the same path, one after the *)
(* other; n3 has one of its own.  x1 and x3 have the same interface name.  *)
(***************************************************************************)
EXTENDS Registry, TLC

CONSTANTS n1, n2, n3, x1, x2, x3, p1, p2, i1, i2

MCNode == {n1, n2, n3}
MCPath == {p1, p2}
MCPathOf == n1 :> p1 @@ n2 :> p1 @@ n3 :> p2
MCIface == {x1, x2, x3}
MCIfName == {i1, i2}
MCNameOf == x1 :> i1 @@ x2 :> i2 @@ x3 :> i1

Symmetry == Permutations(Thread)
=============================================================================
