---------------------------- MODULE MCVariantType -----------------------------
(***************************************************************************)
(* One basic type that typeid can ask for, and types of every composition: *)
(* of one that has parts, of equal parts, of none.                         *)
(***************************************************************************)
EXTENDS VariantType, TLC

BasicTypes == {"i"}
Types == {"i", "ai", "{ii}", "a{ii}", "(i)", "()"}
Compositions ==
     <<"vector", <<"i">>>>    :> "ai"
  @@ <<"map", <<"i", "i">>>>  :> "a{ii}"
  @@ <<"tuple", <<"i">>>>     :> "(i)"
  @@ <<"tuple", <<>>>>        :> "()"

Symmetric == Permutations(Slot) \cup Permutations(Block)
==============================================================================
