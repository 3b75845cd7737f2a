------------------------------ MODULE Variants -------------------------------
(***************************************************************************)
(* Conversions (variant.h, function.h, server_gdbus.cpp): C++ values of a  *)
(* type, variants, and GVariants.  What is nested there is a labelled tree *)
(* here, a function from positions to labels, so that a conversion of      *)
(* everything is a map over positions:                                     *)
(*                                                                         *)
(*   type      label [k, n]       "int", "str" and "obj" (a shared_ptr)    *)
(*             stand for the twelve types that are not built from others,  *)
(*             "vec" and "tup" for std::vector and std::tuple; n is the    *)
(*             number of types each is built from                          *)
(*   value     of a type: a leaf, or how many elements there are           *)
(*   variant   label [alt, val]   the alternative that std::variant holds  *)
(*   g_type    label [code, n]    a GVariantType, the letter of D-Bus      *)
(*   GVariant  [type, val]        a g_type and a tree of labels [code,val] *)
(*                                                                         *)
(* A position in a type is the sequence of the parts on the way to it; in  *)
(* a value it also says, for each step, which element of a vector.         *)
(*                                                                         *)
(* Maps are left out: a function or property with one does not compile.    *)
(* Leaves are model values; an object is one by its address.               *)
(***************************************************************************)
EXTENDS Sequences, Naturals

CONSTANTS
  Number, String,
  CStr,              \* what is left of a string that is passed as c_str()
  Missing            \* no object for a path, no path for an object

ASSUME CStrAssumption == /\ CStr \in [String -> String]
                         /\ \A s \in String : CStr[CStr[s]] = CStr[s]

-----------------------------------------------------------------------------
(***************************************************************************)
(* Trees.  steps says of every position which steps lead on from it.       *)
(***************************************************************************)
Step == [elem : Nat, part : Nat]

IsTree(steps) ==
  DOMAIN steps =
    {<<>>} \cup UNION {{Append(p, s) : s \in steps[p]} : p \in DOMAIN steps}

\* The position in the type of a position in a value.
Place(p) == [n \in DOMAIN p |-> p[n].part]

\* The steps into n elements of a vector or n parts of a tuple.
Steps(code, n) ==
  CASE code = "a" -> [elem : 1 .. n, part : {1}]
    [] code = "r" -> [elem : {1}, part : 1 .. n]
    [] OTHER -> {}

-----------------------------------------------------------------------------
(***************************************************************************)
(* C++ types and values.                                                   *)
(***************************************************************************)
IsType(t) ==
  /\ \A tp \in DOMAIN t :
       /\ tp \in Seq(Nat)
       /\ \/ t[tp].k \in {"int", "str", "obj"} /\ t[tp].n = 0
          \/ t[tp].k = "vec" /\ t[tp].n = 1
          \/ t[tp].k = "tup" /\ t[tp].n \in Nat
  /\ IsTree([tp \in DOMAIN t |-> 1 .. t[tp].n])

\* make_variant_type with variant_type's constructors.
Code == [int |-> "i", str |-> "s", obj |-> "o", vec |-> "a", tup |-> "r"]

VariantType(t) ==
  [tp \in DOMAIN t |-> [code |-> Code[t[tp].k], n |-> t[tp].n]]

Contents(label, objs) ==
  CASE label.k = "int" -> Number
    [] label.k = "str" -> String
    [] label.k = "obj" -> objs
    [] label.k = "vec" -> Nat
    [] label.k = "tup" -> {label.n}

\* x is a value of type t whose objects are among objs.
IsValue(t, x, objs) ==
  /\ \A p \in DOMAIN x : /\ p \in Seq(Step)
                         /\ Place(p) \in DOMAIN t
                         /\ x[p] \in Contents(t[Place(p)], objs)
  /\ IsTree([p \in DOMAIN x |-> Steps(Code[t[Place(p)].k], x[p])])

\* The objects in a value.
ObjectsIn(t, x) == {x[p] : p \in {q \in DOMAIN x : t[Place(q)].k = "obj"}}

-----------------------------------------------------------------------------
(***************************************************************************)
(* Values and variants: to_variant, from_variant.                          *)
(***************************************************************************)
Alternative == [int |-> "int32", str |-> "string", obj |-> "object",
                vec |-> "vector", tup |-> "tuple"]

ToVariant(t, x) ==
  [p \in DOMAIN x |-> [alt |-> Alternative[t[Place(p)].k], val |-> x[p]]]

\* from_variant does not throw bad_variant_access.
FitsUnsized(t, v) ==                                               \* mutant
  \A p \in DOMAIN v : /\ Place(p) \in DOMAIN t
                      /\ v[p].alt = Alternative[t[Place(p)].k]

Fits(t, v) ==
  \A p \in DOMAIN v : /\ Place(p) \in DOMAIN t
                      /\ v[p].alt = Alternative[t[Place(p)].k]
                      /\ t[Place(p)].k = "tup" => v[p].val = t[Place(p)].n

FromVariant(v) == [p \in DOMAIN v |-> v[p].val]

-----------------------------------------------------------------------------
(***************************************************************************)
(* GVariants to variants: from_gvariant.  at[p] is the managed object that *)
(* is found for a path; Missing if there is none.                          *)
(***************************************************************************)
GContents(label, paths) ==
  CASE label.code = "i" -> Number
    [] label.code = "s" -> {CStr[s] : s \in String}
    [] label.code = "o" -> paths
    [] label.code = "a" -> Nat
    [] label.code = "r" -> {label.n}
    [] OTHER -> {0}

\* g is a GVariant that the bus can send.  A code without a meaning here stands
\* for any type that the library does not know.
IsGVariant(g, paths) ==
  /\ \A p \in DOMAIN g.val :
       /\ p \in Seq(Step)
       /\ Place(p) \in DOMAIN g.type
       /\ g.val[p].code = g.type[Place(p)].code
       /\ g.val[p].val \in GContents(g.type[Place(p)], paths)
  /\ IsTree([p \in DOMAIN g.val |-> Steps(g.val[p].code, g.val[p].val)])

HoldsTuples == [i |-> "int32", s |-> "string", o |-> "object",      \* mutant
                a |-> "tuple", r |-> "tuple"]

Holds == [i |-> "int32", s |-> "string", o |-> "object", a |-> "vector",
          r |-> "tuple"]

\* What from_gvariant throws for what is at one position; "" if nothing.
Failure(label, at) ==
  CASE label.code \notin DOMAIN Holds -> "invalid_argument"
    [] label.code = "o" /\ at[label.val] = Missing -> "out_of_range"
    [] OTHER -> ""

\* Children are converted in order: of two positions, the one it comes to first.
Before(p, q) ==
  \E n \in DOMAIN p \cap DOMAIN q :
    /\ \A i \in 1 .. n - 1 : p[i] = q[i]
    /\ \/ p[n].elem < q[n].elem
       \/ p[n].elem = q[n].elem /\ p[n].part < q[n].part

\* What from_gvariant throws, at the first child that fails; "" if nothing.
FromGThrows(g, at) ==
  LET failed == {p \in DOMAIN g.val : Failure(g.val[p], at) # ""}
      first == {p \in failed : \A q \in failed : ~Before(q, p)}
  IN IF failed = {} THEN ""
     ELSE IF \E p \in first : Failure(g.val[p], at) = "out_of_range"
       THEN "out_of_range" ELSE "invalid_argument"

FromG(g, at) ==
  [p \in DOMAIN g.val |->
     [alt |-> Holds[g.val[p].code],
      val |-> IF g.val[p].code = "o" THEN at[g.val[p].val] ELSE g.val[p].val]]

-----------------------------------------------------------------------------
(***************************************************************************)
(* Variants to GVariants: to_gvariant.  paths[a] is the path of an object; *)
(* Missing if there is none.                                               *)
(***************************************************************************)
ToGFails(v, paths) ==
  \E p \in DOMAIN v : v[p].alt = "object" /\ paths[v[p].val] = Missing

SentCode == [int32 |-> "i", string |-> "s", object |-> "o", vector |-> "a",
             tuple |-> "r"]

\* The first position in a value, if it is in one, for a position in the type.
Direct(tp) == [n \in DOMAIN tp |-> [elem |-> 1, part |-> tp[n]]]

\* On the way to tp is a vector.
InArray(v, tp) ==
  \E n \in 0 .. Len(tp) - 1 :
    LET p == SubSeq(Direct(tp), 1, n)
    IN p \in DOMAIN v /\ v[p].alt = "vector"

OwnLabel(label) ==
  [code |-> SentCode[label.alt],
   n |-> CASE label.alt = "vector" -> 1
           [] label.alt = "tuple" -> label.val
           [] OTHER -> 0]

\* The positions whose type is that of what is sent.
Own(v) == {tp \in {Place(p) : p \in DOMAIN v} : Direct(tp) \in DOMAIN v}

\* An array has the element type that was declared, also if it is empty; a tuple
\* has the types of what it contains.
SentTypeOfFirst(v, type) ==                                        \* mutant
  [tp \in Own(v) |-> OwnLabel(v[Direct(tp)])]

SentType(v, type) ==
  LET declared == {tp \in DOMAIN type : InArray(v, tp)}
      own == {tp \in Own(v) : ~InArray(v, tp)}
  IN [tp \in own \cup declared |->
        IF tp \in own THEN OwnLabel(v[Direct(tp)]) ELSE type[tp]]

ToG(v, type, paths) ==
  [type |-> SentType(v, type),
   val |-> [p \in DOMAIN v |->
              [code |-> SentCode[v[p].alt],
               val |-> CASE v[p].alt = "string" -> CStr[v[p].val]
                         [] v[p].alt = "object" -> paths[v[p].val]
                         [] OTHER -> v[p].val]]]

\* The GVariant g is the value x of type t, if `means' has the pairs of a path
\* and the object that it means: what conversions in both directions are for.
Denotes(t, x, g, means) ==
  /\ DOMAIN g.val = DOMAIN x
  /\ \A p \in DOMAIN x :
       LET label == t[Place(p)]
           sent == g.val[p].val
       IN /\ Place(p) \in DOMAIN t
          /\ g.val[p].code = Code[label.k]
          /\ CASE label.k = "str" -> sent = CStr[x[p]]
               [] label.k = "obj" -> <<sent, x[p]>> \in means
               [] label.k = "tup" -> sent = x[p] /\ x[p] = label.n
               [] OTHER -> sent = x[p]
=============================================================================
