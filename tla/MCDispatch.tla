----------------------------- MODULE MCDispatch -----------------------------
(***************************************************************************)
(* Instance of Dispatch.  Function f takes a number and a list of strings  *)
(* and returns nothing; g returns a list of objects; h takes a tuple and   *)
(* returns an object and a string.  The bus also sends other types, one of *)
(* which the library does not know.                                        *)
(***************************************************************************)
EXTENDS Dispatch, TLC

CONSTANTS f, g, h, q1, q2, q3, s1, one, hello, nul, a1,
          MaxLen             \* bound on the length of vectors

ASSUME MaxLenAssumption == MaxLen \in Nat

\* The tree with a label at its root, and sub[s] one step s below.
Node(label, sub) ==
  [p \in {<<>>} \cup UNION {{<<s>> \o q : q \in DOMAIN sub[s]} : s \in DOMAIN sub}
     |-> IF p = <<>> THEN label ELSE sub[Head(p)][Tail(p)]]

Below(tree, s) ==
  [p \in {Tail(q) : q \in {r \in DOMAIN tree : r # <<>> /\ Head(r) = s}} |->
     tree[<<s>> \o p]]

IntType == Node([k |-> "int", n |-> 0], <<>>)
StrType == Node([k |-> "str", n |-> 0], <<>>)
ObjType == Node([k |-> "obj", n |-> 0], <<>>)
Vec(t) == Node([k |-> "vec", n |-> 1], <<t>>)
Tup(ts) == Node([k |-> "tup", n |-> Len(ts)], ts)

\* All trees of a g_type with these leaves, and vectors up to MaxLen.
RECURSIVE Trees(_, _)
Trees(type, leaves) ==
  LET code == type[<<>>].code
      parts == [i \in 1 .. type[<<>>].n |-> Trees(Below(type, i), leaves)]
      Lists(n) == {sub \in [Steps(code, n) -> UNION {parts[i] : i \in DOMAIN parts}] :
                     \A s \in DOMAIN sub : sub[s] \in parts[s.part]}
      counts == IF code = "a" THEN 0 .. MaxLen ELSE {type[<<>>].n}
  IN IF code \in {"a", "r"}
       THEN UNION {{Node([code |-> code, val |-> n], sub) : sub \in Lists(n)} :
                     n \in counts}
       ELSE {Node([code |-> code, val |-> x], <<>>) : x \in leaves[code]}

Values(t) ==
  {[p \in DOMAIN y |-> y[p].val] :
     y \in Trees(VariantType(t), [i |-> Number, s |-> String, o |-> Nullable])}

GVariants(types) ==
  UNION {{[type |-> type, val |-> y] :
            y \in Trees(type, [i |-> Number, s |-> {CStr[s] : s \in String},
                               o |-> Path, v |-> {0}])} : type \in types}

-----------------------------------------------------------------------------
MCMethod == {f, g, h}
MCArgs == f :> Tup(<<IntType, Vec(StrType)>>) @@ g :> Tup(<<>>)
          @@ h :> Tup(<<Tup(<<IntType, StrType>>)>>)
MCResult == f :> Tup(<<>>) @@ g :> Tup(<<Vec(ObjType)>>)
            @@ h :> Tup(<<ObjType, StrType>>)
MCResults == [m \in MCMethod |-> Values(MCResult[m])]

\* q1 is an ordinary property, q2 has no permissions, q3 is a constant that says
\* it can be set.
MCProp == {q1, q2, q3}
MCPropType == q1 :> Vec(IntType) @@ q2 :> IntType @@ q3 :> ObjType
Just(x) == Node(x, <<>>)
MCFirst == q1 :> Node(1, [elem |-> 1, part |-> 1] :> Just(one))
           @@ q2 :> Just(one) @@ q3 :> Just(NoObject)

MCSignal == {s1}
MCSignalArgs == s1 :> Tup(<<Vec(ObjType), IntType>>)
MCEmitted ==
  UNION {{[type |-> t, val |-> x] : x \in Values(t)} :
           t \in {Tup(<<Vec(ObjType), IntType>>),
                  Tup(<<Vec(IntType), IntType>>), Tup(<<IntType>>)}}

\* nul is hello, a zero byte and something else.
MCCStr == hello :> hello @@ nul :> hello

\* The g_type v is one that the library does not know.
Unknown == Node([code |-> "v", n |-> 0], <<>>)
MCSentArgs ==
  GVariants({VariantType(Tup(<<>>)),
             VariantType(Tup(<<IntType, Vec(StrType)>>)),
             VariantType(Tup(<<Tup(<<IntType, StrType>>)>>)),
             VariantType(Tup(<<Tup(<<IntType>>)>>)),
             Node([code |-> "r", n |-> 2], <<VariantType(ObjType), Unknown>>)})
MCSentValues ==
  GVariants({VariantType(IntType), VariantType(Vec(IntType)),
             VariantType(ObjType), Unknown})

Symmetry == Permutations(Path)
=============================================================================
