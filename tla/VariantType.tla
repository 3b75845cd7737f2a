---------------------------- MODULE VariantType ------------------------------
(***************************************************************************)
(* Who frees what: variant_type (common_gdbus.cpp) holds a GVariantType,   *)
(* which GLib allocates, in a std::any, and whether it owns it shows only  *)
(* in the pointer type the any has: GVariantType* is freed by the          *)
(* destructor, const GVariantType* points into a type that another object  *)
(* owns.  A moved-from object has an empty any.                            *)
(*                                                                         *)
(* An operator marked "mutant" is a wrong variant of the one after it,     *)
(* kept to show that a property notices the difference.                    *)
(***************************************************************************)
EXTENDS Naturals, Sequences

CONSTANTS
  Slot,              \* variant_type objects
  Block,             \* memory of GVariantTypes
  Type, Basic,       \* types, and those typeid can ask for
  Compose,           \* the type of each composition <<kind, parts>>, kind
                     \* "vector", "map" or "tuple"
  Entry,             \* the type of a dictionary entry
  NoBlock, NoType

ASSUME TypesAssumption ==
  /\ Basic \subseteq Type /\ Entry \in Type /\ NoType \notin Type
  /\ DOMAIN Compose \subseteq {"vector", "map", "tuple"} \X Seq(Type)
  /\ \A c \in DOMAIN Compose : Compose[c] \in Type
ASSUME NamesAssumption == Type \cap {"gone", "moved", "null"} = {}
ASSUME NoBlockAssumption == NoBlock \notin Block

VARIABLES
  data,    \* the std::any of each object: its kind, the pointer, and the part
           \* of the type there that is meant (of a borrowed one)
  heap     \* what is in each block, NoType if it is free

vars == <<data, heap>>

-----------------------------------------------------------------------------
Held(kind, b, v) == [kind |-> kind, ptr |-> b, part |-> v]
Gone == Held("gone", NoBlock, NoType)      \* no object
Moved == Held("moved", NoBlock, NoType)    \* an empty any
Null == Held("null", NoBlock, NoType)      \* a GVariantType* that is nullptr
Own(b) == Held("owned", b, NoType)         \* GVariantType*

Owns(s, b) == data[s].kind = "owned" /\ data[s].ptr = b
Borrows(s, b) == data[s].kind = "borrowed" /\ data[s].ptr = b

TypeOK ==
  /\ heap \in [Block -> Type \cup {NoType}]
  /\ data \in [Slot -> [kind : {"gone", "moved", "null", "owned", "borrowed"},
                        ptr : Block \cup {NoBlock}, part : Type \cup {NoType}]]
  /\ \A s \in Slot :
       /\ data[s].ptr \in Block <=> data[s].kind \in {"owned", "borrowed"}
       /\ data[s].part \in Type <=> data[s].kind = "borrowed"

Init ==
  /\ data = [s \in Slot |-> Gone]
  /\ heap = [b \in Block |-> NoType]

\* const_g_type: the type an object stands for, NoType if none.
TypeAt(s) ==
  CASE data[s].kind = "owned" -> heap[data[s].ptr]
    [] data[s].kind = "borrowed" -> data[s].part
    [] OTHER -> NoType

\* const_g_type of an empty any throws; such an object is not read.
Readable(s) == data[s].kind \in {"null", "owned", "borrowed"}

Fresh(b) == heap[b] = NoType

\* g_variant_type_free of what is in the objects of S.  That nothing borrowed
\* from them is left is up to who borrows: the borrowed types in to_gvariant
\* are local variables, and parts of its parameter.
Lent(S) ==
  \E r \in S, q \in Slot \ S, b \in Block : Owns(r, b) /\ Borrows(q, b)
FreedNot(S) == heap                                                \* mutant
Freed(S) ==
  [b \in Block |-> IF \E r \in S : Owns(r, b) THEN NoType ELSE heap[b]]

-----------------------------------------------------------------------------
(***************************************************************************)
(* Constructors and the destructor.                                        *)
(***************************************************************************)
Default(s) ==
  /\ data[s] = Gone
  /\ data' = [data EXCEPT ![s] = Null]
  /\ UNCHANGED heap

Primitive(s, b, v) ==
  /\ data[s] = Gone /\ Fresh(b)
  /\ data' = [data EXCEPT ![s] = Own(b)]
  /\ heap' = [heap EXCEPT ![b] = v]

\* The copy constructor copies the type, borrowed or not; null stays null.
CopyShares(s, r, b) ==                                             \* mutant
  /\ data[s] = Gone /\ Readable(r) /\ Fresh(b)
  /\ data' = [data EXCEPT ![s] = data[r]]
  /\ UNCHANGED heap

Copy(s, r, b) ==
  /\ data[s] = Gone /\ Readable(r) /\ Fresh(b)
  /\ data' = [data EXCEPT ![s] = IF data[r] = Null THEN Null ELSE Own(b)]
  /\ heap' = IF data[r] = Null THEN heap ELSE [heap EXCEPT ![b] = TypeAt(r)]

\* The move constructor moves the std::any.
LeftAsIs(s) == data[s]                                             \* mutant
Left(s) == Moved

MoveTo(s, r) ==
  /\ data[s] = Gone /\ data[r] # Gone
  /\ data' = [data EXCEPT ![s] = data[r], ![r] = Left(r)]
  /\ UNCHANGED heap

\* from_internal of a pointer to a part of the type of r.
Borrow(s, r, v) ==
  /\ data[s] = Gone
  /\ data[r].kind \in {"owned", "borrowed"}
  /\ \E c \in DOMAIN Compose : /\ Compose[c] = TypeAt(r)
                               /\ \E i \in DOMAIN c[2] : c[2][i] = v
  /\ data' = [data EXCEPT ![s] = Held("borrowed", data[r].ptr, v)]
  /\ UNCHANGED heap

Destroy(s) ==
  /\ data[s] # Gone
  /\ ~Lent({s})
  /\ data' = [data EXCEPT ![s] = Gone]
  /\ heap' = Freed({s})

-----------------------------------------------------------------------------
(***************************************************************************)
(* vector(), map() and tuple(), from objects rs that have types.           *)
(***************************************************************************)
Parts(rs) == {rs[i] : i \in DOMAIN rs}

Composition(kind, rs) == <<kind, [i \in DOMAIN rs |-> TypeAt(rs[i])]>>

Composable(s, kind, rs) ==
  /\ data[s] = Gone
  /\ \A r \in Parts(rs) : data[r].kind \in {"owned", "borrowed"}
  /\ Composition(kind, rs) \in DOMAIN Compose

\* Where g_variant_type_new_... puts its results: for a map there is also the
\* dictionary entry, in e, which nobody frees.
Room(kind, b, e) ==
  Fresh(b) /\ IF kind = "map" THEN Fresh(e) /\ b # e ELSE b = e

Composed(h, kind, rs, b, e) ==
  [x \in Block |-> IF x = b THEN Compose[Composition(kind, rs)]
                   ELSE IF kind = "map" /\ x = e THEN Entry ELSE h[x]]

BuildFrom(s, kind, rs, b, e) ==
  /\ Composable(s, kind, rs)
  /\ Room(kind, b, e)
  /\ data' = [data EXCEPT ![s] = Own(b)]
  /\ heap' = Composed(heap, kind, rs, b, e)

\* The versions for rvalues: the parts are replaced by default objects, those
\* of a tuple go with the std::vector they are in.
NullKeptPointer(s) == [data[s] EXCEPT !.kind = "null"]             \* mutant
Replaced(s) == Null

BuildOf(s, kind, rs, b, e) ==
  /\ Composable(s, kind, rs)
  /\ \A i, j \in DOMAIN rs : rs[i] = rs[j] => i = j
  /\ ~Lent(Parts(rs))
  /\ Room(kind, b, e)
  /\ data' = [r \in Slot |-> IF r = s THEN Own(b)
                             ELSE IF r \notin Parts(rs) THEN data[r]
                             ELSE IF kind = "tuple" THEN Gone ELSE Replaced(r)]
  /\ heap' = Composed(Freed(Parts(rs)), kind, rs, b, e)

-----------------------------------------------------------------------------
(***************************************************************************)
(* Assignments; of an object to itself they do nothing.                    *)
(***************************************************************************)

\* operator=(const variant_type&) replaces the pointer and frees nothing; an
\* object without a type is ignored.
Assign(s, r, b) ==
  /\ s # r
  /\ data[s] # Gone /\ data[r].kind \in {"owned", "borrowed"} /\ Fresh(b)
  /\ data' = [data EXCEPT ![s] = Own(b)]
  /\ heap' = [heap EXCEPT ![b] = TypeAt(r)]

\* operator=(variant_type&&) swaps.
MoveAssign(s, r) ==
  /\ s # r
  /\ data[s] # Gone /\ data[r] # Gone
  /\ data' = [data EXCEPT ![s] = data[r], ![r] = data[s]]
  /\ UNCHANGED heap

-----------------------------------------------------------------------------
Kinds == {"vector", "map", "tuple"}
Lists == UNION {[1 .. n -> Slot] : n \in 0 .. 2}

Next ==
  \/ \E s \in Slot : Default(s) \/ Destroy(s)
  \/ \E s \in Slot, b \in Block, v \in Basic : Primitive(s, b, v)
  \/ \E s, r \in Slot, b \in Block : Copy(s, r, b) \/ Assign(s, r, b)
  \/ \E s, r \in Slot : MoveTo(s, r) \/ MoveAssign(s, r)
  \/ \E s, r \in Slot, v \in Type : Borrow(s, r, v)
  \/ \E s \in Slot, kind \in Kinds, rs \in Lists, b, e \in Block :
       BuildFrom(s, kind, rs, b, e) \/ BuildOf(s, kind, rs, b, e)

Spec == Init /\ [][Next]_vars

-----------------------------------------------------------------------------
(***************************************************************************)
(* Properties.                                                             *)
(***************************************************************************)

\* Nothing is freed twice or used after it was freed: what an object points to,
\* its own or borrowed, is there, and no two objects own the same block,
\* however they are copied, moved, assigned and built from each other.
SoleOwner ==
  \A s \in Slot :
    /\ data[s].kind \in {"owned", "borrowed"} => heap[data[s].ptr] # NoType
    /\ \A r \in Slot, b \in Block : Owns(s, b) /\ Owns(r, b) => s = r

\* Blocks that nobody will free.
Lost == {b \in Block : heap[b] # NoType /\ \A s \in Slot : ~Owns(s, b)}

\* There are two ways to lose memory and no more: copy assignment to an object
\* that owns a type, and the dictionary entry of map().
LossesKnown ==
  [][Lost' # Lost =>
       \/ \E s, r \in Slot, b \in Block :
            data[s].kind = "owned" /\ Assign(s, r, b)
       \/ \E s \in Slot, rs \in Lists, b, e \in Block :
            BuildFrom(s, "map", rs, b, e) \/ BuildOf(s, "map", rs, b, e)]_vars

StandsFor(s) ==
  CASE data[s] = Gone -> "gone"
    [] data[s] = Moved -> "moved"
    [] data[s] = Null -> "null"
    [] OTHER -> TypeAt(s)

Val == [s \in Slot |-> StandsFor(s)]

Value == INSTANCE TypeValue
           WITH val <- Val, Gone <- "gone", Null <- "null", Moved <- "moved"

\* Each object behaves as a value of its own (see TypeValue for what that
\* means): no operation on one object changes what another one stands for.
Values == Value!Spec
=============================================================================
