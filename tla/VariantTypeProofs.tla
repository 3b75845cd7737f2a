-------------------------- MODULE VariantTypeProofs --------------------------
(***************************************************************************)
(* Theorems about VariantType, for any number of objects and blocks and    *)
(* any types: nothing is freed twice or used after it was freed.           *)
(***************************************************************************)
EXTENDS VariantType, TLAPS

\* SoleOwner is inductive with the types.
IInv == TypeOK /\ SoleOwner

-----------------------------------------------------------------------------
\* Init establishes the invariant.
LEMMA IInvInit == Init => IInv
BY NoBlockAssumption, TypesAssumption
   DEF Init, IInv, TypeOK, SoleOwner, Gone, Held, Owns

\* The type of a readable object that is not null is a type.
LEMMA TypeAtType ==
  ASSUME IInv, NEW s \in Slot, data[s].kind \in {"owned", "borrowed"}
  PROVE  TypeAt(s) \in Type
BY DEF IInv, TypeOK, SoleOwner, TypeAt

\* What a composition leaves in a block is what was there or a type.
LEMMA ComposedType ==
  ASSUME NEW h \in [Block -> Type \cup {NoType}], NEW kind, NEW rs, NEW s,
         Composable(s, kind, rs), NEW b \in Block, NEW e \in Block
  PROVE  /\ Composed(h, kind, rs, b, e) \in [Block -> Type \cup {NoType}]
         /\ Composed(h, kind, rs, b, e)[b] \in Type
         /\ \A x \in Block \ {b} : \/ Composed(h, kind, rs, b, e)[x] \in Type
                                   \/ Composed(h, kind, rs, b, e)[x] = h[x]
<1> DEFINE c == Composition(kind, rs)
<1>1. Compose[c] \in Type
  BY TypesAssumption DEF Composable
<1> HIDE DEF c
<1>2. Composed(h, kind, rs, b, e) =
        [x \in Block |-> IF x = b THEN Compose[c]
                         ELSE IF kind = "map" /\ x = e THEN Entry ELSE h[x]]
  BY DEF Composed, c
<1> QED
  BY <1>1, <1>2, TypesAssumption

\* Every step preserves the types.
LEMMA TypeStep == ASSUME IInv, [Next]_vars PROVE TypeOK'
<1> USE NoBlockAssumption, TypesAssumption
    DEF IInv, TypeOK, SoleOwner, Held, Gone, Moved, Null, Own, Fresh
<1>1. ASSUME NEW s \in Slot, Default(s)
      PROVE  TypeOK'
  BY <1>1 DEF Default
<1>2. ASSUME NEW s \in Slot, NEW b \in Block, NEW v \in Basic,
             Primitive(s, b, v)
      PROVE  TypeOK'
  BY <1>2 DEF Primitive
<1>3. ASSUME NEW s \in Slot, NEW r \in Slot, NEW b \in Block, Copy(s, r, b)
      PROVE  TypeOK'
  BY <1>3, TypeAtType DEF Copy, Readable
<1>4. ASSUME NEW s \in Slot, NEW r \in Slot, MoveTo(s, r)
      PROVE  TypeOK'
  BY <1>4 DEF MoveTo, Left
<1>5. ASSUME NEW s \in Slot, NEW r \in Slot, NEW v \in Type, Borrow(s, r, v)
      PROVE  TypeOK'
  BY <1>5 DEF Borrow
<1>6. ASSUME NEW s \in Slot, Destroy(s)
      PROVE  TypeOK'
  BY <1>6 DEF Destroy, Freed, Lent, Owns, Borrows
<1>7. ASSUME NEW s \in Slot, NEW kind \in Kinds, NEW rs \in Lists,
             NEW b \in Block, NEW e \in Block, BuildFrom(s, kind, rs, b, e)
      PROVE  TypeOK'
  BY <1>7, ComposedType DEF BuildFrom, Room
<1>8. ASSUME NEW s \in Slot, NEW kind \in Kinds, NEW rs \in Lists,
             NEW b \in Block, NEW e \in Block, BuildOf(s, kind, rs, b, e)
      PROVE  TypeOK'
  <2>1. Freed(Parts(rs)) \in [Block -> Type \cup {NoType}]
    BY DEF Freed
  <2>2. heap' \in [Block -> Type \cup {NoType}]
    BY <1>8, <2>1, ComposedType DEF BuildOf
  <2>3. QED
    BY <1>8, <2>2 DEF BuildOf, Replaced
<1>9. ASSUME NEW s \in Slot, NEW r \in Slot, NEW b \in Block, Assign(s, r, b)
      PROVE  TypeOK'
  BY <1>9, TypeAtType DEF Assign
<1>10. ASSUME NEW s \in Slot, NEW r \in Slot, MoveAssign(s, r)
      PROVE  TypeOK'
  BY <1>10 DEF MoveAssign
<1>11. CASE UNCHANGED vars
  BY <1>11 DEF vars
<1> QED
  BY <1>1, <1>2, <1>3, <1>4, <1>5, <1>6, <1>7, <1>8, <1>9, <1>10, <1>11 DEF Next

\* Every step preserves that blocks have one owner and are there.
LEMMA OwnerStep == ASSUME IInv, [Next]_vars PROVE SoleOwner'
<1> USE NoBlockAssumption, TypesAssumption
    DEF IInv, TypeOK, SoleOwner, Held, Gone, Moved, Null, Own, Fresh, Owns
<1>1. ASSUME NEW s \in Slot, Default(s)
      PROVE  SoleOwner'
  BY <1>1 DEF Default
<1>2. ASSUME NEW s \in Slot, NEW b \in Block, NEW v \in Basic,
             Primitive(s, b, v)
      PROVE  SoleOwner'
  BY <1>2 DEF Primitive
<1>3. ASSUME NEW s \in Slot, NEW r \in Slot, NEW b \in Block, Copy(s, r, b)
      PROVE  SoleOwner'
  BY <1>3, TypeAtType DEF Copy, Readable
<1>4. ASSUME NEW s \in Slot, NEW r \in Slot, MoveTo(s, r)
      PROVE  SoleOwner'
  BY <1>4 DEF MoveTo, Left
<1>5. ASSUME NEW s \in Slot, NEW r \in Slot, NEW v \in Type, Borrow(s, r, v)
      PROVE  SoleOwner'
  BY <1>5 DEF Borrow
<1>6. ASSUME NEW s \in Slot, Destroy(s)
      PROVE  SoleOwner'
  BY <1>6 DEF Destroy, Freed, Lent, Owns, Borrows
<1>7. ASSUME NEW s \in Slot, NEW kind \in Kinds, NEW rs \in Lists,
             NEW b \in Block, NEW e \in Block, BuildFrom(s, kind, rs, b, e)
      PROVE  SoleOwner'
  <2>1. Composable(s, kind, rs) /\ heap' = Composed(heap, kind, rs, b, e)
    BY <1>7 DEF BuildFrom
  <2>2. heap'[b] \in Type
        /\ \A x \in Block \ {b} : heap'[x] \in Type \/ heap'[x] = heap[x]
    BY <2>1, ComposedType
  <2>3. heap[b] = NoType /\ data' = [data EXCEPT ![s] = Own(b)]
    BY <1>7 DEF BuildFrom, Room
  <2>4. QED
    BY <2>2, <2>3
<1>8. ASSUME NEW s \in Slot, NEW kind \in Kinds, NEW rs \in Lists,
             NEW b \in Block, NEW e \in Block, BuildOf(s, kind, rs, b, e)
      PROVE  SoleOwner'
  <2>1. Freed(Parts(rs)) \in [Block -> Type \cup {NoType}]
    BY DEF Freed
  <2>2. Composable(s, kind, rs)
        /\ heap' = Composed(Freed(Parts(rs)), kind, rs, b, e)
    BY <1>8 DEF BuildOf
  <2>3. heap'[b] \in Type
        /\ \A x \in Block \ {b} : \/ heap'[x] \in Type
                                  \/ heap'[x] = Freed(Parts(rs))[x]
    BY <2>1, <2>2, ComposedType
  <2>4. \A x \in Block \ {b} :
          (heap[x] # NoType /\ \A r \in Parts(rs) : ~Owns(r, x)) => heap'[x] # NoType
    BY <2>3 DEF Freed
  <2>5. heap[b] = NoType /\ s \notin Parts(rs)
    BY <1>8 DEF BuildOf, Room, Composable
  <2>6. Parts(rs) \subseteq Slot
    BY DEF Parts, Lists
  <2>7. \A r \in Slot : \/ r = s /\ data'[r] = Own(b)
                        \/ r \in Parts(rs) /\ data'[r] \in {Gone, Null}
                        \/ r \notin Parts(rs) /\ r # s /\ data'[r] = data[r]
    BY <1>8, <2>5 DEF BuildOf, Replaced
  <2>8. \A r \in Slot, q \in Parts(rs), x \in Block :
          r \notin Parts(rs) /\ r # s /\ data[r].ptr = x /\
          data[r].kind \in {"owned", "borrowed"} => ~Owns(q, x)
    BY <1>8, <2>6 DEF BuildOf, Lent, Borrows
  <2>9. QED
    BY <2>3, <2>4, <2>5, <2>7, <2>8
<1>9. ASSUME NEW s \in Slot, NEW r \in Slot, NEW b \in Block, Assign(s, r, b)
      PROVE  SoleOwner'
  BY <1>9, TypeAtType DEF Assign
<1>10. ASSUME NEW s \in Slot, NEW r \in Slot, MoveAssign(s, r)
      PROVE  SoleOwner'
  BY <1>10 DEF MoveAssign
<1>11. CASE UNCHANGED vars
  BY <1>11 DEF vars
<1> QED
  BY <1>1, <1>2, <1>3, <1>4, <1>5, <1>6, <1>7, <1>8, <1>9, <1>10, <1>11 DEF Next

\* The invariant holds in every reachable state.
LEMMA Invariance == Spec => []IInv
<1>1. IInv /\ [Next]_vars => IInv'
  BY TypeStep, OwnerStep DEF IInv
<1>2. QED
  BY <1>1, IInvInit, PTL DEF Spec

-----------------------------------------------------------------------------
\* The any of an object has a pointer exactly if it has a type.
THEOREM TypeCorrect == Spec => []TypeOK
<1>1. IInv => TypeOK
  BY DEF IInv
<1>2. QED
  BY <1>1, Invariance, PTL

\* No block has two owners, which would both free it, and no object points to
\* a block that has been freed.
THEOREM OneOwner == Spec => []SoleOwner
<1>1. IInv => SoleOwner
  BY DEF IInv
<1>2. QED
  BY <1>1, Invariance, PTL

-----------------------------------------------------------------------------
\* What an object stands for, by the kind of its any.
LEMMA Standing ==
  ASSUME IInv
  PROVE  /\ Val = [s \in Slot |-> StandsFor(s)]
         /\ \A s \in Slot :
              /\ data[s].kind = "gone" <=> data[s] = Gone
              /\ data[s].kind = "moved" <=> data[s] = Moved
              /\ data[s].kind = "null" <=> data[s] = Null
              /\ data[s] = Gone => Val[s] = "gone"
              /\ data[s] = Moved => Val[s] = "moved"
              /\ data[s] = Null => Val[s] = "null"
              /\ data[s].kind \in {"owned", "borrowed"} =>
                   Val[s] = TypeAt(s) /\ TypeAt(s) \in Type
              /\ data[s] # Gone => Val[s] # "gone"
<1>1. Val = [s \in Slot |-> StandsFor(s)]
  BY DEF Val
<1>2. \A s \in Slot : data[s].kind \in {"owned", "borrowed"} => TypeAt(s) \in Type
  BY TypeAtType
<1>3. QED
  BY <1>1, <1>2, NamesAssumption
     DEF IInv, TypeOK, StandsFor, Gone, Moved, Null, Held

\* An object is not affected by what is done to other objects and other blocks.
LEMMA Unaffected ==
  ASSUME NEW s \in Slot, data'[s] = data[s],
         data[s].kind = "owned" => heap'[data[s].ptr] = heap[data[s].ptr]
  PROVE  StandsFor(s)' = StandsFor(s)
BY DEF StandsFor, TypeAt, Gone, Moved, Null, Held

\* An object that was given a block stands for what is in it.
LEMMA Given ==
  ASSUME NEW s \in Slot, NEW b \in Block, data'[s] = Own(b)
  PROVE  StandsFor(s)' = heap'[b]
BY DEF StandsFor, TypeAt, Gone, Moved, Null, Own, Held

\* Filling a block that is free affects no object.
LEMMA FreshUnaffected ==
  ASSUME IInv, NEW b \in Block, Fresh(b), NEW s \in Slot,
         data[s].kind = "owned"
  PROVE  data[s].ptr # b
BY DEF IInv, SoleOwner, Fresh

\* What is in the blocks that a composition did not fill.
LEMMA ComposedElsewhere ==
  ASSUME NEW h, NEW kind, NEW rs, NEW b, NEW e, NEW x \in Block, x # b,
         kind = "map" => x # e
  PROVE  Composed(h, kind, rs, b, e)[x] = h[x]
BY DEF Composed

\* The parts of a composition are what the objects stand for.
LEMMA CompositionParts ==
  ASSUME IInv, NEW s \in Slot, NEW kind, NEW rs \in Lists,
         Composable(s, kind, rs)
  PROVE  LET c == Composition(kind, rs) IN
         /\ c \in DOMAIN Compose
         /\ Parts(rs) \subseteq Slot
         /\ {c[2][i] : i \in DOMAIN c[2]} = {Val[r] : r \in Parts(rs)}
         /\ \A i \in DOMAIN c[2] : \E r \in Slot : Val[r] = c[2][i]
<1> DEFINE types == [i \in DOMAIN rs |-> TypeAt(rs[i])]
<1>1. \A i \in DOMAIN rs : rs[i] \in Slot
  BY DEF Lists
<1>2. \A i \in DOMAIN rs : TypeAt(rs[i]) = Val[rs[i]]
  BY <1>1, Standing DEF Composable, Parts
<1>3. Composition(kind, rs)[2] = types
  BY DEF Composition
<1>4. \A i \in DOMAIN rs : types[i] = Val[rs[i]]
  BY <1>2
<1>5. {types[i] : i \in DOMAIN types} = {Val[r] : r \in Parts(rs)}
  BY <1>4 DEF Parts
<1>6. \A i \in DOMAIN types : \E r \in Slot : Val[r] = types[i]
  BY <1>1, <1>4
<1> HIDE DEF types
<1>7. QED
  BY <1>1, <1>3, <1>5, <1>6 DEF Parts, Composable

\* Every step is a step of TypeValue, or none.
LEMMA ValueStep == ASSUME IInv, [Next]_vars PROVE [Value!Next]_Val
<1> USE Standing
<1>1. ASSUME NEW s \in Slot,
             Default(s)
      PROVE  Value!Next
  <2>1. data[s] = Gone /\ data' = [data EXCEPT ![s] = Null] /\ heap' = heap
    BY <1>1 DEF Default
  <2>2. \A r \in Slot \ {s} : StandsFor(r)' = StandsFor(r)
    BY <2>1, Unaffected DEF IInv, TypeOK
  <2>3. StandsFor(s)' = "null"
    BY <2>1 DEF StandsFor, Gone, Moved, Null, Held, IInv, TypeOK
  <2>4. Val' = [Val EXCEPT ![s] = "null"]
    BY <2>2, <2>3 DEF Val
  <2> QED
    BY <2>1, <2>4 DEF Value!Next, Value!Make, Value!Is
<1>2. ASSUME NEW s \in Slot, NEW b \in Block, NEW v \in Basic,
             Primitive(s, b, v)
      PROVE  Value!Next
  <2>1. /\ data[s] = Gone /\ Fresh(b)
        /\ data' = [data EXCEPT ![s] = Own(b)] /\ heap' = [heap EXCEPT ![b] = v]
    BY <1>2 DEF Primitive
  <2>2. \A r \in Slot \ {s} : StandsFor(r)' = StandsFor(r)
    BY <2>1, Unaffected, FreshUnaffected DEF IInv, TypeOK
  <2>3. StandsFor(s)' = v
    BY <2>1, Given DEF IInv, TypeOK
  <2>4. Val' = [Val EXCEPT ![s] = v]
    BY <2>2, <2>3 DEF Val
  <2> QED
    BY <2>1, <2>4 DEF Value!Next, Value!Make, Value!Is
<1>3. ASSUME NEW s \in Slot, NEW r \in Slot, NEW b \in Block,
             Copy(s, r, b)
      PROVE  Value!Next
  <2>1. /\ data[s] = Gone /\ Readable(r)
        /\ data' = [data EXCEPT ![s] = IF data[r] = Null THEN Null ELSE Own(b)]
    BY <1>3 DEF Copy
  <2>2. \A q \in Slot \ {s} : StandsFor(q)' = StandsFor(q)
    BY <1>3, Unaffected, FreshUnaffected DEF Copy, IInv, TypeOK
  <2>3. StandsFor(s)' = Val[r]
    <3>1. CASE data[r] = Null
      BY <2>1, <3>1 DEF StandsFor, Gone, Moved, Null, Held, IInv, TypeOK
    <3>2. CASE data[r] # Null
      <4>1. data[r].kind \in {"owned", "borrowed"}
        BY <2>1, <3>2 DEF Readable
      <4>2. heap' = [heap EXCEPT ![b] = TypeAt(r)]
        BY <1>3, <3>2 DEF Copy
      <4>3. StandsFor(s)' = heap'[b]
        BY <2>1, <3>2, Given DEF IInv, TypeOK
      <4> QED
        BY <4>1, <4>2, <4>3 DEF IInv, TypeOK
    <3> QED
      BY <3>1, <3>2
  <2>4. Val' = [Val EXCEPT ![s] = Val[r]] /\ Val[r] \in Type \cup {"null"}
    <3>1. Val[r] \in Type \cup {"null"}
      BY <2>1 DEF Readable
    <3> QED
      BY <2>2, <2>3, <3>1 DEF Val
  <2> QED
    BY <2>1, <2>4 DEF Value!Next, Value!Make, Value!Is
<1>4. ASSUME NEW s \in Slot, NEW r \in Slot,
             MoveTo(s, r)
      PROVE  Value!Next
  <2>1. /\ data[s] = Gone /\ data[r] # Gone /\ heap' = heap
        /\ data' = [data EXCEPT ![s] = data[r], ![r] = Moved]
    BY <1>4 DEF MoveTo, Left
  <2>2. \A q \in Slot \ {s, r} : StandsFor(q)' = StandsFor(q)
    BY <2>1, Unaffected DEF IInv, TypeOK
  <2>3. StandsFor(s)' = StandsFor(r)
    BY <2>1 DEF StandsFor, TypeAt, IInv, TypeOK
  <2>4. StandsFor(r)' = "moved"
    BY <2>1 DEF StandsFor, Gone, Moved, Null, Held, IInv, TypeOK
  <2>5. Val' = [Val EXCEPT ![s] = Val[r], ![r] = "moved"]
    BY <2>1, <2>2, <2>3, <2>4 DEF Val
  <2> QED
    BY <2>1, <2>5 DEF Value!Next, Value!Move
<1>5. ASSUME NEW s \in Slot, NEW r \in Slot, NEW v \in Type,
             Borrow(s, r, v)
      PROVE  Value!Next
  <2>1. /\ data[s] = Gone /\ heap' = heap
        /\ data[r].kind \in {"owned", "borrowed"}
        /\ data' = [data EXCEPT ![s] = Held("borrowed", data[r].ptr, v)]
    BY <1>5 DEF Borrow
  <2>2. \A q \in Slot \ {s} : StandsFor(q)' = StandsFor(q)
    BY <2>1, Unaffected DEF IInv, TypeOK
  <2>3. StandsFor(s)' = v
    BY <2>1 DEF StandsFor, TypeAt, Gone, Moved, Null, Held, IInv, TypeOK
  <2>4. Val' = [Val EXCEPT ![s] = v]
    BY <2>2, <2>3 DEF Val
  <2>5. PICK c \in DOMAIN Compose :
          Compose[c] = TypeAt(r) /\ \E i \in DOMAIN c[2] : c[2][i] = v
    BY <1>5 DEF Borrow
  <2>6. \E d \in Value!Around(v) : Compose[d] = Val[r]
    BY <2>1, <2>5 DEF Value!Around
  <2>7. Value!Make(s)
    BY <2>1, <2>4, <2>6 DEF Value!Make, Value!Is
  <2> QED
    BY <2>7 DEF Value!Next
<1>6. ASSUME NEW s \in Slot,
             Destroy(s)
      PROVE  Value!Next
  <2>1. /\ data[s] # Gone /\ data' = [data EXCEPT ![s] = Gone]
        /\ heap' = Freed({s})
    BY <1>6 DEF Destroy
  <2>2. \A q \in Slot \ {s} : StandsFor(q)' = StandsFor(q)
    <3> SUFFICES ASSUME NEW q \in Slot \ {s} PROVE StandsFor(q)' = StandsFor(q)
      OBVIOUS
    <3>1. data[q].kind = "owned" => heap'[data[q].ptr] = heap[data[q].ptr]
      BY <2>1 DEF Freed, IInv, TypeOK, SoleOwner, Owns
    <3> QED
      BY <2>1, <3>1, Unaffected DEF IInv, TypeOK
  <2>3. StandsFor(s)' = "gone"
    BY <2>1 DEF StandsFor, Gone, Moved, Null, Held, IInv, TypeOK
  <2>4. Val' = [Val EXCEPT ![s] = "gone"]
    BY <2>2, <2>3 DEF Val
  <2> QED
    BY <2>1, <2>4 DEF Value!Next, Value!Destroy
<1>7. ASSUME NEW s \in Slot, NEW kind \in Kinds, NEW rs \in Lists,
             NEW b \in Block, NEW e \in Block,
             BuildFrom(s, kind, rs, b, e)
      PROVE  Value!Next
  <2> DEFINE c == Composition(kind, rs)
  <2>1. /\ data[s] = Gone /\ Composable(s, kind, rs) /\ Room(kind, b, e)
        /\ data' = [data EXCEPT ![s] = Own(b)]
        /\ heap' = Composed(heap, kind, rs, b, e)
    BY <1>7 DEF BuildFrom, Composable
  <2>2. \A q \in Slot \ {s} : StandsFor(q)' = StandsFor(q)
    <3> SUFFICES ASSUME NEW q \in Slot \ {s} PROVE StandsFor(q)' = StandsFor(q)
      OBVIOUS
    <3>1. data[q].kind = "owned" => heap'[data[q].ptr] = heap[data[q].ptr]
      BY <2>1, ComposedElsewhere, FreshUnaffected DEF Room, IInv, TypeOK
    <3> QED
      BY <2>1, <3>1, Unaffected DEF IInv, TypeOK
  <2>3. StandsFor(s)' = Compose[c]
    BY <2>1, Given DEF Composed, IInv, TypeOK
  <2>4. Val' = [Val EXCEPT ![s] = Compose[c]]
    BY <2>2, <2>3 DEF Val
  <2>5. c \in DOMAIN Compose
        /\ \A i \in DOMAIN c[2] : \E r \in Slot : Val[r] = c[2][i]
    BY <2>1, CompositionParts
  <2> HIDE DEF c
  <2>6. Value!Make(s)
    BY <2>1, <2>4, <2>5 DEF Value!Make, Value!Is
  <2> QED
    BY <2>6 DEF Value!Next
<1>8. ASSUME NEW s \in Slot, NEW kind \in Kinds, NEW rs \in Lists,
             NEW b \in Block, NEW e \in Block,
             BuildOf(s, kind, rs, b, e)
      PROVE  Value!Next
  <2> DEFINE c == Composition(kind, rs)
             rest == IF kind = "tuple" THEN "gone" ELSE "null"
  <2>1. /\ data[s] = Gone /\ Composable(s, kind, rs) /\ Room(kind, b, e)
        /\ heap' = Composed(Freed(Parts(rs)), kind, rs, b, e)
    BY <1>8 DEF BuildOf, Composable
  <2>2. s \notin Parts(rs) /\ Parts(rs) \subseteq Slot
    BY <2>1, CompositionParts DEF Composable, Gone, Held
  <2>3. \A r \in Slot :
          /\ r = s => data'[r] = Own(b)
          /\ r # s /\ r \notin Parts(rs) => data'[r] = data[r]
          /\ r \in Parts(rs) => data'[r] = IF kind = "tuple" THEN Gone ELSE Null
    BY <1>8, <2>2 DEF BuildOf, Replaced
  <2>4. ASSUME NEW q \in Slot \ {s}, q \notin Parts(rs)
        PROVE  StandsFor(q)' = StandsFor(q)
    <3>1. data[q].kind = "owned" =>
            heap'[data[q].ptr] = Freed(Parts(rs))[data[q].ptr]
      BY <2>1, ComposedElsewhere, FreshUnaffected DEF Room, IInv, TypeOK, Freed
    <3>2. data[q].kind = "owned" =>
            Freed(Parts(rs))[data[q].ptr] = heap[data[q].ptr]
      BY <2>2, <2>4 DEF Freed, IInv, TypeOK, SoleOwner, Owns
    <3> QED
      BY <2>3, <2>4, <3>1, <3>2, Unaffected
  <2>5. StandsFor(s)' = Compose[c]
    BY <2>1, <2>3, Given DEF Composed, IInv, TypeOK
  <2>6. \A r \in Parts(rs) : StandsFor(r)' = rest
    BY <2>2, <2>3 DEF StandsFor, Gone, Moved, Null, Held
  <2>7. Val' = [r \in Slot |-> IF r = s THEN Compose[c]
                               ELSE IF r \in Parts(rs) THEN rest ELSE Val[r]]
    BY <2>4, <2>5, <2>6 DEF Val
  <2>8. c \in DOMAIN Compose
        /\ {c[2][i] : i \in DOMAIN c[2]} = {Val[r] : r \in Parts(rs)}
    BY <2>1, CompositionParts
  <2> HIDE DEF c
  <2>9. Value!MakeOf(s, Parts(rs), rest)
    BY <2>1, <2>2, <2>7, <2>8 DEF Value!MakeOf
  <2> QED
    BY <2>2, <2>9 DEF Value!Next
<1>9. ASSUME NEW s \in Slot, NEW r \in Slot, NEW b \in Block,
             Assign(s, r, b)
      PROVE  Value!Next
  <2>1. /\ data[s] # Gone /\ data[r].kind \in {"owned", "borrowed"} /\ Fresh(b)
        /\ data' = [data EXCEPT ![s] = Own(b)]
        /\ heap' = [heap EXCEPT ![b] = TypeAt(r)]
    BY <1>9 DEF Assign
  <2>2. \A q \in Slot \ {s} : StandsFor(q)' = StandsFor(q)
    BY <2>1, Unaffected, FreshUnaffected DEF IInv, TypeOK
  <2>3. StandsFor(s)' = Val[r]
    BY <2>1, Given DEF IInv, TypeOK
  <2>4. Val' = [Val EXCEPT ![s] = Val[r]]
    BY <2>2, <2>3 DEF Val
  <2> QED
    BY <2>1, <2>4 DEF Value!Next, Value!Assign
<1>10. ASSUME NEW s \in Slot, NEW r \in Slot,
             MoveAssign(s, r)
      PROVE  Value!Next
  <2>1. /\ s # r /\ data[s] # Gone /\ data[r] # Gone /\ heap' = heap
        /\ data' = [data EXCEPT ![s] = data[r], ![r] = data[s]]
    BY <1>10 DEF MoveAssign
  <2>2. \A q \in Slot \ {s, r} : StandsFor(q)' = StandsFor(q)
    BY <2>1, Unaffected DEF IInv, TypeOK
  <2>3. StandsFor(s)' = StandsFor(r) /\ StandsFor(r)' = StandsFor(s)
    BY <2>1 DEF StandsFor, TypeAt, IInv, TypeOK
  <2>4. Val' = [Val EXCEPT ![s] = Val[r], ![r] = Val[s]]
    <3>1. \A q \in Slot : Val'[q] = IF q = r THEN Val[s]
                                    ELSE IF q = s THEN Val[r] ELSE Val[q]
      BY <2>1, <2>2, <2>3 DEF Val
    <3> QED
      BY <2>1, <3>1 DEF Val
  <2> QED
    BY <2>1, <2>4 DEF Value!Next, Value!MoveAssign
<1>11. CASE UNCHANGED vars
  BY <1>11 DEF vars, Val, StandsFor, TypeAt
<1> QED
  BY <1>1, <1>2, <1>3, <1>4, <1>5, <1>6, <1>7, <1>8, <1>9, <1>10, <1>11
     DEF Next

\* Each object is a value of its own: whatever is done to other objects, what it
\* stands for stays.
THEOREM ValueSemantics == Spec => Values
<1>1. Init => Value!Init
  <2> SUFFICES ASSUME Init PROVE \A s \in Slot : StandsFor(s) = "gone"
    BY DEF Value!Init, Val
  <2> QED
    BY DEF Init, StandsFor, Gone, Moved, Null, Held
<1>2. Spec => Value!Spec
  BY <1>1, ValueStep, Invariance, PTL DEF Spec, Value!Spec
<1>3. QED
  BY <1>2 DEF Values

\* Steps that lose nothing: all but those that LossesKnown names.
LEMMA LossStep ==
  ASSUME IInv, [Next]_vars, Lost' # Lost
  PROVE  \/ \E s, r \in Slot, b \in Block :
              data[s].kind = "owned" /\ Assign(s, r, b)
         \/ \E s \in Slot, rs \in Lists, b, e \in Block :
              BuildFrom(s, "map", rs, b, e) \/ BuildOf(s, "map", rs, b, e)
<1> USE NoBlockAssumption, TypesAssumption
    DEF IInv, TypeOK, SoleOwner, Lost, Owns, Fresh, Gone, Moved, Null, Own, Held
<1>1. ASSUME NEW s \in Slot,
             Default(s)
      PROVE  Lost' = Lost
  BY <1>1 DEF Default
<1>2. ASSUME NEW s \in Slot, NEW b \in Block, NEW v \in Basic,
             Primitive(s, b, v)
      PROVE  Lost' = Lost
  BY <1>2 DEF Primitive
<1>3. ASSUME NEW s \in Slot, NEW r \in Slot, NEW b \in Block,
             Copy(s, r, b)
      PROVE  Lost' = Lost
  BY <1>3, TypeAtType DEF Copy, Readable
<1>4. ASSUME NEW s \in Slot, NEW r \in Slot,
             MoveTo(s, r)
      PROVE  Lost' = Lost
  BY <1>4 DEF MoveTo, Left
<1>5. ASSUME NEW s \in Slot, NEW r \in Slot, NEW v \in Type,
             Borrow(s, r, v)
      PROVE  Lost' = Lost
  BY <1>5 DEF Borrow
<1>6. ASSUME NEW s \in Slot,
             Destroy(s)
      PROVE  Lost' = Lost
  BY <1>6 DEF Destroy, Freed
<1>7. ASSUME NEW s \in Slot, NEW kind \in Kinds, NEW rs \in Lists,
             NEW b \in Block, NEW e \in Block,
             BuildFrom(s, kind, rs, b, e),
             kind # "map"
      PROVE  Lost' = Lost
  <2>1. /\ data[s] = Gone /\ data' = [data EXCEPT ![s] = Own(b)]
        /\ Fresh(b) /\ heap' = Composed(heap, kind, rs, b, e)
        /\ Composable(s, kind, rs)
    BY <1>7 DEF BuildFrom, Composable, Room
  <2>2. \A x \in Block \ {b} : heap'[x] = heap[x]
    BY <1>7, <2>1, ComposedElsewhere
  <2>3. heap'[b] \in Type
    BY <2>1, ComposedType
  <2> QED
    BY <2>1, <2>2, <2>3
<1>8. ASSUME NEW s \in Slot, NEW kind \in Kinds, NEW rs \in Lists,
             NEW b \in Block, NEW e \in Block,
             BuildOf(s, kind, rs, b, e),
             kind # "map"
      PROVE  Lost' = Lost
  <2>1. /\ Fresh(b) /\ heap' = Composed(Freed(Parts(rs)), kind, rs, b, e)
        /\ Composable(s, kind, rs) /\ data[s] = Gone
    BY <1>8 DEF BuildOf, Composable, Room
  <2>2. Freed(Parts(rs)) \in [Block -> Type \cup {NoType}]
    BY DEF Freed
  <2>3. \A x \in Block \ {b} : heap'[x] = Freed(Parts(rs))[x]
    BY <1>8, <2>1, ComposedElsewhere
  <2>4. heap'[b] \in Type
    BY <2>1, <2>2, ComposedType
  <2>5. s \notin Parts(rs) /\ Parts(rs) \subseteq Slot
    BY <2>1, CompositionParts DEF Composable
  <2>6. \A r \in Slot :
          /\ r = s => data'[r] = Own(b)
          /\ r # s /\ r \notin Parts(rs) => data'[r] = data[r]
          /\ r \in Parts(rs) => data'[r] \in {Gone, Null}
    BY <1>8, <2>5 DEF BuildOf, Replaced
  <2>7. \A x \in Block \ {b} :
          \/ /\ \E r \in Parts(rs) : Owns(r, x)
             /\ heap'[x] = NoType
          \/ /\ \A r \in Parts(rs) : ~Owns(r, x)
             /\ heap'[x] = heap[x]
    BY <2>3 DEF Freed
  <2>8. \A x \in Block \ {b}, r \in Slot :
          Owns(r, x)' <=> Owns(r, x) /\ r \notin Parts(rs)
    BY <2>1, <2>6
  <2>9. \A x \in Block \ {b} : x \in Lost' <=> x \in Lost
    BY <2>5, <2>7, <2>8
  <2>10. b \notin Lost /\ b \notin Lost'
    BY <2>1, <2>6
  <2> QED
    BY <2>9, <2>10
<1>9. ASSUME NEW s \in Slot, NEW r \in Slot, NEW b \in Block,
             Assign(s, r, b),
             data[s].kind # "owned"
      PROVE  Lost' = Lost
  BY <1>9, TypeAtType DEF Assign
<1>10. ASSUME NEW s \in Slot, NEW r \in Slot,
             MoveAssign(s, r)
      PROVE  Lost' = Lost
  BY <1>10 DEF MoveAssign
<1>11. CASE UNCHANGED vars
  BY <1>11 DEF vars
<1> HIDE DEF IInv, TypeOK, SoleOwner, Lost
<1>12. CASE \E s \in Slot, kind \in Kinds, rs \in Lists, b, e \in Block :
              BuildFrom(s, kind, rs, b, e) \/ BuildOf(s, kind, rs, b, e)
  BY <1>7, <1>8, <1>12
<1>13. CASE \E s, r \in Slot, b \in Block : Assign(s, r, b)
  BY <1>9, <1>13
<1> QED
  BY <1>1, <1>2, <1>3, <1>4, <1>5, <1>6, <1>10, <1>11, <1>12, <1>13 DEF Next

\* Memory is lost by copy assignment to an object that owns a type, and by
\* map(), and by nothing else.
THEOREM OnlyKnownLosses == Spec => LossesKnown
<1>1. IInv /\ [Next]_vars =>
        [Lost' # Lost =>
           \/ \E s, r \in Slot, b \in Block :
                data[s].kind = "owned" /\ Assign(s, r, b)
           \/ \E s \in Slot, rs \in Lists, b, e \in Block :
                BuildFrom(s, "map", rs, b, e) \/ BuildOf(s, "map", rs, b, e)]_vars
  BY LossStep
<1>2. QED
  BY <1>1, Invariance, PTL DEF Spec, LossesKnown
=============================================================================
