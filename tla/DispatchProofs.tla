---------------------------- MODULE DispatchProofs ----------------------------
(***************************************************************************)
(* Theorems about Managed, Variants and Dispatch, for any number of        *)
(* threads, nodes and objects, for all types and values, and for whatever  *)
(* the bus sends and the program returns or emits:                         *)
(*                                                                         *)
(*   - the object of a node that has told the server about it is looked up *)
(*     as that node's path;                                                *)
(*   - conversions in both directions lose nothing;                        *)
(*   - calls are answered once and truthfully, properties are set exactly. *)
(***************************************************************************)
EXTENDS Dispatch, WellFoundedInduction, SequenceTheorems, TLAPS

-----------------------------------------------------------------------------
(***************************************************************************)
(* Managed objects.                                                        *)
(***************************************************************************)

\* The history knows of every node that manages an object.
ClaimsKnown ==
  \A p \in Path : managing[p] # NoObject => p \in claims[managing[p]]

\* A node whose server is about to be told is live, manages what the server
\* will be told, and counts as not settled until then; no other thread is about
\* to tell of it.
PendingKnown ==
  \A t \in Thread :
    pend[t].path # NoPath =>
      /\ life[pend[t].path] = "live"
      /\ managing[pend[t].path] = pend[t].obj
      /\ pend[t].path \notin settled
      /\ \A u \in Thread : pend[u].path = pend[t].path => u = t

SettledExist == \A p \in settled : life[p] # "none"

ManagedInv ==
  /\ ManagedTypeOK
  /\ ClaimsKnown
  /\ PendingKnown
  /\ SettledExist
  /\ ManagedResolves

-----------------------------------------------------------------------------
\* Init establishes the invariant.
LEMMA ManagedInvInit == ManagedInit => ManagedInv
BY NoneAssumption
   DEF ManagedInit, ManagedInv, ManagedTypeOK, Pending, Nothing, ClaimsKnown,
       PendingKnown, SettledExist, ManagedResolves, Settled

\* Every step preserves the types: the addresses nodes refer to are those of
\* objects that are there.
LEMMA ManagedTypeStep ==
  ManagedTypeOK /\ [ManagedNext]_managedVars => ManagedTypeOK'
<1> SUFFICES ASSUME ManagedTypeOK, [ManagedNext]_managedVars
             PROVE  ManagedTypeOK'
  OBVIOUS
<1> USE NoneAssumption DEF ManagedTypeOK, Pending, Nothing, nodeVars
<1>1. ASSUME NEW p \in Path, CreateNode(p)
      PROVE  ManagedTypeOK'
  BY <1>1 DEF CreateNode
<1>2. ASSUME NEW p \in Path, AddServer(p)
      PROVE  ManagedTypeOK'
  BY <1>2 DEF AddServer
<1>3. ASSUME NEW p \in Path, Expire(p)
      PROVE  ManagedTypeOK'
  BY <1>3 DEF Expire
<1>4. ASSUME NEW p \in Path, FinishDestroy(p)
      PROVE  ManagedTypeOK'
  BY <1>4 DEF FinishDestroy
<1>5. ASSUME NEW t \in Thread, NEW p \in Path,
             NEW a \in Object \cup {NoObject}, ManageBegin(t, p, a)
      PROVE  ManagedTypeOK'
  BY <1>5 DEF ManageBegin
<1>6. ASSUME NEW a \in Object, ObjectDies(a)
      PROVE  ManagedTypeOK'
  BY <1>6 DEF ObjectDies
<1>7. ASSUME NEW a \in Object, ObjectIsBorn(a)
      PROVE  ManagedTypeOK'
  BY <1>7 DEF ObjectIsBorn
<1>8. ASSUME NEW p \in Path, FirstInterface(p)
      PROVE  ManagedTypeOK'
  BY <1>8 DEF FirstInterface
<1>9. ASSUME NEW p \in Path, LastInterface(p)
      PROVE  ManagedTypeOK'
  BY <1>9 DEF LastInterface, ForgetLive
<1>10. ASSUME NEW t \in Thread, ManageEnd(t)
      PROVE  ManagedTypeOK'
  BY <1>10 DEF ManageEnd, PathGiven
<1>11. CASE UNCHANGED managedVars
  BY <1>11 DEF managedVars
<1> QED
  BY <1>1, <1>2, <1>3, <1>4, <1>5, <1>6, <1>7, <1>8, <1>9, <1>10, <1>11
     DEF ManagedNext, Unlocked, Locked

\* Every step preserves what is known of claims and of calls under way.
LEMMA KnownStep ==
  ASSUME ManagedTypeOK, ClaimsKnown, PendingKnown, SettledExist,
         [ManagedNext]_managedVars
  PROVE  (ClaimsKnown /\ PendingKnown /\ SettledExist)'
<1> USE NoneAssumption
    DEF ManagedTypeOK, Pending, Nothing, nodeVars, ClaimsKnown, PendingKnown,
        SettledExist, Unused
<1>1. ASSUME NEW p \in Path, CreateNode(p)
      PROVE  (ClaimsKnown /\ PendingKnown /\ SettledExist)'
  BY <1>1 DEF CreateNode
<1>2. ASSUME NEW p \in Path, AddServer(p)
      PROVE  (ClaimsKnown /\ PendingKnown /\ SettledExist)'
  BY <1>2 DEF AddServer
<1>3. ASSUME NEW p \in Path, Expire(p)
      PROVE  (ClaimsKnown /\ PendingKnown /\ SettledExist)'
  BY <1>3 DEF Expire
<1>4. ASSUME NEW p \in Path, FinishDestroy(p)
      PROVE  (ClaimsKnown /\ PendingKnown /\ SettledExist)'
  BY <1>4 DEF FinishDestroy
<1>5. ASSUME NEW t \in Thread, NEW p \in Path,
             NEW a \in Object \cup {NoObject}, ManageBegin(t, p, a)
      PROVE  (ClaimsKnown /\ PendingKnown /\ SettledExist)'
  BY <1>5 DEF ManageBegin
<1>6. ASSUME NEW a \in Object, ObjectDies(a)
      PROVE  (ClaimsKnown /\ PendingKnown /\ SettledExist)'
  BY <1>6 DEF ObjectDies
<1>7. ASSUME NEW a \in Object, ObjectIsBorn(a)
      PROVE  (ClaimsKnown /\ PendingKnown /\ SettledExist)'
  BY <1>7 DEF ObjectIsBorn
<1>8. ASSUME NEW p \in Path, FirstInterface(p)
      PROVE  (ClaimsKnown /\ PendingKnown /\ SettledExist)'
  BY <1>8 DEF FirstInterface
<1>9. ASSUME NEW p \in Path, LastInterface(p)
      PROVE  (ClaimsKnown /\ PendingKnown /\ SettledExist)'
  BY <1>9 DEF LastInterface, ForgetLive
<1>10. ASSUME NEW t \in Thread, ManageEnd(t)
      PROVE  (ClaimsKnown /\ PendingKnown /\ SettledExist)'
  BY <1>10 DEF ManageEnd, PathGiven
<1>11. CASE UNCHANGED managedVars
  BY <1>11 DEF managedVars
<1> QED
  BY <1>1, <1>2, <1>3, <1>4, <1>5, <1>6, <1>7, <1>8, <1>9, <1>10, <1>11
     DEF ManagedNext, Unlocked, Locked

\* Every step preserves the invariant.
LEMMA ManagedInvStep == ManagedInv /\ [ManagedNext]_managedVars => ManagedInv'
<1> SUFFICES ASSUME ManagedInv, [ManagedNext]_managedVars PROVE ManagedResolves'
  BY ManagedTypeStep, KnownStep DEF ManagedInv
<1> USE NoneAssumption
    DEF ManagedInv, ManagedTypeOK, Pending, Nothing, nodeVars, ClaimsKnown,
        PendingKnown, SettledExist, Unused, ManagedResolves, Settled
<1>1. ASSUME NEW p \in Path, CreateNode(p)
      PROVE  ManagedResolves'
  BY <1>1 DEF CreateNode
<1>2. ASSUME NEW p \in Path, AddServer(p)
      PROVE  ManagedResolves'
  BY <1>2 DEF AddServer
<1>3. ASSUME NEW p \in Path, Expire(p)
      PROVE  ManagedResolves'
  BY <1>3 DEF Expire
<1>4. ASSUME NEW p \in Path, FinishDestroy(p)
      PROVE  ManagedResolves'
  BY <1>4 DEF FinishDestroy
<1>5. ASSUME NEW t \in Thread, NEW p \in Path,
             NEW a \in Object \cup {NoObject}, ManageBegin(t, p, a)
      PROVE  ManagedResolves'
  BY <1>5 DEF ManageBegin
<1>6. ASSUME NEW a \in Object, ObjectDies(a)
      PROVE  ManagedResolves'
  BY <1>6 DEF ObjectDies
<1>7. ASSUME NEW a \in Object, ObjectIsBorn(a)
      PROVE  ManagedResolves'
  BY <1>7 DEF ObjectIsBorn
<1>8. ASSUME NEW p \in Path, FirstInterface(p)
      PROVE  ManagedResolves'
  BY <1>8 DEF FirstInterface
<1>9. ASSUME NEW p \in Path, LastInterface(p)
      PROVE  ManagedResolves'
  BY <1>9 DEF LastInterface, ForgetLive
<1>10. ASSUME NEW t \in Thread, ManageEnd(t)
      PROVE  ManagedResolves'
  BY <1>10 DEF ManageEnd, PathGiven
<1>11. CASE UNCHANGED managedVars
  BY <1>11 DEF managedVars
<1> QED
  BY <1>1, <1>2, <1>3, <1>4, <1>5, <1>6, <1>7, <1>8, <1>9, <1>10, <1>11
     DEF ManagedNext, Unlocked, Locked

\* The invariant holds in every reachable state.
LEMMA ManagedInvariance == ManagedSpec => []ManagedInv
BY ManagedInvInit, ManagedInvStep, PTL DEF ManagedSpec

-----------------------------------------------------------------------------
\* The types hold: no node manages an object that is gone, however objects die
\* and addresses are used again (node::_managing is a weak pointer).
THEOREM ManagedTypeCorrect == ManagedSpec => []ManagedTypeOK
<1>1. ManagedInv => ManagedTypeOK
  BY DEF ManagedInv
<1>2. QED
  BY <1>1, ManagedInvariance, PTL

\* The path the server sends for the object of a settled node is that node's.
THEOREM PathsResolve == ManagedSpec => []ManagedResolves
<1>1. ManagedInv => ManagedResolves
  BY DEF ManagedInv
<1>2. QED
  BY <1>1, ManagedInvariance, PTL

-----------------------------------------------------------------------------
(***************************************************************************)
(* Trees.  Induction is the least-number principle on a set of numbers.    *)
(***************************************************************************)

\* The order of the natural numbers as a set, and the least-number principle.
LessThan == {ss \in Nat \X Nat : ss[1] < ss[2]}

LEMMA LessThanWellFounded == IsWellFoundedOn(LessThan, Nat)
BY NatLessThanWellFounded DEF LessThan, OpToRel

LEMMA Least ==
  ASSUME NEW T \in SUBSET Nat, T # {}
  PROVE  \E m \in T : \A k \in T : m <= k
<1>1. PICK m \in T : \A k \in T : <<k, m>> \notin LessThan
  BY LessThanWellFounded, WFMin
<1>2. \A k \in T : ~(k < m)
  BY <1>1 DEF LessThan
<1> QED
  BY <1>2

\* A position is that of its prefix with one step more.
LEMMA LastStep ==
  ASSUME NEW S, NEW p \in Seq(S), NEW n \in 1 .. Len(p)
  PROVE  /\ SubSeq(p, 1, n - 1) \in Seq(S)
         /\ p[n] \in S
         /\ SubSeq(p, 1, n) = Append(SubSeq(p, 1, n - 1), p[n])
OBVIOUS

\* Of a tree, the last step to a position is one that leads on.
LEMMA StepLeadsOn ==
  ASSUME NEW S, NEW steps, IsTree(steps), DOMAIN steps \subseteq Seq(S),
         \A q \in DOMAIN steps : steps[q] \subseteq S,
         NEW p \in Seq(S), NEW s \in S
  PROVE  Append(p, s) \in DOMAIN steps <=> p \in DOMAIN steps /\ s \in steps[p]
<1>1. Append(p, s) # <<>>
  OBVIOUS
<1>2. ASSUME NEW q \in DOMAIN steps, NEW r \in steps[q],
             Append(p, s) = Append(q, r)
      PROVE  p = q /\ s = r
  <2>1. q \in Seq(S) /\ r \in S
    OBVIOUS
  <2>2. Len(p) = Len(q)
    BY <1>2, <2>1
  <2>3. s = r
    BY <1>2, <2>1, <2>2
  <2>4. \A i \in 1 .. Len(p) : p[i] = q[i]
    BY <1>2, <2>1, <2>2
  <2> QED
    BY <2>1, <2>2, <2>3, <2>4, SeqEqual
<1>3. ASSUME Append(p, s) \in DOMAIN steps
      PROVE  p \in DOMAIN steps /\ s \in steps[p]
  <2>1. PICK q \in DOMAIN steps :
          \E r \in steps[q] : Append(p, s) = Append(q, r)
    <3>1. Append(p, s) \in
            UNION {{Append(o, r) : r \in steps[o]} : o \in DOMAIN steps}
      BY <1>1, <1>3 DEF IsTree
    <3> QED
      BY <3>1
  <2> QED
    BY <1>2, <2>1
<1>4. ASSUME p \in DOMAIN steps, s \in steps[p]
      PROVE  Append(p, s) \in DOMAIN steps
  <2>1. Append(p, s) \in
          UNION {{Append(o, r) : r \in steps[o]} : o \in DOMAIN steps}
    BY <1>4
  <2> QED
    BY <2>1 DEF IsTree
<1> QED
  BY <1>3, <1>4

\* What is on the way to a position of a tree is a position of the tree.
LEMMA OnTheWay ==
  ASSUME NEW S, NEW steps, IsTree(steps), DOMAIN steps \subseteq Seq(S),
         \A q \in DOMAIN steps : steps[q] \subseteq S,
         NEW p \in DOMAIN steps, NEW n \in 0 .. Len(p)
  PROVE  SubSeq(p, 1, n) \in DOMAIN steps
<1> DEFINE T ==
      {i \in 0 .. Len(p) : SubSeq(p, 1, Len(p) - i) \notin DOMAIN steps}
<1>1. p \in Seq(S) /\ Len(p) \in Nat
  OBVIOUS
<1>2. SUFFICES ASSUME T # {} PROVE FALSE
  <2>1. Len(p) - n \in 0 .. Len(p) /\ Len(p) - (Len(p) - n) = n
    BY <1>1
  <2> QED
    BY <1>2, <2>1
<1>3. PICK m \in T : \A k \in T : m <= k
  <2>1. T \in SUBSET Nat
    BY <1>1
  <2> HIDE DEF T
  <2> QED
    BY <1>2, <2>1, Least
<1>4. m \in 0 .. Len(p) /\ SubSeq(p, 1, Len(p) - m) \notin DOMAIN steps
  BY <1>3
<1>5. m # 0
  <2>1. SubSeq(p, 1, Len(p) - 0) = p
    BY <1>1, SubSeqFull
  <2> QED
    BY <1>4, <2>1
<1>6. SubSeq(p, 1, Len(p) - (m - 1)) \in DOMAIN steps
  <2>1. m - 1 \notin T
    BY <1>1, <1>3, <1>4, <1>5
  <2>2. m - 1 \in 0 .. Len(p)
    BY <1>1, <1>4, <1>5
  <2> QED
    BY <2>1, <2>2
<1> HIDE DEF T
<1> DEFINE l == Len(p) - (m - 1)
<1>7. l \in 1 .. Len(p) /\ l - 1 = Len(p) - m
  BY <1>1, <1>4, <1>5
<1> HIDE DEF l
<1>8. SubSeq(p, 1, l) = Append(SubSeq(p, 1, l - 1), p[l])
      /\ SubSeq(p, 1, l - 1) \in Seq(S) /\ p[l] \in S
  BY <1>1, <1>7, LastStep
<1>9. SubSeq(p, 1, l) \in DOMAIN steps
  BY <1>6 DEF l
<1>10. SubSeq(p, 1, l - 1) \in DOMAIN steps
  <2>1. PICK r \in Seq(S) : r = SubSeq(p, 1, l - 1)
    BY <1>8
  <2>2. Append(r, p[l]) \in DOMAIN steps
    BY <1>8, <1>9, <2>1
  <2>3. r \in DOMAIN steps
    BY <1>8, <2>2, StepLeadsOn
  <2> QED
    BY <2>1, <2>3
<1> QED
  BY <1>4, <1>7, <1>10

\* The parts on the way to a position of a type are parts of what is there.
LEMMA PartOfType ==
  ASSUME NEW t, IsType(t), NEW tp \in DOMAIN t, NEW n \in 1 .. Len(tp)
  PROVE  /\ SubSeq(tp, 1, n - 1) \in DOMAIN t
         /\ tp[n] \in 1 .. t[SubSeq(tp, 1, n - 1)].n
<1> DEFINE steps == [q \in DOMAIN t |-> 1 .. t[q].n]
           q == SubSeq(tp, 1, n - 1)
<1>1. /\ IsTree(steps)
      /\ DOMAIN steps = DOMAIN t
      /\ DOMAIN steps \subseteq Seq(Nat)
  BY DEF IsType
<1>2. \A r \in DOMAIN steps : steps[r] \subseteq Nat
  BY DEF IsType
<1>3. tp \in Seq(Nat) /\ n \in 0 .. Len(tp) /\ n - 1 \in 0 .. Len(tp)
  BY DEF IsType
<1>4. q \in Seq(Nat) /\ tp[n] \in Nat /\ SubSeq(tp, 1, n) = Append(q, tp[n])
  BY <1>3, LastStep
<1>5. \A r \in DOMAIN t : steps[r] = 1 .. t[r].n
  OBVIOUS
<1> HIDE DEF steps, q
<1>6. SubSeq(tp, 1, n) \in DOMAIN steps
  BY <1>1, <1>2, <1>3, OnTheWay
<1>7. q \in DOMAIN steps /\ tp[n] \in steps[q]
  BY <1>1, <1>2, <1>4, <1>6, StepLeadsOn
<1> QED
  BY <1>1, <1>5, <1>7 DEF q

\* What leads on from a position of a value.
LEMMA ValueStep ==
  ASSUME NEW t, NEW x, NEW objs, IsType(t), IsValue(t, x, objs),
         NEW p \in DOMAIN x, NEW s \in Steps(Code[t[Place(p)].k], x[p])
  PROVE  Append(p, s) \in DOMAIN x
<1> DEFINE steps == [q \in DOMAIN x |-> Steps(Code[t[Place(q)].k], x[q])]
<1>1. IsTree(steps) /\ DOMAIN steps = DOMAIN x
  BY DEF IsValue
<1>2. s \in steps[p]
  OBVIOUS
<1> HIDE DEF steps
<1>3. Append(p, s) \in
        UNION {{Append(o, r) : r \in steps[o]} : o \in DOMAIN steps}
  BY <1>1, <1>2
<1> QED
  BY <1>1, <1>3 DEF IsTree

\* The first position in a value for a position in the type.
LEMMA DirectProperties ==
  ASSUME NEW tp \in Seq(Nat)
  PROVE  /\ Direct(tp) \in Seq(Step)
         /\ Len(Direct(tp)) = Len(tp)
         /\ \A n \in 1 .. Len(tp) : Direct(tp)[n] = [elem |-> 1, part |-> tp[n]]
         /\ Place(Direct(tp)) = tp
<1>1. Len(tp) \in Nat /\ DOMAIN tp = 1 .. Len(tp)
  OBVIOUS
<1>2. \A n \in 1 .. Len(tp) : Direct(tp)[n] = [elem |-> 1, part |-> tp[n]]
  BY <1>1 DEF Direct
<1>3. \A n \in 1 .. Len(tp) : [elem |-> 1, part |-> tp[n]] \in Step
  BY DEF Step
<1>4. Direct(tp) \in [1 .. Len(tp) -> Step]
  BY <1>1, <1>3 DEF Direct
<1>5. Direct(tp) \in Seq(Step) /\ Len(Direct(tp)) = Len(tp)
  BY <1>1, <1>4
<1>6. Place(Direct(tp)) = [n \in 1 .. Len(tp) |-> tp[n]]
  BY <1>1, <1>2, <1>4 DEF Place
<1> QED
  BY <1>1, <1>2, <1>5, <1>6

LEMMA DirectPrefix ==
  ASSUME NEW tp \in Seq(Nat), NEW n \in 1 .. Len(tp)
  PROVE  Place(SubSeq(Direct(tp), 1, n - 1)) = SubSeq(tp, 1, n - 1)
<1> DEFINE d == Direct(tp)
<1>1. d \in Seq(Step) /\ Len(d) = Len(tp)
      /\ \A i \in 1 .. Len(tp) : d[i] = [elem |-> 1, part |-> tp[i]]
  BY DirectProperties
<1> HIDE DEF d
<1>2. n - 1 \in 0 .. Len(tp) /\ Len(tp) \in Nat
  OBVIOUS
<1>3. SubSeq(d, 1, n - 1) = [i \in 1 .. n - 1 |-> d[i]]
  BY <1>1, <1>2
<1>4. SubSeq(tp, 1, n - 1) = [i \in 1 .. n - 1 |-> tp[i]]
  BY <1>2
<1>5. Place(SubSeq(d, 1, n - 1)) = [i \in 1 .. n - 1 |-> d[i].part]
  BY <1>3 DEF Place
<1>6. \A i \in 1 .. n - 1 : d[i].part = tp[i]
  <2>1. TAKE i \in 1 .. n - 1
  <2>2. i \in 1 .. Len(tp)
    BY <1>2
  <2>3. d[i] = [elem |-> 1, part |-> tp[i]]
    BY <1>1, <2>2
  <2> QED
    BY <2>3
<1>7. Place(SubSeq(d, 1, n - 1)) = SubSeq(tp, 1, n - 1)
  BY <1>4, <1>5, <1>6
<1> QED
  BY <1>7 DEF d

\* Where no vector is on the way, the first position is one of the value.
LEMMA DirectReached ==
  ASSUME NEW t, NEW x, NEW objs, IsType(t), IsValue(t, x, objs),
         NEW tp \in DOMAIN t,
         \A n \in 1 .. Len(tp) :
           LET q == SubSeq(Direct(tp), 1, n - 1)
           IN q \in DOMAIN x => t[Place(q)].k # "vec"
  PROVE  Direct(tp) \in DOMAIN x
<1> DEFINE d == Direct(tp)
           T == {n \in 0 .. Len(tp) : SubSeq(d, 1, n) \notin DOMAIN x}
<1>1. tp \in Seq(Nat) /\ Len(tp) \in Nat
  BY DEF IsType
<1>2. d \in Seq(Step) /\ Len(d) = Len(tp)
      /\ \A n \in 1 .. Len(tp) : d[n] = [elem |-> 1, part |-> tp[n]]
  BY <1>1, DirectProperties
<1> HIDE DEF d
<1>3. SUFFICES ASSUME T # {} PROVE FALSE
  <2>1. SubSeq(d, 1, Len(tp)) = d
    BY <1>2, SubSeqFull
  <2>2. Len(tp) \in 0 .. Len(tp)
    BY <1>1
  <2>3. d \in DOMAIN x
    BY <1>3, <2>1, <2>2
  <2> QED
    BY <2>3 DEF d
<1>4. PICK m \in T : \A k \in T : m <= k
  <2>1. T \in SUBSET Nat
    BY <1>1
  <2> HIDE DEF T
  <2> QED
    BY <1>3, <2>1, Least
<1>5. m \in 0 .. Len(tp) /\ SubSeq(d, 1, m) \notin DOMAIN x
  BY <1>4
<1>6. m # 0
  <2>1. <<>> \in DOMAIN x
    BY DEF IsValue, IsTree
  <2>2. SubSeq(d, 1, 0) = <<>>
    BY <1>2, SubSeqEmpty
  <2> QED
    BY <1>5, <2>1, <2>2
<1>7. m \in 1 .. Len(tp) /\ m - 1 \in 0 .. Len(tp)
  BY <1>1, <1>5, <1>6
<1>8. SubSeq(d, 1, m - 1) \in DOMAIN x
  <2>1. m - 1 \notin T
    BY <1>1, <1>4, <1>7
  <2> QED
    BY <1>7, <2>1
<1> HIDE DEF T
<1> DEFINE q == SubSeq(d, 1, m - 1)
<1>9. Place(q) = SubSeq(tp, 1, m - 1)
  BY <1>1, <1>2, <1>7, DirectPrefix DEF d
<1>10. Place(q) \in DOMAIN t /\ tp[m] \in 1 .. t[Place(q)].n
  BY <1>7, <1>9, PartOfType
<1>11. t[Place(q)].k # "vec"
  BY <1>7, <1>8 DEF d
<1>12. q \in Seq(Step) /\ d[m] \in Step /\ SubSeq(d, 1, m) = Append(q, d[m])
  BY <1>2, <1>7, LastStep
<1> HIDE DEF q
<1>13. t[Place(q)].k = "tup" /\ x[q] = t[Place(q)].n
  <2>1. t[Place(q)].n \in Nat /\ t[Place(q)].n # 0
    BY <1>10 DEF IsType
  <2>2. t[Place(q)].k = "tup"
    BY <1>10, <1>11, <2>1 DEF IsType
  <2>3. q \in DOMAIN x
    BY <1>8 DEF q
  <2>4. x[q] \in Contents(t[Place(q)], objs)
    BY <2>3 DEF IsValue
  <2> QED
    BY <2>2, <2>4 DEF Contents
<1>14. d[m] \in Steps(Code[t[Place(q)].k], x[q])
  <2>1. d[m] = [elem |-> 1, part |-> tp[m]]
    BY <1>2, <1>7
  <2>2. d[m] \in [elem : {1}, part : 1 .. t[Place(q)].n]
    BY <1>10, <2>1
  <2> QED
    BY <1>13, <2>2 DEF Steps, Code
<1>15. Append(q, d[m]) \in DOMAIN x
  BY <1>8, <1>14, ValueStep DEF q
<1> QED
  BY <1>5, <1>12, <1>15

-----------------------------------------------------------------------------
(***************************************************************************)
(* Conversions.                                                            *)
(***************************************************************************)

\* Kinds of types at a position, and what a value has there.
LEMMA AtPosition ==
  ASSUME NEW t, NEW x, NEW objs, IsType(t), IsValue(t, x, objs),
         NEW p \in DOMAIN x
  PROVE  /\ p \in Seq(Step)
         /\ Place(p) \in DOMAIN t
         /\ t[Place(p)].k \in {"int", "str", "obj", "vec", "tup"}
         /\ t[Place(p)].k = "int" => x[p] \in Number
         /\ t[Place(p)].k = "str" => x[p] \in String
         /\ t[Place(p)].k = "obj" => x[p] \in objs
         /\ t[Place(p)].k = "vec" => x[p] \in Nat /\ t[Place(p)].n = 1
         /\ t[Place(p)].k = "tup" => x[p] = t[Place(p)].n
         /\ t[Place(p)].k \notin {"vec", "tup"} => t[Place(p)].n = 0
<1>1. /\ p \in Seq(Step) /\ Place(p) \in DOMAIN t
      /\ x[p] \in Contents(t[Place(p)], objs)
  BY DEF IsValue
<1>2. \/ t[Place(p)].k \in {"int", "str", "obj"} /\ t[Place(p)].n = 0
      \/ t[Place(p)].k = "vec" /\ t[Place(p)].n = 1
      \/ t[Place(p)].k = "tup" /\ t[Place(p)].n \in Nat
  BY <1>1 DEF IsType
<1> QED
  BY <1>1, <1>2 DEF Contents

\* What is made of a value for the bus has the type that its C++ type is
\* advertised as: also where a vector is empty.
LEMMA SentTypeIsAdvertised ==
  ASSUME NEW t, NEW x, NEW objs, IsType(t), IsValue(t, x, objs)
  PROVE  SentType(ToVariant(t, x), VariantType(t)) = VariantType(t)
<1> DEFINE v == ToVariant(t, x)
           type == VariantType(t)
<1>1. /\ DOMAIN v = DOMAIN x
      /\ \A p \in DOMAIN x : v[p].alt = Alternative[t[Place(p)].k]
                             /\ v[p].val = x[p]
  BY DEF ToVariant
<1>2. /\ DOMAIN type = DOMAIN t
      /\ \A tp \in DOMAIN t :
           type[tp] = [code |-> Code[t[tp].k], n |-> t[tp].n]
  BY DEF VariantType
<1> HIDE DEF v, type
<1>3. \A tp \in Own(v) : tp \in DOMAIN t /\ Direct(tp) \in DOMAIN x
  BY <1>1 DEF Own, IsValue
<1>4. ASSUME NEW tp \in Own(v)
      PROVE  OwnLabel(v[Direct(tp)]) = type[tp]
  <2> DEFINE p == Direct(tp)
  <2>1. p \in DOMAIN x /\ tp \in DOMAIN t /\ Place(p) = tp
    BY <1>3, DirectProperties DEF IsType
  <2> HIDE DEF p
  <2>2. /\ t[tp].k \in {"int", "str", "obj", "vec", "tup"}
        /\ t[tp].k = "vec" => t[tp].n = 1
        /\ t[tp].k = "tup" => x[p] = t[tp].n
        /\ t[tp].k \notin {"vec", "tup"} => t[tp].n = 0
    BY <2>1, AtPosition
  <2>3. v[p].alt = Alternative[t[tp].k] /\ v[p].val = x[p]
    BY <1>1, <2>1
  <2>4. OwnLabel(v[p]) = [code |-> Code[t[tp].k], n |-> t[tp].n]
    BY <2>2, <2>3 DEF OwnLabel, Alternative, SentCode, Code
  <2> QED
    BY <1>2, <2>1, <2>4 DEF p
<1>5. ASSUME NEW tp \in DOMAIN t, ~InArray(v, tp)
      PROVE  tp \in Own(v)
  <2>1. ASSUME NEW n \in 1 .. Len(tp),
               SubSeq(Direct(tp), 1, n - 1) \in DOMAIN x
        PROVE  t[Place(SubSeq(Direct(tp), 1, n - 1))].k # "vec"
    <3> DEFINE q == SubSeq(Direct(tp), 1, n - 1)
    <3>1. n - 1 \in 0 .. Len(tp) - 1
      <4>1. Len(tp) \in Nat
        BY DEF IsType
      <4> QED
        BY <4>1
    <3>2. v[q].alt # "vector"
      BY <1>1, <1>5, <2>1, <3>1 DEF InArray
    <3> QED
      BY <1>1, <2>1, <3>2 DEF Alternative
  <2>2. Direct(tp) \in DOMAIN x
    BY <2>1, DirectReached
  <2>3. Place(Direct(tp)) = tp
    BY DirectProperties DEF IsType
  <2> QED
    BY <1>1, <2>2, <2>3 DEF Own
<1> DEFINE declared == {tp \in DOMAIN type : InArray(v, tp)}
           own == {tp \in Own(v) : ~InArray(v, tp)}
<1>6. own \cup declared = DOMAIN t
  BY <1>2, <1>3, <1>5
<1>7. SentType(v, type) = [tp \in DOMAIN t |-> IF tp \in own
                             THEN OwnLabel(v[Direct(tp)]) ELSE type[tp]]
  BY <1>6 DEF SentType
<1>8. SentType(v, type) = [tp \in DOMAIN t |-> type[tp]]
  BY <1>4, <1>7
<1>9. type = [tp \in DOMAIN t |-> type[tp]]
  BY DEF type, VariantType
<1> QED
  BY <1>8, <1>9 DEF v, type

\* What is made of a value for the bus is that value.
LEMMA SentIsGiven ==
  ASSUME NEW t, NEW x, NEW objs, NEW type, NEW paths, NEW means,
         IsType(t), IsValue(t, x, objs),
         ~ToGFails(ToVariant(t, x), paths),
         \A a \in objs : paths[a] # Missing => <<paths[a], a>> \in means
  PROVE  Denotes(t, x, ToG(ToVariant(t, x), type, paths), means)
<1> DEFINE v == ToVariant(t, x)
           y == ToG(v, type, paths).val
<1>1. /\ DOMAIN v = DOMAIN x
      /\ \A p \in DOMAIN x : v[p].alt = Alternative[t[Place(p)].k]
                             /\ v[p].val = x[p]
  BY DEF ToVariant
<1>2. /\ DOMAIN y = DOMAIN x
      /\ \A p \in DOMAIN x :
           /\ y[p].code = SentCode[v[p].alt]
           /\ y[p].val = CASE v[p].alt = "string" -> CStr[v[p].val]
                           [] v[p].alt = "object" -> paths[v[p].val]
                           [] OTHER -> v[p].val
  BY <1>1 DEF ToG
<1>3. \A p \in DOMAIN x : v[p].alt = "object" => paths[v[p].val] # Missing
  BY <1>1 DEF ToGFails
<1> HIDE DEF v, y
<1>4. ASSUME NEW p \in DOMAIN x
      PROVE  /\ Place(p) \in DOMAIN t
             /\ y[p].code = Code[t[Place(p)].k]
             /\ CASE t[Place(p)].k = "str" -> y[p].val = CStr[x[p]]
                  [] t[Place(p)].k = "obj" -> <<y[p].val, x[p]>> \in means
                  [] t[Place(p)].k = "tup" ->
                       y[p].val = x[p] /\ x[p] = t[Place(p)].n
                  [] OTHER -> y[p].val = x[p]
  <2> DEFINE k == t[Place(p)].k
  <2>1. /\ Place(p) \in DOMAIN t
        /\ k \in {"int", "str", "obj", "vec", "tup"}
        /\ k = "obj" => x[p] \in objs
        /\ k = "tup" => x[p] = t[Place(p)].n
    BY AtPosition
  <2>2. v[p].alt = Alternative[k] /\ v[p].val = x[p]
    BY <1>1
  <2>3. y[p].code = Code[k]
    BY <1>2, <2>1, <2>2 DEF Alternative, SentCode, Code
  <2>4. CASE k = "str"
    BY <1>2, <2>1, <2>2, <2>3, <2>4 DEF Alternative
  <2>5. CASE k = "obj"
    <3>1. v[p].alt = "object"
      BY <2>2, <2>5 DEF Alternative
    <3>2. y[p].val = paths[x[p]] /\ paths[x[p]] # Missing
      BY <1>2, <1>3, <2>2, <3>1
    <3> QED
      BY <2>1, <2>3, <2>5, <3>2
  <2>6. CASE k \in {"int", "vec", "tup"}
    <3>1. v[p].alt \notin {"string", "object"}
      BY <2>2, <2>6 DEF Alternative
    <3>2. y[p].val = x[p]
      BY <1>2, <2>2, <3>1
    <3> QED
      BY <2>1, <2>3, <2>6, <3>2
  <2> QED
    BY <2>1, <2>4, <2>5, <2>6
<1> QED
  BY <1>2, <1>4 DEF Denotes, v, y

\* The tables of the conversions.
LEMMA Codes ==
  /\ Code["int"] = "i" /\ Code["str"] = "s" /\ Code["obj"] = "o"
  /\ Code["vec"] = "a" /\ Code["tup"] = "r"
  /\ Alternative["int"] = "int32" /\ Alternative["str"] = "string"
  /\ Alternative["obj"] = "object" /\ Alternative["vec"] = "vector"
  /\ Alternative["tup"] = "tuple"
  /\ Holds["i"] = "int32" /\ Holds["s"] = "string" /\ Holds["o"] = "object"
  /\ Holds["a"] = "vector" /\ Holds["r"] = "tuple"
BY DEF Code, Alternative, Holds

LEMMA AdvertisedLabels ==
  ASSUME NEW t
  PROVE  /\ DOMAIN VariantType(t) = DOMAIN t
         /\ \A tp \in DOMAIN t : /\ VariantType(t)[tp].code = Code[t[tp].k]
                                 /\ VariantType(t)[tp].n = t[tp].n
BY DEF VariantType

\* The conversion of a GVariant fails exactly if it fails at some position, and
\* with one of two exceptions.
LEMMA WhatFromGThrows ==
  ASSUME NEW g, NEW at
  PROVE  /\ FromGThrows(g, at) \in {"", "invalid_argument", "out_of_range"}
         /\ FromGThrows(g, at) = "" <=>
              \A p \in DOMAIN g.val : Failure(g.val[p], at) = ""
BY DEF FromGThrows

\* What is known of a position of a GVariant that converts.
LEMMA AtConverted ==
  ASSUME NEW g, NEW at, IsGVariant(g, Path), FromGThrows(g, at) = "",
         NEW p \in DOMAIN g.val
  PROVE  /\ p \in Seq(Step)
         /\ Place(p) \in DOMAIN g.type
         /\ g.val[p].code = g.type[Place(p)].code
         /\ g.val[p].code \in {"i", "s", "o", "a", "r"}
         /\ g.val[p].code = "i" => g.val[p].val \in Number
         /\ g.val[p].code = "s" =>
              g.val[p].val \in String /\ CStr[g.val[p].val] = g.val[p].val
         /\ g.val[p].code = "o" =>
              g.val[p].val \in Path /\ at[g.val[p].val] # Missing
         /\ g.val[p].code = "a" => g.val[p].val \in Nat
         /\ g.val[p].code = "r" => g.val[p].val = g.type[Place(p)].n
<1>1. /\ p \in Seq(Step)
      /\ Place(p) \in DOMAIN g.type
      /\ g.val[p].code = g.type[Place(p)].code
      /\ g.val[p].val \in GContents(g.type[Place(p)], Path)
  BY DEF IsGVariant
<1>2. Failure(g.val[p], at) = ""
  BY WhatFromGThrows
<1>3. g.val[p].code \in {"i", "s", "o", "a", "r"}
  BY <1>2 DEF Failure, Holds
<1>4. g.val[p].code = "o" => at[g.val[p].val] # Missing
  BY <1>2, <1>3 DEF Failure, Holds
<1>5. \A s \in String : CStr[s] \in String /\ CStr[CStr[s]] = CStr[s]
  BY CStrAssumption
<1> QED
  BY <1>1, <1>3, <1>4, <1>5 DEF GContents

\* What a GVariant is converted to, if a from_variant accepts it, is a value of
\* the type and the one that was sent.
LEMMA ReceivedIsSent ==
  ASSUME NEW t, NEW g, NEW at, NEW objs, NEW means, IsType(t),
         IsGVariant(g, Path), FromGThrows(g, at) = "", Fits(t, FromG(g, at)),
         \A p \in Path : at[p] \in objs \cup {Missing},
         \A p \in Path : <<p, at[p]>> \in means
  PROVE  /\ IsValue(t, FromVariant(FromG(g, at)), objs)
         /\ Denotes(t, FromVariant(FromG(g, at)), g, means)
<1> DEFINE v == FromG(g, at)
           x == FromVariant(v)
           y == g.val
<1>1. /\ DOMAIN v = DOMAIN y
      /\ \A p \in DOMAIN y :
           /\ v[p].alt = Holds[y[p].code]
           /\ v[p].val = IF y[p].code = "o" THEN at[y[p].val] ELSE y[p].val
  BY DEF FromG
<1>2. /\ DOMAIN x = DOMAIN y
      /\ \A p \in DOMAIN y : x[p] = v[p].val
  BY <1>1 DEF FromVariant
<1>3. \A p \in DOMAIN y :
        /\ Place(p) \in DOMAIN t
        /\ v[p].alt = Alternative[t[Place(p)].k]
        /\ t[Place(p)].k = "tup" => v[p].val = t[Place(p)].n
  BY <1>1 DEF Fits
<1>4. IsTree([p \in DOMAIN y |-> Steps(y[p].code, y[p].val)])
  BY DEF IsGVariant
<1> HIDE DEF v, x
<1>5. ASSUME NEW p \in DOMAIN y
      PROVE  /\ p \in Seq(Step)
             /\ y[p].code = Code[t[Place(p)].k]
             /\ x[p] \in Contents(t[Place(p)], objs)
             /\ CASE t[Place(p)].k = "str" -> y[p].val = CStr[x[p]]
                  [] t[Place(p)].k = "obj" -> <<y[p].val, x[p]>> \in means
                  [] t[Place(p)].k = "tup" ->
                       y[p].val = x[p] /\ x[p] = t[Place(p)].n
                  [] OTHER -> y[p].val = x[p]
             /\ Steps(Code[t[Place(p)].k], x[p]) = Steps(y[p].code, y[p].val)
  <2> DEFINE k == t[Place(p)].k
             code == y[p].code
             sent == y[p].val
  <2>1. /\ p \in Seq(Step)
        /\ code \in {"i", "s", "o", "a", "r"}
        /\ code = "i" => sent \in Number
        /\ code = "s" => sent \in String /\ CStr[sent] = sent
        /\ code = "o" => sent \in Path /\ at[sent] # Missing
        /\ code = "a" => sent \in Nat
    BY AtConverted
  <2>2. k \in {"int", "str", "obj", "vec", "tup"}
    BY <1>3 DEF IsType
  <2>3. Holds[code] = Alternative[k]
    BY <1>1, <1>3
  <2>4. x[p] = IF code = "o" THEN at[sent] ELSE sent
    BY <1>1, <1>2
  <2>5. k = "tup" => x[p] = t[Place(p)].n
    BY <1>2, <1>3
  <2> HIDE DEF k, code, sent
  <2>6. code = Code[k]
    BY <2>1, <2>2, <2>3, Codes
  <2>7. CASE k = "obj"
    <3>1. code = "o"
      BY <2>6, <2>7 DEF Code
    <3>2. x[p] = at[sent] /\ sent \in Path /\ at[sent] \in objs
      BY <2>1, <2>4, <3>1
    <3>3. Steps(Code[k], x[p]) = Steps(code, sent)
      BY <2>6, <3>1 DEF Steps
    <3> QED
      BY <2>1, <2>6, <2>7, <3>1, <3>2, <3>3 DEF Contents, k, code, sent
  <2>8. CASE k \in {"int", "str", "vec", "tup"}
    <3>1. x[p] = sent
      BY <2>6, <2>4, <2>8, Codes
    <3>2. /\ k = "int" => sent \in Number
          /\ k = "str" => sent \in String /\ CStr[sent] = sent
          /\ k = "vec" => sent \in Nat
      BY <2>1, <2>6, Codes
    <3> QED
      BY <2>1, <2>6, <2>5, <2>8, <3>1, <3>2 DEF Contents, k, code, sent
  <2> QED
    BY <2>2, <2>7, <2>8
<1>6. [p \in DOMAIN x |-> Steps(Code[t[Place(p)].k], x[p])]
        = [p \in DOMAIN y |-> Steps(y[p].code, y[p].val)]
  BY <1>2, <1>5
<1>7. IsValue(t, x, objs)
  BY <1>2, <1>3, <1>4, <1>5, <1>6 DEF IsValue
<1>8. Denotes(t, x, g, means)
  BY <1>2, <1>3, <1>5 DEF Denotes
<1> QED
  BY <1>7, <1>8 DEF x, v

\* A GVariant of the advertised type is accepted by from_variant.
LEMMA AdvertisedFits ==
  ASSUME NEW t, NEW g, NEW at, IsType(t), IsGVariant(g, Path),
         g.type = VariantType(t), FromGThrows(g, at) = ""
  PROVE  Fits(t, FromG(g, at))
<1> DEFINE v == FromG(g, at)
<1>1. /\ DOMAIN v = DOMAIN g.val
      /\ \A p \in DOMAIN g.val :
           /\ v[p].alt = Holds[g.val[p].code]
           /\ g.val[p].code # "o" => v[p].val = g.val[p].val
  BY DEF FromG
<1>2. /\ DOMAIN g.type = DOMAIN t
      /\ \A tp \in DOMAIN t : /\ g.type[tp].code = Code[t[tp].k]
                              /\ g.type[tp].n = t[tp].n
  BY AdvertisedLabels
<1> HIDE DEF v
<1>3. ASSUME NEW p \in DOMAIN g.val
      PROVE  /\ Place(p) \in DOMAIN t
             /\ v[p].alt = Alternative[t[Place(p)].k]
             /\ t[Place(p)].k = "tup" => v[p].val = t[Place(p)].n
  <2> DEFINE k == t[Place(p)].k
  <2>1. /\ Place(p) \in DOMAIN g.type
        /\ g.val[p].code = g.type[Place(p)].code
        /\ g.val[p].code = "r" => g.val[p].val = g.type[Place(p)].n
    BY AtConverted
  <2>2. /\ Place(p) \in DOMAIN t
        /\ g.val[p].code = Code[k]
        /\ g.type[Place(p)].n = t[Place(p)].n
    BY <1>2, <2>1
  <2>3. k \in {"int", "str", "obj", "vec", "tup"}
    BY <2>2 DEF IsType
  <2>4. v[p].alt = Holds[g.val[p].code]
    BY <1>1
  <2>5. Holds[Code[k]] = Alternative[k]
    BY <2>3, Codes
  <2>6. k = "tup" => g.val[p].code = "r" /\ v[p].val = g.val[p].val
    BY <1>1, <2>2, Codes
  <2> QED
    BY <2>1, <2>2, <2>4, <2>5, <2>6
<1> QED
  BY <1>1, <1>3 DEF Fits, v

\* A GVariant of an advertised type without objects converts.
LEMMA AdvertisedConverts ==
  ASSUME NEW t, NEW g, NEW at, IsType(t), IsGVariant(g, Path),
         g.type = VariantType(t), \A tp \in DOMAIN t : t[tp].k # "obj"
  PROVE  FromGThrows(g, at) = ""
<1>1. ASSUME NEW p \in DOMAIN g.val
      PROVE  Failure(g.val[p], at) = ""
  <2>1. Place(p) \in DOMAIN t /\ g.val[p].code = Code[t[Place(p)].k]
    BY AdvertisedLabels DEF IsGVariant
  <2>2. t[Place(p)].k \in {"int", "str", "vec", "tup"}
    BY <2>1 DEF IsType
  <2>3. g.val[p].code \in {"i", "s", "a", "r"}
    BY <2>1, <2>2, Codes
  <2> QED
    BY <2>3 DEF Failure, Holds
<1> QED
  BY <1>1, WhatFromGThrows

\* What a program sends, another one that uses the library gets back: if every
\* object in a value of any type has a path, and is what that path stands for,
\* then the value is sent as a GVariant of the bus, which converts, fits the
\* type it came from and is read as the same value, except that strings end at
\* their first zero byte.
THEOREM RoundTrip ==
  ASSUME NEW t, NEW x, NEW objs, NEW paths, NEW at,
         IsType(t), IsValue(t, x, objs), Missing \notin objs,
         \A a \in ObjectsIn(t, x) : /\ paths[a] \in Path \ {Missing}
                                    /\ at[paths[a]] = a
  PROVE  LET v == ToVariant(t, x)
             g == ToG(v, VariantType(t), paths)
         IN /\ ~ToGFails(v, paths)
            /\ IsGVariant(g, Path)
            /\ FromGThrows(g, at) = ""
            /\ Fits(t, FromG(g, at))
            /\ FromVariant(FromG(g, at)) =
                 [p \in DOMAIN x |-> IF t[Place(p)].k = "str" THEN CStr[x[p]]
                                                              ELSE x[p]]
<1> DEFINE v == ToVariant(t, x)
           g == ToG(v, VariantType(t), paths)
           y == g.val
<1>1. /\ DOMAIN v = DOMAIN x
      /\ \A p \in DOMAIN x : v[p].alt = Alternative[t[Place(p)].k]
                             /\ v[p].val = x[p]
  BY DEF ToVariant
<1>2. g.type = VariantType(t)
  BY SentTypeIsAdvertised DEF ToG
<1>3. /\ DOMAIN y = DOMAIN x
      /\ \A p \in DOMAIN x :
           /\ y[p].code = SentCode[v[p].alt]
           /\ y[p].val = CASE v[p].alt = "string" -> CStr[v[p].val]
                           [] v[p].alt = "object" -> paths[v[p].val]
                           [] OTHER -> v[p].val
  BY <1>1 DEF ToG
<1> HIDE DEF v, g
<1>4. ASSUME NEW p \in DOMAIN x
      PROVE  LET label == t[Place(p)] IN
             /\ p \in Seq(Step) /\ Place(p) \in DOMAIN t
             /\ label.k \in {"int", "str", "obj", "vec", "tup"}
             /\ y[p].code = Code[label.k]
             /\ label.k = "int" => y[p].val = x[p] /\ x[p] \in Number
             /\ label.k = "str" => y[p].val = CStr[x[p]] /\ x[p] \in String
             /\ label.k = "obj" => /\ x[p] \in objs /\ at[y[p].val] = x[p]
                                   /\ y[p].val \in Path \ {Missing}
             /\ label.k = "vec" => y[p].val = x[p] /\ x[p] \in Nat
             /\ label.k = "tup" => y[p].val = x[p] /\ x[p] = label.n
  <2> DEFINE k == t[Place(p)].k
  <2>1. /\ p \in Seq(Step) /\ Place(p) \in DOMAIN t
        /\ k \in {"int", "str", "obj", "vec", "tup"}
        /\ k = "int" => x[p] \in Number
        /\ k = "str" => x[p] \in String
        /\ k = "obj" => x[p] \in objs
        /\ k = "vec" => x[p] \in Nat
        /\ k = "tup" => x[p] = t[Place(p)].n
    BY AtPosition
  <2>2. k = "obj" => x[p] \in ObjectsIn(t, x)
    BY DEF ObjectsIn
  <2>3. v[p].alt = Alternative[k] /\ v[p].val = x[p]
    BY <1>1
  <2>4. /\ y[p].code = SentCode[Alternative[k]]
        /\ y[p].val = CASE Alternative[k] = "string" -> CStr[x[p]]
                        [] Alternative[k] = "object" -> paths[x[p]]
                        [] OTHER -> x[p]
    BY <1>3, <2>3
  <2>5. k = "obj" => paths[x[p]] \in Path \ {Missing} /\ at[paths[x[p]]] = x[p]
    BY <2>2
  <2> HIDE DEF k
  <2>6. /\ y[p].code = Code[k]
        /\ k = "str" => y[p].val = CStr[x[p]]
        /\ k = "obj" => y[p].val = paths[x[p]]
        /\ k \in {"int", "vec", "tup"} => y[p].val = x[p]
    BY <2>1, <2>4, Codes DEF SentCode
  <2> QED
    BY <2>1, <2>5, <2>6 DEF k
<1>5. ~ToGFails(v, paths)
  <2>1. SUFFICES ASSUME NEW p \in DOMAIN x, v[p].alt = "object",
                        paths[v[p].val] = Missing
                 PROVE  FALSE
    BY <1>1 DEF ToGFails
  <2>2. t[Place(p)].k = "obj"
    BY <1>1, <1>4, <2>1, Codes
  <2>3. y[p].val = paths[v[p].val]
    BY <1>3, <2>1
  <2> QED
    BY <1>4, <2>1, <2>2, <2>3
<1>6. IsGVariant(g, Path)
  <2>1. ASSUME NEW p \in DOMAIN y
        PROVE  /\ p \in Seq(Step) /\ Place(p) \in DOMAIN g.type
               /\ y[p].code = g.type[Place(p)].code
               /\ y[p].val \in GContents(g.type[Place(p)], Path)
    <3> DEFINE label == g.type[Place(p)]
    <3>1. Place(p) \in DOMAIN g.type /\ label.code = Code[t[Place(p)].k]
          /\ label.n = t[Place(p)].n
      BY <1>2, <1>3, <1>4, AdvertisedLabels
    <3> HIDE DEF label
    <3>2. y[p].val \in GContents(label, Path)
      BY <1>3, <1>4, <3>1, Codes DEF GContents
    <3> QED
      BY <1>3, <1>4, <3>1, <3>2 DEF label
  <2>2. [p \in DOMAIN y |-> Steps(y[p].code, y[p].val)]
          = [p \in DOMAIN x |-> Steps(Code[t[Place(p)].k], x[p])]
    <3>1. ASSUME NEW p \in DOMAIN x
          PROVE  Steps(y[p].code, y[p].val) = Steps(Code[t[Place(p)].k], x[p])
      <4>1. CASE t[Place(p)].k \in {"int", "vec", "tup"}
        BY <1>4, <4>1
      <4>2. CASE t[Place(p)].k \in {"str", "obj"}
        BY <1>4, <4>2, Codes DEF Steps
      <4> QED
        BY <1>4, <4>1, <4>2
    <3> QED
      BY <1>3, <3>1
  <2>3. IsTree([p \in DOMAIN y |-> Steps(y[p].code, y[p].val)])
    BY <2>2 DEF IsValue
  <2> QED
    BY <2>1, <2>3 DEF IsGVariant
<1>7. FromGThrows(g, at) = ""
  <2>1. ASSUME NEW p \in DOMAIN y
        PROVE  Failure(y[p], at) = ""
    <3>1. y[p].code \in {"i", "s", "o", "a", "r"}
      BY <1>3, <1>4, Codes
    <3>2. y[p].code = "o" => at[y[p].val] # Missing
      BY <1>3, <1>4, Codes
    <3> QED
      BY <3>1, <3>2 DEF Failure, Holds
  <2> QED
    BY <2>1, WhatFromGThrows
<1>8. Fits(t, FromG(g, at))
  BY <1>2, <1>6, <1>7, AdvertisedFits
<1>9. FromVariant(FromG(g, at)) =
        [p \in DOMAIN x |-> IF t[Place(p)].k = "str" THEN CStr[x[p]] ELSE x[p]]
  <2>1. FromVariant(FromG(g, at)) =
          [p \in DOMAIN x |->
             IF y[p].code = "o" THEN at[y[p].val] ELSE y[p].val]
    BY <1>3 DEF FromVariant, FromG
  <2>2. ASSUME NEW p \in DOMAIN x
        PROVE  (IF y[p].code = "o" THEN at[y[p].val] ELSE y[p].val) =
                 IF t[Place(p)].k = "str" THEN CStr[x[p]] ELSE x[p]
    BY <1>4, Codes
  <2> QED
    BY <2>1, <2>2
<1> QED
  BY <1>5, <1>6, <1>7, <1>8, <1>9 DEF v, g

-----------------------------------------------------------------------------
(***************************************************************************)
(* Dispatch: what is found, thrown and caught.                             *)
(***************************************************************************)

\* What is found for a path or an object is one, or Missing.
LEMMA Found ==
  ASSUME ManagedTypeOK
  PROVE  /\ \A p \in Path : Resolved[p] \in Nullable \cup {Missing}
         /\ \A a \in Nullable : PathsOf[a] # Missing =>
              a \in Object /\ lookup[a] \in Path /\ PathsOf[a] = lookup[a]
         /\ \A a \in Object : lookup[a] \in Path => PathsOf[a] # Missing
<1>1. \A p \in Path : managing[p] \in Nullable
  BY DEF ManagedTypeOK, Nullable
<1>2. \A p \in Path : Resolved[p] \in Nullable \cup {Missing}
  BY <1>1 DEF Resolved
<1>3. \A a \in Object : lookup[a] \in Path \cup {NoPath}
  BY DEF ManagedTypeOK
<1>4. \A a \in Nullable :
        PathsOf[a] = IF a = NoObject THEN Missing
                     ELSE IF lookup[a] = NoPath THEN Missing ELSE lookup[a]
  BY DEF PathsOf
<1> QED
  BY <1>2, <1>3, <1>4, NoneAssumption, MissingAssumption DEF Nullable

\* The tables decide what is found.
LEMMA SameTables ==
  ASSUME UNCHANGED managedVars
  PROVE  /\ Resolved' = Resolved
         /\ PathsOf' = PathsOf
         /\ Means' = Means
         /\ \A p : Settled(p)' <=> Settled(p)
         /\ managing' = managing
         /\ \A p, hit : Missed(p, hit)' = Missed(p, hit)
BY DEF managedVars, nodeVars, Resolved, PathsOf, Means, Settled, Missed

\* What every catch clause that is reached makes of an exception.
LEMMA Catches ==
  /\ Caught("invalid_argument", ArgsCatch) = "INVALID_SIGNATURE"
  /\ Caught("out_of_range", ArgsCatch) = "UNKNOWN_OBJECT"
  /\ Caught("bad_variant_access", CallCatch) = "INVALID_SIGNATURE"
  /\ Caught(NoPathThrows, CallCatch) = "FAILED"
  /\ Caught("out_of_range", GetCatch) = "UNKNOWN_PROPERTY"
  /\ Caught("permission_denied", GetCatch) = "FAILED"
  /\ Caught(NoPathThrows, GetCatch) = "FAILED"
  /\ Caught("out_of_range", PropertyCatch) = "UNKNOWN_PROPERTY"
  /\ Caught("bad_variant_access", SetCatch) = "INVALID_SIGNATURE"
  /\ Caught("permission_denied", SetCatch) = "PROPERTY_READ_ONLY"
  /\ Caught("invalid_argument", SetCatch) = "INVALID_ARGS"
  /\ Caught("out_of_range", SetCatch) = "FAILED"
BY DEF Caught, ArgsCatch, CallCatch, GetCatch, SetCatch, PropertyCatch,
       NoPathThrows

LEMMA HandlerCaught ==
  ASSUME NEW e \in DOMAIN CallCatch
  PROVE  Caught(e, CallCatch) \in
           {"INVALID_SIGNATURE", "INVALID_ARGS", "FAILED"}
BY DEF Caught, CallCatch

\* Lookups fail with one of two errors.
LEMMA MissedKinds ==
  ASSUME NEW p, NEW hit \in BOOLEAN
  PROVE  \/ Missed(p, hit) = ""
         \/ Missed(p, hit) = "UNKNOWN_INTERFACE" /\ Missed(p, TRUE) = ""
         \/ Missed(p, hit) = "UNKNOWN_OBJECT" /\ Missed(p, TRUE) # ""
BY DEF Missed

\* Why calls are refused.
LEMMA RefusalKinds ==
  ASSUME NEW p, NEW hit \in BOOLEAN, NEW m, NEW g, Refusal(p, hit, m, g) # ""
  PROVE  \/ Refusal(p, hit, m, g) = "UNKNOWN_INTERFACE"
         \/ Refusal(p, hit, m, g) = "UNKNOWN_OBJECT" /\ Missed(p, TRUE) # ""
         \/ Refusal(p, hit, m, g) = "UNKNOWN_METHOD" /\ m = NoMember
         \/ /\ Refusal(p, hit, m, g) \in {"UNKNOWN_OBJECT", "INVALID_SIGNATURE"}
            /\ FromGThrows(g, Resolved) # ""
         \/ /\ Refusal(p, hit, m, g) = "INVALID_SIGNATURE"
            /\ FromGThrows(g, Resolved) = ""
            /\ ~Fits(Args[m], FromG(g, Resolved))
<1>1. FromGThrows(g, Resolved) \in {"", "invalid_argument", "out_of_range"}
  BY WhatFromGThrows
<1>2. CASE Missed(p, hit) # ""
  BY <1>2, MissedKinds DEF Refusal
<1>3. CASE Missed(p, hit) = ""
  BY <1>1, <1>3, Catches DEF Refusal
<1> QED
  BY <1>2, <1>3

\* What a set throws.
LEMMA SetThrowsKinds ==
  ASSUME NEW m, NEW g
  PROVE  \/ SetThrows(m, g) = ""
         \/ /\ SetThrows(m, g) \in {"invalid_argument", "out_of_range"}
            /\ FromGThrows(g, Resolved) # ""
         \/ SetThrows(m, g) = "permission_denied" /\ m \notin Writeable
         \/ /\ SetThrows(m, g) = "bad_variant_access"
            /\ FromGThrows(g, Resolved) = ""
            /\ ~Fits(PropType[m], FromG(g, Resolved))
<1>1. FromGThrows(g, Resolved) \in {"", "invalid_argument", "out_of_range"}
  BY WhatFromGThrows
<1> QED
  BY <1>1 DEF SetThrows

\* Values are sent faithfully.
LEMMA SendFaithful ==
  ASSUME ManagedTypeOK, ManagedResolves, NEW t, NEW x, IsType(t),
         IsValue(t, x, Nullable)
  PROVE  LET v == ToVariant(t, x)
             g == ToG(v, VariantType(t), PathsOf)
         IN IF ToGFails(v, PathsOf)
              THEN \E a \in ObjectsIn(t, x) :
                     ~\E p \in Path : Settled(p) /\ managing[p] = a
              ELSE g.type = VariantType(t) /\ Denotes(t, x, g, Means)
<1> DEFINE v == ToVariant(t, x)
           g == ToG(v, VariantType(t), PathsOf)
<1>1. ASSUME NEW a \in Nullable, NEW p \in Path, Settled(p), managing[p] = a
      PROVE  a \in Object /\ lookup[a] = p
  BY <1>1 DEF ManagedResolves, Settled, Nullable
<1>2. ASSUME ToGFails(v, PathsOf)
      PROVE  \E a \in ObjectsIn(t, x) :
               ~\E p \in Path : Settled(p) /\ managing[p] = a
  <2>1. PICK q \in DOMAIN x : /\ v[q].alt = "object"
                              /\ PathsOf[v[q].val] = Missing
    BY <1>2 DEF ToGFails, ToVariant
  <2>2. v[q].alt = Alternative[t[Place(q)].k] /\ v[q].val = x[q]
    BY DEF ToVariant
  <2>3. /\ t[Place(q)].k \in {"int", "str", "obj", "vec", "tup"}
        /\ t[Place(q)].k = "obj" => x[q] \in Nullable
    BY AtPosition
  <2>4. t[Place(q)].k = "obj"
    BY <2>1, <2>2, <2>3, Codes
  <2>5. x[q] \in ObjectsIn(t, x) /\ x[q] \in Nullable /\ PathsOf[x[q]] = Missing
    BY <2>1, <2>2, <2>3, <2>4 DEF ObjectsIn
  <2>6. ~\E p \in Path : Settled(p) /\ managing[p] = x[q]
    BY <1>1, <2>5, Found
  <2> QED
    BY <2>5, <2>6
<1>3. ASSUME ~ToGFails(v, PathsOf)
      PROVE  g.type = VariantType(t) /\ Denotes(t, x, g, Means)
  <2>1. g.type = VariantType(t)
    BY SentTypeIsAdvertised DEF ToG
  <2>2. \A a \in Nullable : PathsOf[a] # Missing => <<PathsOf[a], a>> \in Means
    <3>1. TAKE a \in Nullable
    <3>2. HAVE PathsOf[a] # Missing
    <3>3. a \in Object /\ PathsOf[a] \in Path /\ PathsOf[a] = lookup[a]
      BY <3>2, Found
    <3>4. \A p \in Path : Settled(p) /\ managing[p] = a => p = PathsOf[a]
      BY <1>1, <3>3
    <3> QED
      BY <3>3, <3>4 DEF Means
  <2>3. Denotes(t, x, g, Means)
    BY <1>3, <2>2, SentIsGiven
  <2> QED
    BY <2>1, <2>3
<1> QED
  BY <1>2, <1>3

\* A value of a tuple type with no parts is the empty tuple.
LEMMA EmptyTuple ==
  ASSUME NEW t, NEW x, NEW objs, NEW means, IsType(t), IsValue(t, x, objs),
         t[<<>>].k = "tup", x[<<>>] = 0
  PROVE  /\ NoBody.type = VariantType(t)
         /\ Denotes(t, x, NoBody, means)
<1>1. <<>> \in DOMAIN x /\ <<>> \in DOMAIN t
  BY DEF IsType, IsValue, IsTree
<1>2. Place(<<>>) = <<>>
  BY DEF Place
<1>3. t[<<>>].n = 0
  BY <1>1, <1>2, AtPosition
<1>4. ASSUME NEW tp \in DOMAIN t
      PROVE  tp = <<>>
  <2>1. SUFFICES ASSUME tp # <<>> PROVE FALSE
    OBVIOUS
  <2>2. tp \in Seq(Nat) /\ 1 \in 1 .. Len(tp)
    BY <2>1 DEF IsType
  <2>3. SubSeq(tp, 1, 1 - 1) = <<>>
    BY <2>2
  <2>4. tp[1] \in 1 .. t[SubSeq(tp, 1, 1 - 1)].n
    BY <2>2, PartOfType
  <2>5. tp[1] \in 1 .. t[<<>>].n
    BY <2>3, <2>4
  <2> QED
    BY <1>3, <2>5
<1>5. DOMAIN t = {<<>>}
  BY <1>1, <1>4
<1>6. ASSUME NEW p \in DOMAIN x
      PROVE  p = <<>>
  <2>1. p \in Seq(Step) /\ Place(p) \in DOMAIN t
    BY AtPosition
  <2>2. DOMAIN Place(p) = 1 .. Len(p)
    BY <2>1 DEF Place
  <2>3. Place(p) = <<>>
    BY <1>4, <2>1
  <2>4. Len(p) \in Nat /\ 1 \notin 1 .. Len(p)
    BY <2>1, <2>2, <2>3
  <2> QED
    BY <2>1, <2>4, EmptySeq
<1>7. DOMAIN x = {<<>>}
  BY <1>1, <1>6
<1>8. NoBody.type = VariantType(t)
  <2>1. VariantType(t)[<<>>] = [code |-> "r", n |-> 0]
    BY <1>1, <1>3, Codes DEF VariantType
  <2>2. VariantType(NoType) = [tp \in {<<>>} |-> [code |-> "r", n |-> 0]]
    BY Codes DEF VariantType, NoType
  <2>3. VariantType(t) =
          [tp \in {<<>>} |-> [code |-> Code[t[tp].k], n |-> t[tp].n]]
    BY <1>5 DEF VariantType
  <2>4. VariantType(t) = [tp \in {<<>>} |-> [code |-> "r", n |-> 0]]
    BY <1>3, <2>3, Codes
  <2> QED
    BY <2>2, <2>4 DEF NoBody
<1>9. Denotes(t, x, NoBody, means)
  <2>1. DOMAIN NoBody.val = {<<>>} /\ NoBody.val[<<>>].code = "r"
        /\ NoBody.val[<<>>].val = 0
    BY DEF NoBody
  <2> QED
    BY <1>1, <1>2, <1>3, <1>7, <2>1, Codes DEF Denotes
<1> QED
  BY <1>8, <1>9

-----------------------------------------------------------------------------
(***************************************************************************)
(* Dispatch: what each action says.                                        *)
(***************************************************************************)
OutOK ==
  /\ OneReply
  /\ AdvertisedAccepted
  /\ SendsFaithful
  /\ ErrorsTell
  /\ SignalsAdvertised

\* A message that is not a set goes with no change of a property.
LEMMA NothingSet ==
  ASSUME value' = value, out'.what # "set"
  PROVE  SetExactly
BY DEF SetExactly

\* Nothing said is nothing wrong.
LEMMA SilenceOK ==
  ASSUME out' = Silence
  PROVE  OutOK' /\ out'.what = "none" /\ out'.replies = 0
BY DEF OutOK, OneReply, AdvertisedAccepted, SendsFaithful, ErrorsTell,
       SignalsAdvertised, Silence, Message

\* What a message says.
LEMMA MessageSays ==
  ASSUME NEW what, NEW p, NEW m, NEW answer, NEW type, NEW given, NEW body,
         out' = Message(what, p, m, answer, type, given, body)
  PROVE  /\ out'.what = what /\ out'.path = p /\ out'.member = m
         /\ out'.answer = answer /\ out'.type = type /\ out'.given = given
         /\ out'.body = body /\ out'.replies = 0
BY DEF Message

LEMMA RefuseCallOK ==
  ASSUME NEW p, NEW hit \in BOOLEAN, NEW m \in Method \cup {NoMember},
         NEW g \in SentArgs, RefuseCall(p, hit, m, g)
  PROVE  OutOK' /\ out'.what = "refused" /\ out'.replies \in 0 .. 2
<1> DEFINE refusal == Refusal(p, hit, m, g)
<1>1. UNCHANGED managedVars /\ refusal # ""
  BY DEF RefuseCall
<1>2. /\ out'.what = "refused" /\ out'.path = p /\ out'.member = m
      /\ out'.answer = refusal /\ out'.body = g
      /\ out'.replies = IF refusal = "uncaught" THEN 0 ELSE 1
  BY DEF RefuseCall, Reply, Message
<1>3. Resolved' = Resolved /\ Missed(p, TRUE)' = Missed(p, TRUE)
  BY <1>1, SameTables
<1>4. \/ refusal = "UNKNOWN_INTERFACE"
      \/ refusal = "UNKNOWN_OBJECT" /\ Missed(p, TRUE) # ""
      \/ refusal = "UNKNOWN_METHOD" /\ m = NoMember
      \/ /\ refusal \in {"UNKNOWN_OBJECT", "INVALID_SIGNATURE"}
         /\ FromGThrows(g, Resolved) # ""
      \/ /\ refusal = "INVALID_SIGNATURE"
         /\ FromGThrows(g, Resolved) = ""
         /\ ~Fits(Args[m], FromG(g, Resolved))
  BY <1>1, RefusalKinds
<1> HIDE DEF refusal
<1>5. refusal # "uncaught"
  BY <1>4
<1>6. OneReply'
  BY <1>2, <1>5 DEF OneReply
<1>7. AdvertisedAccepted'
  <2>1. SUFFICES ASSUME m # NoMember, g.type = VariantType(Args[m])
                 PROVE  \/ refusal = "UNKNOWN_INTERFACE"
                        \/ refusal = "UNKNOWN_OBJECT" /\ Missed(p, TRUE) # ""
    BY <1>2, <1>3 DEF AdvertisedAccepted
  <2>2. m \in Method /\ IsType(Args[m]) /\ IsGVariant(g, Path)
        /\ \A tp \in DOMAIN Args[m] : Args[m][tp].k # "obj"
    BY <2>1, MethodAssumption, SentAssumption
  <2>3. FromGThrows(g, Resolved) = ""
    BY <2>1, <2>2, AdvertisedConverts
  <2>4. Fits(Args[m], FromG(g, Resolved))
    BY <2>1, <2>2, <2>3, AdvertisedFits
  <2> QED
    BY <1>4, <2>1, <2>3, <2>4
<1>8. ErrorsTell'
  BY <1>2, <1>3, <1>4 DEF ErrorsTell
<1>9. SendsFaithful' /\ SignalsAdvertised'
  BY <1>2 DEF SendsFaithful, SignalsAdvertised
<1> QED
  BY <1>2, <1>6, <1>7, <1>8, <1>9 DEF OutOK

LEMMA HandlerReturnsOK ==
  ASSUME TypeOK, ManagedResolves, call.stage = "handler",
         NEW x \in Results[call.member], HandlerReturns(x)
  PROVE  OutOK' /\ out'.what = "method" /\ out'.replies \in 0 .. 2
<1> DEFINE m == call.member
           t == Result[m]
           v == Response(m, x)
           answers == Answers(m, v)
           last == answers[Len(answers)]
<1>1. /\ m \in Method /\ ManagedTypeOK /\ IsType(t) /\ t[<<>>].k = "tup"
      /\ IsValue(t, x, Nullable)
  BY MethodAssumption DEF TypeOK
<1>2. UNCHANGED managedVars
  BY DEF HandlerReturns, HandlerOver
<1>3. /\ out'.what = "method" /\ out'.member = m /\ out'.answer = last.answer
      /\ out'.type = t /\ out'.given = x /\ out'.body = last.body
      /\ out'.replies = Len(answers)
  BY DEF HandlerReturns, Reply, Message
<1> HIDE DEF m, t, answers, last
<1>4. v = ToVariant(t, x)
  BY DEF Response, t
<1>5. <<>> \in DOMAIN x
  BY <1>1 DEF IsValue, IsTree
<1> HIDE DEF v
<1>6. CASE Empty(v)
  <2>1. x[<<>>] = 0
    BY <1>4, <1>5, <1>6 DEF Empty, ToVariant
  <2>2. Len(answers) = 1 /\ last = [answer |-> "value", body |-> NoBody]
    BY <1>6 DEF Answers, answers, last
  <2>3. NoBody.type = VariantType(t) /\ Denotes(t, x, NoBody, Means')
    BY <1>1, <2>1, EmptyTuple
  <2>4. SendsFaithful'
    BY <1>3, <2>2, <2>3 DEF SendsFaithful
  <2> QED
    BY <1>3, <2>2, <2>4
       DEF OutOK, OneReply, AdvertisedAccepted, ErrorsTell, SignalsAdvertised
<1>7. CASE ~Empty(v)
  <2>1. Len(answers) = 1 /\ last = Converted(m, v)
    BY <1>7 DEF Answers, answers, last
  <2>2. \/ /\ ToGFails(v, PathsOf)
           /\ last = [answer |-> "FAILED", body |-> NoBody]
        \/ /\ ~ToGFails(v, PathsOf)
           /\ last = [answer |-> "value",
                      body |-> ToG(v, VariantType(t), PathsOf)]
    BY <2>1, Catches DEF Converted, t
  <2>3. IF ToGFails(v, PathsOf)
          THEN \E a \in ObjectsIn(t, x) :
                 ~\E p \in Path : Settled(p) /\ managing[p] = a
          ELSE /\ ToG(v, VariantType(t), PathsOf).type = VariantType(t)
               /\ Denotes(t, x, ToG(v, VariantType(t), PathsOf), Means)
    BY <1>1, <1>4, SendFaithful
  <2>4. Means' = Means /\ managing' = managing
        /\ \A p : Settled(p)' <=> Settled(p)
    BY <1>2, SameTables
  <2>5. SendsFaithful'
    BY <1>3, <2>2, <2>3, <2>4 DEF SendsFaithful
  <2>6. out'.answer \in {"FAILED", "value"} /\ out'.replies = 1
    BY <1>3, <2>1, <2>2
  <2>7. OneReply' /\ AdvertisedAccepted' /\ ErrorsTell' /\ SignalsAdvertised'
    BY <1>3, <2>6
       DEF OneReply, AdvertisedAccepted, ErrorsTell, SignalsAdvertised
  <2> QED
    BY <1>3, <2>5, <2>6, <2>7 DEF OutOK
<1> QED
  BY <1>3, <1>6, <1>7

LEMMA HandlerThrowsOK ==
  ASSUME NEW e \in DOMAIN CallCatch, HandlerThrows(e)
  PROVE  OutOK' /\ out'.what = "threw" /\ out'.replies \in 0 .. 2
<1> DEFINE caught == Caught(e, CallCatch)
<1>1. caught \in {"INVALID_SIGNATURE", "INVALID_ARGS", "FAILED"}
  BY HandlerCaught
<1>2. /\ out'.what = "threw" /\ out'.answer = caught
      /\ out'.replies = IF caught = "uncaught" THEN 0 ELSE 1
  BY DEF HandlerThrows, Reply, Message
<1> HIDE DEF caught
<1>3. out'.what = "threw" /\ out'.replies = 1
      /\ out'.answer \in {"INVALID_SIGNATURE", "INVALID_ARGS", "FAILED"}
  BY <1>1, <1>2
<1>4. SendsFaithful' /\ SignalsAdvertised' /\ AdvertisedAccepted'
  BY <1>3 DEF SendsFaithful, SignalsAdvertised, AdvertisedAccepted
<1>5. OneReply' /\ ErrorsTell'
  BY <1>3 DEF OneReply, ErrorsTell
<1> QED
  BY <1>3, <1>4, <1>5 DEF OutOK

LEMMA GetPropertyOK ==
  ASSUME TypeOK, ManagedResolves, NEW p, NEW hit \in BOOLEAN,
         NEW m \in Prop \cup {NoMember}, GetProperty(p, hit, m)
  PROVE  OutOK' /\ out'.what = "get" /\ out'.replies \in 0 .. 2
<1> DEFINE t == PropType[m]
           x == value[m]
           v == ToVariant(t, x)
           g == ToG(v, VariantType(t), PathsOf)
<1>1. UNCHANGED managedVars
  BY DEF GetProperty
<1> HIDE DEF t, x, v, g
<1>2. \/ /\ Missed(p, hit) # ""
         /\ out' = Message("get", p, m, Missed(p, hit), NoType, NoValue, NoBody)
      \/ /\ m = NoMember
         /\ out' = Message("get", p, m, "UNKNOWN_PROPERTY", NoType, NoValue,
                           NoBody)
      \/ out' = Message("get", p, m, "FAILED", NoType, NoValue, NoBody)
      \/ /\ m \in Readable /\ ToGFails(v, PathsOf)
         /\ out' = Message("get", p, m, "FAILED", t, x, NoBody)
      \/ /\ m \in Readable /\ ~ToGFails(v, PathsOf)
         /\ out' = Message("get", p, m, "value", t, x, g)
  BY Catches DEF GetProperty, t, x, v, g
<1> DEFINE Error ==
             /\ out'.type = NoType
             /\ \/ out'.answer = Missed(p, hit) /\ Missed(p, hit) # ""
                \/ out'.answer = "UNKNOWN_PROPERTY" /\ m = NoMember
                \/ out'.answer = "FAILED"
           Sent ==
             /\ m \in Readable /\ out'.type = t /\ out'.given = x
             /\ \/ ToGFails(v, PathsOf) /\ out'.answer = "FAILED"
                \/ /\ ~ToGFails(v, PathsOf)
                   /\ out'.answer = "value" /\ out'.body = g
           Heading ==
             /\ out'.what = "get" /\ out'.path = p /\ out'.member = m
             /\ out'.replies = 0
<1>3. Heading /\ (Error \/ Sent)
  <2>1. CASE /\ Missed(p, hit) # ""
             /\ out' =
                  Message("get", p, m, Missed(p, hit), NoType, NoValue, NoBody)
    BY <2>1, MessageSays
  <2>2. CASE /\ m = NoMember
             /\ out' = Message("get", p, m, "UNKNOWN_PROPERTY", NoType, NoValue,
                               NoBody)
    <3>1. /\ out'.what = "get" /\ out'.path = p /\ out'.member = m
          /\ out'.answer = "UNKNOWN_PROPERTY" /\ out'.type = NoType
          /\ out'.replies = 0
      BY ONLY <2>2, MessageSays
    <3> QED
      BY <2>2, <3>1
  <2>3. CASE out' = Message("get", p, m, "FAILED", NoType, NoValue, NoBody)
    BY <2>3, MessageSays
  <2>4. CASE /\ m \in Readable /\ ToGFails(v, PathsOf)
             /\ out' = Message("get", p, m, "FAILED", t, x, NoBody)
    BY <2>4, MessageSays
  <2>5. CASE /\ m \in Readable /\ ~ToGFails(v, PathsOf)
             /\ out' = Message("get", p, m, "value", t, x, g)
    BY <2>5, MessageSays
  <2> QED
    BY <1>2, <2>1, <2>2, <2>3, <2>4, <2>5
<1>4. Resolved' = Resolved /\ Missed(p, TRUE)' = Missed(p, TRUE)
      /\ Means' = Means /\ managing' = managing
      /\ \A q : Settled(q)' <=> Settled(q)
  BY <1>1, SameTables
<1>5. \/ Missed(p, hit) = ""
      \/ Missed(p, hit) = "UNKNOWN_INTERFACE"
      \/ Missed(p, hit) = "UNKNOWN_OBJECT" /\ Missed(p, TRUE) # ""
  BY MissedKinds
<1>6. SendsFaithful'
  <2>1. CASE out'.type = NoType /\ out'.answer # "value"
    BY <1>3, <2>1 DEF SendsFaithful
  <2>2. CASE /\ m \in Readable /\ out'.type = t /\ out'.given = x
             /\ \/ ToGFails(v, PathsOf) /\ out'.answer = "FAILED"
                \/ /\ ~ToGFails(v, PathsOf)
                   /\ out'.answer = "value" /\ out'.body = g
    <3>1. IsType(t) /\ IsValue(t, x, Nullable) /\ ManagedTypeOK
      BY <2>2, PropAssumption DEF TypeOK, t, x
    <3>2. IF ToGFails(v, PathsOf)
            THEN \E a \in ObjectsIn(t, x) :
                   ~\E q \in Path : Settled(q) /\ managing[q] = a
            ELSE g.type = VariantType(t) /\ Denotes(t, x, g, Means)
      BY <3>1, SendFaithful DEF v, g
    <3> QED
      BY <1>3, <1>4, <2>2, <3>2 DEF SendsFaithful
  <2> QED
    BY <1>3, <1>5, <2>1, <2>2
<1>7. OneReply' /\ ErrorsTell'
  BY <1>3, <1>4, <1>5 DEF OneReply, ErrorsTell
<1>8. Heading
  BY <1>3
<1> HIDE DEF Error, Sent
<1>9. AdvertisedAccepted' /\ SignalsAdvertised'
  BY <1>8 DEF AdvertisedAccepted, SignalsAdvertised
<1> QED
  BY <1>6, <1>7, <1>8, <1>9 DEF OutOK

LEMMA SetPropertyOK ==
  ASSUME TypeOK, NEW p, NEW hit \in BOOLEAN,
         NEW m \in Prop \cup {NoMember}, NEW g \in SentValues,
         SetProperty(p, hit, m, g)
  PROVE  /\ OutOK' /\ out'.what = "set" /\ out'.replies \in 0 .. 2
         /\ SetExactly
         /\ DOMAIN value' = Prop
         /\ \A q \in Prop : IsValue(PropType[q], value'[q], Nullable)
<1> DEFINE x == FromVariant(FromG(g, Resolved))
           means == {<<q, Resolved[q]>> : q \in Path}
<1>1. \A q \in Path : <<q, Resolved[q]>> \in means
  OBVIOUS
<1> HIDE DEF x, means
<1> DEFINE Answer(a) == out' = Message("set", p, m, a, NoType, NoValue, g)
           NotThere ==
             /\ Missed(p, hit) # "" /\ value' = value
           NoSuch == m = NoMember /\ value' = value
           Throws ==
             /\ Missed(p, hit) = "" /\ m # NoMember /\ value' = value
             /\ SetThrows(m, g) # ""
           Refuses ==
             /\ m # NoMember /\ SetThrows(m, g) = "" /\ m \in Const
             /\ value' = value
           Sets ==
             /\ m # NoMember /\ SetThrows(m, g) = "" /\ m \notin Const
             /\ value' = [value EXCEPT ![m] = x]
<1>2. /\ UNCHANGED managedVars
      /\ \/ NotThere /\ Answer(Missed(p, hit))
         \/ NoSuch /\ Answer("UNKNOWN_PROPERTY")
         \/ Throws /\ Answer(Caught(SetThrows(m, g), SetCatch))
         \/ Refuses /\ Answer("false")
         \/ Sets /\ Answer("true")
  BY Catches DEF SetProperty, SetReturns, x
<1>3. /\ out'.what = "set" /\ out'.path = p /\ out'.member = m
      /\ out'.body = g /\ out'.replies = 0
      /\ \/ NotThere /\ out'.answer = Missed(p, hit)
         \/ NoSuch /\ out'.answer = "UNKNOWN_PROPERTY"
         \/ Throws /\ out'.answer = Caught(SetThrows(m, g), SetCatch)
         \/ Refuses /\ out'.answer = "false"
         \/ Sets /\ out'.answer = "true"
  <2> HIDE DEF NotThere, NoSuch, Throws, Refuses, Sets
  <2>1. CASE NotThere /\ Answer(Missed(p, hit))
    BY <2>1, MessageSays
  <2>2. CASE NoSuch /\ Answer("UNKNOWN_PROPERTY")
    BY <2>2, MessageSays
  <2>3. CASE Throws /\ Answer(Caught(SetThrows(m, g), SetCatch))
    BY <2>3, MessageSays
  <2>4. CASE Refuses /\ Answer("false")
    BY <2>4, MessageSays
  <2>5. CASE Sets /\ Answer("true")
    BY <2>5, MessageSays
  <2> QED
    BY <1>2, <2>1, <2>2, <2>3, <2>4, <2>5
<1>4. Resolved' = Resolved /\ Missed(p, TRUE)' = Missed(p, TRUE)
  BY <1>2, SameTables
<1>5. \/ Missed(p, hit) = ""
      \/ Missed(p, hit) = "UNKNOWN_INTERFACE" /\ Missed(p, TRUE) = ""
      \/ Missed(p, hit) = "UNKNOWN_OBJECT" /\ Missed(p, TRUE) # ""
  BY MissedKinds
<1>6. \/ SetThrows(m, g) = ""
      \/ /\ Caught(SetThrows(m, g), SetCatch) \in {"INVALID_ARGS", "FAILED"}
         /\ FromGThrows(g, Resolved) # ""
      \/ /\ Caught(SetThrows(m, g), SetCatch) = "PROPERTY_READ_ONLY"
         /\ m \notin Writeable
      \/ /\ Caught(SetThrows(m, g), SetCatch) = "INVALID_SIGNATURE"
         /\ FromGThrows(g, Resolved) = ""
         /\ ~Fits(PropType[m], FromG(g, Resolved))
  BY SetThrowsKinds, Catches
<1>7. ASSUME m # NoMember, SetThrows(m, g) = "", m \notin Const
      PROVE  /\ m \in Writeable
             /\ IsValue(PropType[m], x, Nullable)
             /\ Denotes(PropType[m], x, g, means)
  <2>1. m \in Prop /\ m \in Writeable /\ FromGThrows(g, Resolved) = ""
        /\ Fits(PropType[m], FromG(g, Resolved))
    BY <1>7 DEF SetThrows
  <2>2. IsType(PropType[m]) /\ IsGVariant(g, Path)
    BY <2>1, PropAssumption, SentAssumption
  <2>3. \A q \in Path : Resolved[q] \in Nullable \cup {Missing}
    BY Found DEF TypeOK
  <2>4. IsValue(PropType[m], x, Nullable)
    BY <1>1, <2>1, <2>2, <2>3, ReceivedIsSent DEF x
  <2>5. Denotes(PropType[m], x, g, means)
    BY <1>1, <2>1, <2>2, <2>3, ReceivedIsSent DEF x
  <2> QED
    BY <2>1, <2>4, <2>5
<1>8. ASSUME m # NoMember, g.type = VariantType(PropType[m]),
             FromGThrows(g, Resolved) = ""
      PROVE  Fits(PropType[m], FromG(g, Resolved))
  <2>1. IsType(PropType[m]) /\ IsGVariant(g, Path)
    BY <1>8, PropAssumption, SentAssumption
  <2> QED
    BY <1>8, <2>1, AdvertisedFits
<1>9. SetThrows(m, g) = "" => m \in Writeable
  <2>1. SetThrows(m, g) = "" /\ m \notin Writeable => FALSE
    BY DEF SetThrows
  <2> QED
    BY <2>1
<1>10. /\ DOMAIN value = Prop
       /\ \A q \in Prop : IsValue(PropType[q], value[q], Nullable)
  BY DEF TypeOK
<1>11. Writeable \subseteq Prop /\ NoMember \notin Prop
  BY PropAssumption, NoMemberAssumption
<1>12. OneReply' /\ ErrorsTell'
  BY <1>3, <1>4, <1>5, <1>6 DEF OneReply, ErrorsTell
<1>13. OutOK'
  BY <1>3, <1>12 DEF OutOK, AdvertisedAccepted, SendsFaithful, SignalsAdvertised
<1>14. out'.what = "set" /\ out'.replies \in 0 .. 2
  <2>1. out'.what = "set" /\ out'.replies = 0
    BY <1>3
  <2> QED
    BY ONLY <2>1
<1>15. CASE value' = value /\ out'.answer # "true"
  <2>1. out'.answer = "false" => m \in Const \cap Writeable
    BY <1>3, <1>5, <1>6, <1>9, <1>15
  <2>2. ASSUME m \in Writeable \ Const, g.type = VariantType(PropType[m]),
               Missed(p, TRUE) = ""
        PROVE  \/ out'.answer = "UNKNOWN_INTERFACE"
               \/ FromGThrows(g, Resolved) # ""
    BY <1>3, <1>5, <1>6, <1>8, <1>11, <1>15, <2>2
  <2>3. SetExactly
    BY <1>3, <1>15, <2>1, <2>2 DEF SetExactly
  <2>4. DOMAIN value' = Prop
        /\ \A q \in Prop : IsValue(PropType[q], value'[q], Nullable)
    BY ONLY <1>10, <1>15
  <2> QED
    BY <1>13, <1>14, <2>3, <2>4
<1>16. CASE /\ m # NoMember /\ SetThrows(m, g) = "" /\ m \notin Const
            /\ value' = [value EXCEPT ![m] = x] /\ out'.answer = "true"
  <2>1. m \in Prop /\ value'[m] = x /\ DOMAIN value' = Prop
        /\ \A q \in Prop : q # m => value'[q] = value[q]
    BY <1>10, <1>16
  <2>2. SetExactly
    BY <1>3, <1>7, <1>16, <2>1 DEF SetExactly, means
  <2>3. \A q \in Prop : IsValue(PropType[q], value'[q], Nullable)
    BY <1>7, <1>10, <1>16, <2>1
  <2> QED
    BY <1>13, <1>14, <2>1, <2>2, <2>3
<1> QED
  BY <1>3, <1>5, <1>6, <1>15, <1>16

LEMMA EmitOK ==
  ASSUME TypeOK, ManagedResolves, NEW t \in Thread, NEW p \in Path,
         NEW s \in Signal \cup {NoMember}, NEW e \in Emitted,
         Emit(t, p, s, e.type, e.val)
  PROVE  OutOK' /\ out'.what = "signal" /\ out'.replies \in 0 .. 2
<1> DEFINE v == ToVariant(e.type, e.val)
           g == ToG(v, VariantType(e.type), PathsOf)
<1>1. /\ UNCHANGED managedVars
      /\ out'.what = "signal" /\ out'.member = s /\ out'.type = e.type
      /\ out'.given = e.val /\ out'.replies = 0
      /\ \/ /\ ~Emittable(s, e.type) \/ ToGFails(v, PathsOf)
            /\ out'.answer = "thrown"
         \/ /\ Emittable(s, e.type) /\ ~ToGFails(v, PathsOf)
            /\ out'.answer = "value" /\ out'.body = g
  BY DEF Emit, Message
<1>2. IF ToGFails(v, PathsOf)
        THEN \E a \in ObjectsIn(e.type, e.val) :
               ~\E q \in Path : Settled(q) /\ managing[q] = a
        ELSE /\ g.type = VariantType(e.type)
             /\ Denotes(e.type, e.val, g, Means)
  BY EmittedAssumption, SendFaithful DEF TypeOK
<1>3. Means' = Means /\ managing' = managing
      /\ \A q : Settled(q)' <=> Settled(q)
  BY <1>1, SameTables
<1> HIDE DEF v, g
<1>4. SendsFaithful'
  BY <1>1, <1>2, <1>3 DEF SendsFaithful
<1>5. SignalsAdvertised'
  BY <1>1, <1>2 DEF SignalsAdvertised, Emittable
<1>6. OneReply' /\ ErrorsTell' /\ AdvertisedAccepted'
  BY <1>1 DEF OneReply, ErrorsTell, AdvertisedAccepted
<1> QED
  BY <1>1, <1>4, <1>5, <1>6 DEF OutOK


-----------------------------------------------------------------------------
(***************************************************************************)
(* Dispatch: the invariant.                                                *)
(***************************************************************************)
CallOK ==
  /\ call.stage \in {"idle", "handler"}
  /\ call.stage = "handler" => /\ call.path \in Path /\ call.member \in Method
                               /\ life[call.path] = "live"
  /\ HandlerGetsSent

ValueOK ==
  /\ DOMAIN value = Prop
  /\ \A m \in Prop : IsValue(PropType[m], value[m], Nullable)

SaidOK ==
  /\ OutOK
  /\ out.replies \in 0 .. 2
  /\ out.what \in {"none", "refused", "method", "threw", "get", "set",
                   "signal"}

DispatchInv ==
  /\ ManagedInv
  /\ CallOK
  /\ ValueOK
  /\ SaidOK

LEMMA DispatchInvTypes == DispatchInv => TypeOK /\ ManagedResolves
BY DEF DispatchInv, ManagedInv, CallOK, ValueOK, SaidOK, TypeOK

\* What arguments denote does not change under a handler when objects and nodes
\* come and go: none of them is an object.
LEMMA ArgsStayTrue ==
  ASSUME NEW m \in Method, NEW x, NEW g, NEW means, NEW means2,
         Denotes(Args[m], x, g, means)
  PROVE  Denotes(Args[m], x, g, means2)
<1>1. \A tp \in DOMAIN Args[m] : Args[m][tp].k # "obj"
  BY MethodAssumption
<1> QED
  BY <1>1 DEF Denotes

\* A call goes on while its node lives.
LEMMA CallGoesOn ==
  ASSUME CallOK, call' = call,
         call.stage = "handler" => life'[call.path] = "live"
  PROVE  CallOK'
<1>1. ASSUME call.stage = "handler"
      PROVE  Denotes(Args[call.member], call.args, call.sent,
                     {<<p, Resolved'[p]>> : p \in Path})
  <2>1. /\ call.member \in Method
        /\ Denotes(Args[call.member], call.args, call.sent,
                   {<<p, Resolved[p]>> : p \in Path})
    BY <1>1 DEF CallOK, HandlerGetsSent
  <2> QED
    BY <2>1, ArgsStayTrue
<1>2. HandlerGetsSent'
  BY <1>1 DEF HandlerGetsSent
<1> QED
  BY <1>2 DEF CallOK

\* The handler of a node that is found gets what was sent.
LEMMA EnterHandlerOK ==
  ASSUME ManagedTypeOK, NEW p \in Path, NEW m \in Method \cup {NoMember},
         NEW g \in SentArgs, EnterHandler(p, m, g)
  PROVE  CallOK'
<1> DEFINE x == FromVariant(FromG(g, Resolved))
           means == {<<q, Resolved[q]>> : q \in Path}
<1>1. /\ call'.stage = "handler" /\ call'.path = p /\ call'.member = m
      /\ call'.args = x /\ call'.sent = g
      /\ UNCHANGED managedVars
  BY DEF EnterHandler
<1>2. \A q \in Path : <<q, Resolved[q]>> \in means
  OBVIOUS
<1>3. Refusal(p, TRUE, m, g) = ""
  BY DEF EnterHandler
<1>4. Missed(p, TRUE) = "" /\ m # NoMember
  BY <1>3 DEF Refusal
<1>5. FromGThrows(g, Resolved) = ""
  BY <1>3, <1>4, WhatFromGThrows, Catches DEF Refusal
<1>6. Fits(Args[m], FromG(g, Resolved))
  BY <1>3, <1>4, <1>5, Catches DEF Refusal
<1>7. m \in Method /\ IsType(Args[m]) /\ IsGVariant(g, Path)
  BY <1>4, MethodAssumption, SentAssumption
<1>8. \A q \in Path : Resolved[q] \in Nullable \cup {Missing}
  BY Found
<1> HIDE DEF means
<1>9. Denotes(Args[m], x, g, means)
  BY <1>2, <1>5, <1>6, <1>7, <1>8, ReceivedIsSent
<1>10. Denotes(Args[m], x, g, {<<q, Resolved[q]>>' : q \in Path})
  BY <1>7, <1>9, ArgsStayTrue
<1>11. life[p] = "live" /\ life' = life
  BY <1>1, <1>4 DEF Missed, managedVars, nodeVars
<1> HIDE DEF x
<1>12. HandlerGetsSent'
  BY <1>1, <1>10 DEF HandlerGetsSent
<1> QED
  BY <1>1, <1>7, <1>11, <1>12 DEF CallOK

\* What a step does to what is managed is a step of Managed.
LEMMA ManagedPart == [Next]_vars => [ManagedNext]_managedVars
<1> SUFFICES ASSUME [Next]_vars PROVE [ManagedNext]_managedVars
  OBVIOUS
<1>1. CASE \E t \in Thread : ManagedStep(t)
  BY <1>1 DEF ManagedStep, ManagedNext
<1>2. CASE \E p \in Path : FromBus(p)
  <2>1. ASSUME NEW p \in Path, NEW hit, NEW m, NEW g,
               \/ RefuseCall(p, hit, m, g) \/ EnterHandler(p, m, g)
               \/ GetProperty(p, hit, m) \/ SetProperty(p, hit, m, g)
        PROVE  UNCHANGED managedVars
    <3>1. CASE RefuseCall(p, hit, m, g)
      BY <3>1 DEF RefuseCall
    <3>2. CASE EnterHandler(p, m, g)
      BY <3>2 DEF EnterHandler
    <3>3. CASE GetProperty(p, hit, m)
      BY <3>3 DEF GetProperty
    <3>4. CASE SetProperty(p, hit, m, g)
      BY <3>4 DEF SetProperty
    <3> QED
      BY <2>1, <3>1, <3>2, <3>3, <3>4
  <2> QED
    BY <1>2, <2>1 DEF FromBus
<1>3. CASE Handler
  BY <1>3 DEF Handler, HandlerReturns, HandlerThrows, HandlerOver
<1>4. CASE Emission
  BY <1>4 DEF Emission, Emit
<1>5. CASE Taken
  BY <1>5 DEF Taken
<1>6. CASE UNCHANGED vars
  BY <1>6 DEF vars
<1> QED
  BY <1>1, <1>2, <1>3, <1>4, <1>5, <1>6 DEF Next

\* Init establishes the invariant.
LEMMA DispatchInvInit == Init => DispatchInv
<1> SUFFICES ASSUME Init PROVE DispatchInv
  OBVIOUS
<1>1. ManagedInv
  BY ManagedInvInit DEF Init
<1>2. CallOK
  BY DEF Init, NoCall, CallOK, HandlerGetsSent
<1>3. ValueOK
  BY PropAssumption DEF Init, ValueOK
<1>4. out.what = "none" /\ out.replies = 0 /\ out.answer = "none"
  BY DEF Init, Silence, Message
<1>5. SaidOK
  BY <1>4 DEF SaidOK, OutOK, OneReply, AdvertisedAccepted, SendsFaithful,
              ErrorsTell, SignalsAdvertised
<1> QED
  BY <1>1, <1>2, <1>3, <1>5 DEF DispatchInv

\* A step of the program that is not a call's leaves calls and values alone.
LEMMA NoCallStep ==
  ASSUME CallOK, ValueOK, UNCHANGED <<managedVars, call, value>>
  PROVE  CallOK' /\ ValueOK'
<1>1. CallOK'
  BY CallGoesOn DEF CallOK, managedVars, nodeVars
<1>2. ValueOK'
  BY DEF ValueOK
<1> QED
  BY <1>1, <1>2

\* Every step preserves the invariant, and does to properties what it should.
LEMMA DispatchStep ==
  ASSUME DispatchInv, Next
  PROVE  CallOK' /\ ValueOK' /\ SaidOK' /\ SetExactly
<1> USE DEF SaidOK
<1>1. TypeOK /\ ManagedResolves /\ ManagedTypeOK /\ CallOK /\ ValueOK
  BY DispatchInvTypes DEF DispatchInv, ManagedInv
<1>2. CASE Taken
  <2>1. UNCHANGED <<managedVars, call, value>> /\ out' = Silence
    BY <1>2 DEF Taken
  <2>2. OutOK' /\ out'.what = "none" /\ out'.replies = 0
    BY <2>1, SilenceOK
  <2> QED
    BY <1>1, <2>1, <2>2, NoCallStep, NothingSet
<1>3. ASSUME out = Silence, NEW t \in Thread, ManagedStep(t)
      PROVE  CallOK' /\ ValueOK' /\ SaidOK' /\ SetExactly
  <2>1. /\ call' = call /\ value' = value /\ out' = Silence
        /\ call.stage = "handler" => life'[call.path] = "live"
    BY <1>3 DEF ManagedStep
  <2>2. OutOK' /\ out'.what = "none" /\ out'.replies = 0
    BY <2>1, SilenceOK
  <2>3. CallOK' /\ ValueOK'
    BY <1>1, <2>1, CallGoesOn DEF ValueOK
  <2> QED
    BY <2>1, <2>2, <2>3, NothingSet
<1>4. ASSUME NEW p \in Path, NEW hit \in BOOLEAN,
             NEW m \in Method \cup {NoMember},
             NEW g \in SentArgs, RefuseCall(p, hit, m, g)
      PROVE  CallOK' /\ ValueOK' /\ SaidOK' /\ SetExactly
  <2>1. UNCHANGED <<managedVars, call, value>>
    BY <1>4 DEF RefuseCall
  <2>2. OutOK' /\ out'.what = "refused" /\ out'.replies \in 0 .. 2
    BY <1>4, RefuseCallOK
  <2> QED
    BY <1>1, <2>1, <2>2, NoCallStep, NothingSet
<1>5. ASSUME out = Silence, NEW p \in Path, NEW m \in Method \cup {NoMember},
             NEW g \in SentArgs, EnterHandler(p, m, g)
      PROVE  CallOK' /\ ValueOK' /\ SaidOK' /\ SetExactly
  <2>1. value' = value /\ out' = Silence
    BY <1>5 DEF EnterHandler
  <2>2. OutOK' /\ out'.what = "none" /\ out'.replies = 0
    BY <2>1, SilenceOK
  <2>3. CallOK'
    BY <1>1, <1>5, EnterHandlerOK
  <2> QED
    BY <1>1, <2>1, <2>2, <2>3, NothingSet DEF ValueOK
<1>6. ASSUME NEW p \in Path, NEW hit \in BOOLEAN,
             NEW m \in Prop \cup {NoMember},
             GetProperty(p, hit, m)
      PROVE  CallOK' /\ ValueOK' /\ SaidOK' /\ SetExactly
  <2>1. UNCHANGED <<managedVars, call, value>>
    BY <1>6 DEF GetProperty
  <2>2. OutOK' /\ out'.what = "get" /\ out'.replies \in 0 .. 2
    BY <1>1, <1>6, GetPropertyOK
  <2> QED
    BY <1>1, <2>1, <2>2, NoCallStep, NothingSet
<1>7. ASSUME NEW p \in Path, NEW hit \in BOOLEAN,
             NEW m \in Prop \cup {NoMember},
             NEW g \in SentValues, SetProperty(p, hit, m, g)
      PROVE  CallOK' /\ ValueOK' /\ SaidOK' /\ SetExactly
  <2>1. UNCHANGED <<managedVars, call>>
    BY <1>7 DEF SetProperty
  <2>2. CallOK'
    BY <1>1, <2>1, CallGoesOn DEF CallOK, managedVars, nodeVars
  <2>3. /\ OutOK' /\ out'.what = "set" /\ out'.replies \in 0 .. 2
        /\ SetExactly
        /\ DOMAIN value' = Prop
        /\ \A q \in Prop : IsValue(PropType[q], value'[q], Nullable)
    BY <1>1, <1>7, SetPropertyOK
  <2> QED
    BY <2>2, <2>3 DEF ValueOK
<1>8. ASSUME HandlerOver
      PROVE  CallOK' /\ ValueOK' /\ value' = value
  <2>1. call' = NoCall /\ value' = value
    BY <1>8 DEF HandlerOver
  <2>2. call'.stage = "idle"
    BY <2>1 DEF NoCall
  <2> QED
    BY <1>1, <2>1, <2>2 DEF CallOK, HandlerGetsSent, ValueOK
<1>9. ASSUME call.stage = "handler", NEW x \in Results[call.member],
             HandlerReturns(x)
      PROVE  CallOK' /\ ValueOK' /\ SaidOK' /\ SetExactly
  <2>1. CallOK' /\ ValueOK' /\ value' = value
    BY <1>8, <1>9 DEF HandlerReturns
  <2>2. OutOK' /\ out'.what = "method" /\ out'.replies \in 0 .. 2
    BY <1>1, <1>9, HandlerReturnsOK
  <2> QED
    BY <2>1, <2>2, NothingSet
<1>10. ASSUME NEW e \in DOMAIN CallCatch, HandlerThrows(e)
       PROVE  CallOK' /\ ValueOK' /\ SaidOK' /\ SetExactly
  <2>1. CallOK' /\ ValueOK' /\ value' = value
    BY <1>8, <1>10 DEF HandlerThrows
  <2>2. OutOK' /\ out'.what = "threw" /\ out'.replies \in 0 .. 2
    BY <1>10, HandlerThrowsOK
  <2> QED
    BY <2>1, <2>2, NothingSet
<1>11. ASSUME NEW t \in Thread, NEW p \in Path,
              NEW s \in Signal \cup {NoMember},
              NEW e \in Emitted, Emit(t, p, s, e.type, e.val)
       PROVE  CallOK' /\ ValueOK' /\ SaidOK' /\ SetExactly
  <2>1. UNCHANGED <<managedVars, call, value>>
    BY <1>11 DEF Emit
  <2>2. OutOK' /\ out'.what = "signal" /\ out'.replies \in 0 .. 2
    BY <1>1, <1>11, EmitOK
  <2> QED
    BY <1>1, <2>1, <2>2, NoCallStep, NothingSet
<1> HIDE DEF SaidOK
<1>12. CASE \E t \in Thread : out = Silence /\ ManagedStep(t)
  BY <1>3, <1>12
<1>13. CASE out = Silence /\ \E p \in Path : FromBus(p)
  BY <1>4, <1>5, <1>6, <1>7, <1>13 DEF FromBus
<1>14. CASE Handler
  BY <1>9, <1>10, <1>14 DEF Handler
<1>15. CASE Emission
  BY <1>11, <1>15 DEF Emission
<1> QED
  BY <1>2, <1>12, <1>13, <1>14, <1>15 DEF Next

LEMMA DispatchInvStep == DispatchInv /\ [Next]_vars => DispatchInv'
<1> SUFFICES ASSUME DispatchInv, [Next]_vars PROVE DispatchInv'
  OBVIOUS
<1>1. ManagedInv'
  BY ManagedPart, ManagedInvStep DEF DispatchInv
<1>2. CASE Next
  BY <1>1, <1>2, DispatchStep DEF DispatchInv
<1>3. CASE UNCHANGED vars
  <2>1. CallOK' /\ ValueOK'
    BY <1>3, NoCallStep DEF vars, DispatchInv
  <2>2. UNCHANGED managedVars /\ out' = out
    BY <1>3 DEF vars
  <2>3. /\ Resolved' = Resolved /\ Means' = Means /\ managing' = managing
        /\ \A p : Settled(p)' <=> Settled(p)
        /\ \A p, hit : Missed(p, hit)' = Missed(p, hit)
    BY <2>2, SameTables
  <2>4. SendsFaithful => SendsFaithful'
    BY <2>2, <2>3 DEF SendsFaithful
  <2>5. AdvertisedAccepted => AdvertisedAccepted'
    BY <2>2, <2>3 DEF AdvertisedAccepted
  <2>6. ErrorsTell => ErrorsTell'
    BY <2>2, <2>3 DEF ErrorsTell
  <2>7. SaidOK'
    BY <2>2, <2>4, <2>5, <2>6
       DEF DispatchInv, SaidOK, OutOK, OneReply, SignalsAdvertised
  <2> QED
    BY <1>1, <2>1, <2>7 DEF DispatchInv
<1> QED
  BY <1>2, <1>3

\* The invariant holds in every reachable state.
LEMMA DispatchInvariance == Spec => []DispatchInv
BY DispatchInvInit, DispatchInvStep, PTL DEF Spec

-----------------------------------------------------------------------------
(***************************************************************************)
(* Dispatch: the properties.                                               *)
(***************************************************************************)

\* The types hold: a function runs on a node that lives, and every property has
\* a value of its type, whatever GVariants the bus sends to set it.
THEOREM TypeCorrect == Spec => []TypeOK
BY DispatchInvariance, DispatchInvTypes, PTL

\* While the bus calls, nodes and objects come and go as in Managed alone: what
\* is shown of Managed holds here.
THEOREM ImplementsManaged == Spec => ManagedSpec
<1>1. Init => ManagedInit
  BY DEF Init
<1> QED
  BY <1>1, ManagedPart, PTL DEF Spec, ManagedSpec

\* The path sent for the object of a settled node is that node's.
THEOREM PathsResolveInCalls == Spec => []ManagedResolves
BY ImplementsManaged, PathsResolve, PTL

\* Every method call is answered once, and no exception leaves a callback.
THEOREM AnsweredOnce == Spec => []OneReply
<1>1. DispatchInv => OneReply
  BY DEF DispatchInv, SaidOK, OutOK
<1> QED
  BY <1>1, DispatchInvariance, PTL

\* A call with arguments of the advertised types reaches its function.
THEOREM AdvertisedCallsAccepted == Spec => []AdvertisedAccepted
<1>1. DispatchInv => AdvertisedAccepted
  BY DEF DispatchInv, SaidOK, OutOK
<1> QED
  BY <1>1, DispatchInvariance, PTL

\* A function runs with the values that were sent.
THEOREM HandlersGetSent == Spec => []HandlerGetsSent
<1>1. DispatchInv => HandlerGetsSent
  BY DEF DispatchInv, CallOK
<1> QED
  BY <1>1, DispatchInvariance, PTL

\* Results, properties and signals arrive as they were advertised and given.
THEOREM SentFaithfully == Spec => []SendsFaithful
<1>1. DispatchInv => SendsFaithful
  BY DEF DispatchInv, SaidOK, OutOK
<1> QED
  BY <1>1, DispatchInvariance, PTL

\* The names of errors are true.
THEOREM ErrorsTrue == Spec => []ErrorsTell
<1>1. DispatchInv => ErrorsTell
  BY DEF DispatchInv, SaidOK, OutOK
<1> QED
  BY <1>1, DispatchInvariance, PTL

\* What is emitted as a signal has the types the introspection data has for it.
THEOREM SignalsAsAdvertised == Spec => []SignalsAdvertised
<1>1. DispatchInv => SignalsAdvertised
  BY DEF DispatchInv, SaidOK, OutOK
<1> QED
  BY <1>1, DispatchInvariance, PTL

\* The bus changes a property only by a set that it is told has succeeded, only
\* if it may be written, and only to the value it sent.
THEOREM SetsExactly == Spec => SetExact
<1>1. DispatchInv /\ [Next]_vars => [SetExactly]_vars
  BY DispatchStep
<1> QED
  BY <1>1, DispatchInvariance, PTL DEF Spec, SetExact
=============================================================================
