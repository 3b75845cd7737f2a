--------------------------- MODULE NodeTreeProofs ---------------------------
(***************************************************************************)
(* Theorems about NodeTree, for any number of nodes, threads and segments. *)
(*                                                                         *)
(* The invariants are proved in layers, each one using those before it:    *)
(*   Base     types, and which thread is where with which node and lock    *)
(*   Shape    which nodes are born, expired, on whose list                 *)
(*   LinksAgree                                                            *)
(*   Lineage  the paths, as long as no destructor met another operation    *)
(*   Exports  the registrations, under the same condition                  *)
(*   Ends     what bounds walks and loops, with no condition               *)
(***************************************************************************)
EXTENDS NodeTree, SequenceTheorems, FiniteSetTheorems, TLAPS

\* The lock is held exactly by the thread inside a walk or a destructor's loop.
LockOwner ==
  \A t \in Thread : hierarchy_lock = t <=> pc[t] \in {"walk", "adopt"}

\* A thread's place in its operation and the life of the node it works on.
CallOK ==
  \A t \in Thread :
    /\ pc[t] = "idle" <=> target[t] = NoNode
    /\ pc[t] \in {"enter", "adopt"} => op[t] = "destroy"
    /\ pc[t] # "idle" =>
         life[target[t]] = IF op[t] = "destroy" THEN "expired" ELSE "live"
    /\ pc[t] = "walk" => cur[t] \in Node /\ life[cur[t]] # "unborn"

\* Nobody else works on a node whose destructor runs.
OneDtor ==
  \A t, u \in Thread : Destroying(t) /\ target[t] = target[u] => t = u

Base == TypeOK /\ LockOwner /\ CallOK /\ OneDtor

\* Every expired node has a thread that runs its destructor.
ExpiredHasDtor ==
  \A n \in Node : life[n] = "expired" =>
    \E t \in Thread : Destroying(t) /\ target[t] = n

\* Without overlap a destructor is the only operation under way.
Calm ==
  ~overlap =>
    \A t, u \in Thread : Destroying(t) /\ pc[u] # "idle" => t = u

\* A node that does not exist yet is not linked to or registered.
BornOK ==
  \A n \in Node :
    /\ life[n] = "unborn" =>
         parent[n] = NoNode /\ children[n] = {} /\ exported[n] = {}
    /\ parent[n] # NoNode => life[parent[n]] # "unborn"
    /\ life[n] # "unborn" => name[n] # <<>>

ChildHasParent == \A v, c \in Node : c \in children[v] => parent[c] = v

Shape == ExpiredHasDtor /\ Calm /\ BornOK /\ ChildHasParent

\* The list of a node in its destructor still holds every live child.
ListComplete ==
  ~overlap =>
    \A c \in Node : /\ life[c] = "live"
                    /\ parent[c] # NoNode
                    /\ life[parent[c]] = "expired"
                    => c \in children[parent[c]]

\* tree_name: what is built so far is the target's path below cur's parent.
WalkOK ==
  ~overlap =>
    \A t \in Thread : pc[t] = "walk" =>
      birth[target[t]] = IF HasLiveParent(cur[t])
                           THEN Below(birth[parent[cur[t]]], acc[t])
                           ELSE acc[t]

Lineage == ListComplete /\ PathLocal /\ WalkOK

\* A destructor that has reached its orphans has withdrawn its node.
AdoptOK ==
  ~overlap => \A t \in Thread : pc[t] = "adopt" => exported[target[t]] = {}

Exports == ExportsTracked /\ AdoptOK

\* Lists are finite, and a node is created further down than any parent it has
\* ever had.
ListsFinite == \A n \in Node : IsFiniteSet(children[n])

Descends ==
  \A n \in Node : parent[n] # NoNode => Len(birth[parent[n]]) < Len(birth[n])

Ends == ListsFinite /\ Descends

-----------------------------------------------------------------------------
\* Paths: what Below builds, and that it builds the same from the top down as
\* from the bottom up; a path below another one is not that one.
LEMMA BelowType ==
  ASSUME NEW r \in Path, NEW s \in Path
  PROVE  Below(r, s) \in Path
BY ConcatProperties DEF Below, Path

LEMMA BelowAssociative ==
  ASSUME NEW r \in Path, NEW s \in Path, NEW u \in Path
  PROVE  Below(Below(r, s), u) = Below(r, Below(s, u))
BY ConcatAssociative DEF Below, Path

LEMMA BelowProper ==
  ASSUME NEW r \in Path, NEW s \in Path, s # <<>>
  PROVE  Below(r, s) # r
BY ConcatEqualIffEmpty DEF Below, Path

LEMMA BelowNotEmpty ==
  ASSUME NEW r \in Path, NEW s \in Path, s # <<>>
  PROVE  Below(r, s) # <<>> /\ Below(s, r) # <<>>
BY ConcatEqualIffEmpty DEF Below, Path

LEMMA ShortPaths ==
  /\ <<>> \in Path
  /\ \A s \in Name : <<s>> \in Path /\ <<s>> # <<>>
BY DEF Path

\* Init establishes Base and every step preserves it: each thread has a node
\* while it is in an operation, and the lock is with the thread that walks.
LEMMA BaseInit == Init => Base
<1> SUFFICES ASSUME Init PROVE Base
  OBVIOUS
<1>1. <<>> \in Path
  BY DEF Path
<1>2. TypeOK
  BY <1>1 DEF Init, TypeOK
<1>3. LockOwner /\ CallOK /\ OneDtor
  BY NoThreadAssumption DEF Init, LockOwner, CallOK, OneDtor, Destroying
<1>4. QED
  BY <1>2, <1>3 DEF Base

LEMMA BaseStep == Base /\ [Next]_vars => Base'
<1> SUFFICES ASSUME Base, [Next]_vars PROVE Base'
  OBVIOUS
<1> USE NoNodeAssumption, NoThreadAssumption
    DEF Base, TypeOK, LockOwner, CallOK, OneDtor, Destroying
<1>1. ASSUME NEW t \in Thread, NEW n \in Node, NEW s \in Name, MakeRoot(t, n, s)
      PROVE  Base'
  BY <1>1, ShortPaths DEF MakeRoot
<1>2. ASSUME NEW t \in Thread, NEW p \in Node, NEW c \in Node, NEW s \in Name,
             MakeChild(t, p, c, s)
      PROVE  Base'
  BY <1>2, ShortPaths, BelowType DEF MakeChild
<1>3. ASSUME NEW t \in Thread, NEW n \in Node, Release(t, n)
      PROVE  Base'
  BY <1>3 DEF Release
<1>4. ASSUME NEW t \in Thread, EnterDtor(t)
      PROVE  Base'
  <2>1. target[t] \in Node /\ name[target[t]] \in Path
    BY <1>4 DEF EnterDtor
  <2>2. children' \in [Node -> SUBSET Node]
    BY <1>4, <2>1 DEF EnterDtor, HasLiveParent
  <2>3. TypeOK'
    BY <1>4, <2>1, <2>2 DEF EnterDtor, StartWalk
  <2>4. LockOwner' /\ OneDtor'
    BY <1>4 DEF EnterDtor, StartWalk
  <2>5. CallOK'
    BY <1>4 DEF EnterDtor, StartWalk
  <2>6. QED
    BY <2>3, <2>4, <2>5
<1>5. ASSUME NEW t \in Thread, NEW n \in Node, NEW o \in {"export", "unexport"},
             BeginExport(t, n, o)
      PROVE  Base'
  BY <1>5 DEF BeginExport, StartWalk, tree
<1>6. ASSUME NEW t \in Thread, WalkUp(t)
      PROVE  Base'
  BY <1>6, BelowType DEF WalkUp, HasLiveParent, tree
<1>7. ASSUME NEW t \in Thread, WalkDone(t)
      PROVE  Base'
  <2>1. /\ target[t] \in Node
        /\ Exported(t) \in SUBSET Path
        /\ <<>> \in Path
    BY <1>7, ShortPaths DEF WalkDone, Exported
  <2>2. /\ exported' \in [Node -> SUBSET Path]
        /\ cur' \in [Thread -> Node \cup {NoNode}]
        /\ acc' \in [Thread -> Path]
    BY <1>7, <2>1 DEF WalkDone
  <2>3. CASE op[t] = "destroy"
    <3>1. /\ pc' = [pc EXCEPT ![t] = "adopt"]
          /\ UNCHANGED <<tree, hierarchy_lock, op, target, birth, overlap>>
      BY <1>7, <2>3 DEF WalkDone
    <3>2. TypeOK'
      BY <2>2, <3>1 DEF tree
    <3>3. LockOwner' /\ CallOK' /\ OneDtor'
      BY <1>7, <2>3, <3>1 DEF tree, WalkDone
    <3>4. QED
      BY <3>2, <3>3
  <2>4. CASE op[t] # "destroy"
    <3>1. EndCall(t) /\ UNCHANGED <<tree, birth, overlap>>
      BY <1>7, <2>4 DEF WalkDone
    <3>2. TypeOK'
      BY <2>2, <3>1 DEF tree, EndCall
    <3>3. LockOwner' /\ CallOK' /\ OneDtor'
      BY <1>7, <3>1 DEF tree, EndCall, WalkDone
    <3>4. QED
      BY <3>2, <3>3
  <2>5. QED
    BY <2>3, <2>4
<1>8. ASSUME NEW t \in Thread, NEW c \in Node, AdoptChild(t, c)
      PROVE  Base'
  BY <1>8, BelowType DEF AdoptChild, AdoptedName, AdoptedChildren
<1>9. ASSUME NEW t \in Thread, NEW c \in Node, SkipChild(t, c)
      PROVE  Base'
  BY <1>9 DEF SkipChild
<1>10. ASSUME NEW t \in Thread, LeaveDtor(t)
       PROVE  Base'
  <2>1. TypeOK'
    BY <1>10 DEF LeaveDtor, EndCall
  <2>2. LockOwner'
    BY <1>10 DEF LeaveDtor, EndCall
  <2>3. CallOK'
    BY <1>10 DEF LeaveDtor, EndCall
  <2>4. OneDtor'
    BY <1>10 DEF LeaveDtor, EndCall
  <2>5. QED
    BY <2>1, <2>2, <2>3, <2>4
<1>11. CASE UNCHANGED vars
  BY <1>11 DEF vars
<1>12. QED
  BY <1>1, <1>2, <1>3, <1>4, <1>5, <1>6, <1>7, <1>8, <1>9, <1>10, <1>11
     DEF Next, ClientCall, LockedStep

\* Every variable keeps its type: in particular a thread in an operation has
\* a node to work on, so that no path is built from an absent node.
THEOREM TypeCorrect == Spec => []TypeOK
<1>1. Init => Base
  BY BaseInit
<1>2. Base /\ [Next]_vars => Base'
  BY BaseStep
<1>3. Base => TypeOK
  BY DEF Base
<1>4. QED
  BY <1>1, <1>2, <1>3, PTL DEF Spec

-----------------------------------------------------------------------------
\* Which nodes are born, expired and listed: also kept by every step.
LEMMA ShapeInit == Init => Shape
BY DEF Init, Shape, ExpiredHasDtor, Calm, BornOK, ChildHasParent

LEMMA ShapeStep == Base /\ Shape /\ [Next]_vars => Shape'
<1> SUFFICES ASSUME Base, Shape, [Next]_vars PROVE Shape'
  OBVIOUS
<1> USE NoNodeAssumption, NoThreadAssumption
    DEF Base, TypeOK, LockOwner, CallOK, OneDtor, Destroying,
        Shape, ExpiredHasDtor, Calm, BornOK, ChildHasParent
<1>1. ASSUME NEW t \in Thread, NEW n \in Node, NEW s \in Name, MakeRoot(t, n, s)
      PROVE  Shape'
  BY <1>1, ShortPaths DEF MakeRoot
<1>2. ASSUME NEW t \in Thread, NEW p \in Node, NEW c \in Node, NEW s \in Name,
             MakeChild(t, p, c, s)
      PROVE  Shape'
  BY <1>2, ShortPaths, BelowType DEF MakeChild
<1>3. ASSUME NEW t \in Thread, NEW n \in Node, Release(t, n)
      PROVE  Shape'
  <2>1. ~overlap' => ~overlap /\ \A u \in Thread \ {t} : pc[u] = "idle"
    BY <1>3 DEF Release, OtherBusy
  <2>2. ExpiredHasDtor'
    BY <1>3 DEF Release
  <2>3. Calm'
    BY <1>3, <2>1 DEF Release
  <2>4. BornOK' /\ ChildHasParent'
    BY <1>3 DEF Release
  <2>5. QED
    BY <2>2, <2>3, <2>4
<1>4. ASSUME NEW t \in Thread, EnterDtor(t)
      PROVE  Shape'
  BY <1>4 DEF EnterDtor, StartWalk
<1>5. ASSUME NEW t \in Thread, NEW n \in Node, NEW o \in {"export", "unexport"},
             BeginExport(t, n, o)
      PROVE  Shape'
  <2>1. ~overlap' => ~overlap /\ \A u \in Thread \ {t} : ~Destroying(u)
    BY <1>5 DEF BeginExport, OtherDestroys
  <2>2. ExpiredHasDtor'
    BY <1>5 DEF BeginExport, StartWalk, tree
  <2>3. Calm'
    BY <1>5, <2>1 DEF BeginExport, StartWalk
  <2>4. BornOK' /\ ChildHasParent'
    BY <1>5 DEF BeginExport, tree
  <2>5. QED
    BY <2>2, <2>3, <2>4
<1>6. ASSUME NEW t \in Thread, WalkUp(t)
      PROVE  Shape'
  BY <1>6 DEF WalkUp, HasLiveParent, tree
<1>7. ASSUME NEW t \in Thread, WalkDone(t)
      PROVE  Shape'
  <2>1. UNCHANGED <<tree, birth, overlap>>
    BY <1>7 DEF WalkDone
  <2>2. target[t] \in Node /\ life[target[t]] # "unborn"
    BY <1>7 DEF WalkDone
  <2>3. BornOK' /\ ChildHasParent'
    BY <1>7, <2>1, <2>2 DEF WalkDone, tree
  <2>4. ExpiredHasDtor' /\ Calm'
    <3>1. CASE op[t] = "destroy"
      <4>1. /\ pc' = [pc EXCEPT ![t] = "adopt"]
            /\ UNCHANGED <<life, op, target, overlap>>
        BY <1>7, <3>1 DEF WalkDone, tree
      <4>2. \A u \in Thread : pc'[u] = "idle" <=> pc[u] = "idle"
        BY <1>7, <4>1 DEF WalkDone
      <4>3. QED
        BY <4>1, <4>2
    <3>2. CASE op[t] # "destroy"
      <4>1. EndCall(t)
        BY <1>7, <3>2 DEF WalkDone
      <4>2. QED
        BY <2>1, <3>2, <4>1 DEF EndCall, tree
    <3>3. QED
      BY <3>1, <3>2
  <2>5. QED
    BY <2>3, <2>4
<1>8. ASSUME NEW t \in Thread, NEW c \in Node, AdoptChild(t, c)
      PROVE  Shape'
  BY <1>8, BelowNotEmpty DEF AdoptChild, AdoptedName, AdoptedChildren
<1>9. ASSUME NEW t \in Thread, NEW c \in Node, SkipChild(t, c)
      PROVE  Shape'
  BY <1>9 DEF SkipChild
<1>10. ASSUME NEW t \in Thread, LeaveDtor(t)
       PROVE  Shape'
  BY <1>10 DEF LeaveDtor, EndCall
<1>11. CASE UNCHANGED vars
  BY <1>11 DEF vars
<1>12. QED
  BY <1>1, <1>2, <1>3, <1>4, <1>5, <1>6, <1>7, <1>8, <1>9, <1>10, <1>11
     DEF Next, ClientCall, LockedStep

-----------------------------------------------------------------------------
LEMMA LinksInit == Init => LinksAgree
BY DEF Init, LinksAgree

LEMMA LinksStep == Base /\ Shape /\ LinksAgree /\ [Next]_vars => LinksAgree'
<1> SUFFICES ASSUME Base, Shape, LinksAgree, [Next]_vars,
                    NEW q \in Node, life'[q] = "live"
             PROVE  children'[q] =
                      {x \in Node : /\ parent'[x] = q
                                    /\ life'[x] = "live" \/ Pending(x)'}
  BY DEF LinksAgree
<1> USE NoNodeAssumption, NoThreadAssumption
    DEF Base, TypeOK, LockOwner, CallOK, OneDtor, Destroying, Path, Pending,
        Shape, BornOK, ChildHasParent, LinksAgree
<1>1. CASE \E t \in Thread, n \in Node, s \in Name : MakeRoot(t, n, s)
  BY <1>1 DEF MakeRoot
<1>2. CASE \E t \in Thread, p \in Node, c \in Node, s \in Name :
             MakeChild(t, p, c, s)
  BY <1>2 DEF MakeChild
<1>3. CASE \E t \in Thread, n \in Node : Release(t, n)
  BY <1>3 DEF Release
<1>4. CASE \E t \in Thread : EnterDtor(t)
  BY <1>4 DEF EnterDtor, StartWalk, HasLiveParent
<1>5. CASE \E t \in Thread, n \in Node, o \in {"export", "unexport"} :
             BeginExport(t, n, o)
  BY <1>5 DEF BeginExport, StartWalk, tree
<1>6. CASE \E t \in Thread : WalkUp(t)
  BY <1>6 DEF WalkUp, tree
<1>7. CASE \E t \in Thread : WalkDone(t)
  <2> PICK t \in Thread : WalkDone(t)
    BY <1>7
  <2>1. UNCHANGED tree
    BY DEF WalkDone
  <2>2. \A u \in Thread : /\ pc'[u] = "enter" <=> pc[u] = "enter"
                          /\ pc[u] = "enter" => target'[u] = target[u]
    BY DEF WalkDone, EndCall
  <2>3. ASSUME NEW x \in Node PROVE Pending(x)' <=> Pending(x)
    BY ONLY <2>2 DEF Pending
  <2>4. UNCHANGED <<life, parent, children>>
    BY <2>1 DEF tree
  <2>5. QED
    <3> HIDE DEF Pending
    <3> QED
      BY <2>3, <2>4
<1>8. CASE \E t \in Thread, c \in Node : AdoptChild(t, c)
  BY <1>8 DEF AdoptChild, AdoptedChildren, HasLiveParent
<1>9. CASE \E t \in Thread, c \in Node : SkipChild(t, c)
  BY <1>9 DEF SkipChild
<1>10. CASE \E t \in Thread : LeaveDtor(t)
  BY <1>10 DEF LeaveDtor, EndCall
<1>11. CASE UNCHANGED vars
  BY <1>11 DEF vars
<1>12. QED
  BY <1>1, <1>2, <1>3, <1>4, <1>5, <1>6, <1>7, <1>8, <1>9, <1>10, <1>11
     DEF Next, ClientCall, LockedStep

-----------------------------------------------------------------------------
\* Without overlap: a node is not its own parent (its path would extend
\* itself), and only the node of the one destructor at work can be expired.
LEMMA CalmFacts ==
  ASSUME Base, Shape, PathLocal, ~overlap
  PROVE  /\ \A n \in Node : life[n] \in {"live", "expired"} => parent[n] # n
         /\ \A t \in Thread, n \in Node :
              pc[t] # "idle" /\ life[n] = "expired"
                => Destroying(t) /\ target[t] = n
         /\ \A n, m \in Node : life[n] = "expired" /\ life[m] = "expired" => n = m
<1> USE DEF Base, TypeOK
<1>1. ASSUME NEW n \in Node, life[n] \in {"live", "expired"}, parent[n] = n
      PROVE  FALSE
  <2>1. birth[n] = Below(birth[n], name[n])
    BY <1>1, NoNodeAssumption DEF PathLocal
  <2>2. name[n] # <<>>
    BY <1>1 DEF Shape, BornOK
  <2>3. QED
    BY <1>1, <2>1, <2>2, BelowProper
<1>2. \A t \in Thread, n \in Node :
        pc[t] # "idle" /\ life[n] = "expired" => Destroying(t) /\ target[t] = n
  BY DEF Shape, ExpiredHasDtor, Calm
<1>3. \A n, m \in Node : life[n] = "expired" /\ life[m] = "expired" => n = m
  BY DEF Shape, ExpiredHasDtor, Calm, Destroying
<1>4. QED
  BY <1>1, <1>2, <1>3

\* Overlap is never forgotten.
LEMMA OverlapStays == TypeOK /\ [Next]_vars /\ ~overlap' => ~overlap
<1> USE DEF TypeOK
<1>1. ASSUME NEW t \in Thread, ClientCall(t), ~overlap' PROVE ~overlap
  BY <1>1 DEF ClientCall, MakeRoot, MakeChild, Release, BeginExport
<1>2. ASSUME NEW t \in Thread, EnterDtor(t) \/ LockedStep(t), ~overlap'
      PROVE  ~overlap
  BY <1>2 DEF EnterDtor, LockedStep, WalkUp, WalkDone, AdoptChild, SkipChild,
              LeaveDtor
<1>3. QED
  BY <1>1, <1>2 DEF Next, vars

LEMMA ListCompleteStep ==
  Base /\ Shape /\ LinksAgree /\ Lineage /\ [Next]_vars => ListComplete'
<1> SUFFICES ASSUME Base, Shape, LinksAgree, Lineage, [Next]_vars, ~overlap',
                    NEW x \in Node, life'[x] = "live", parent'[x] # NoNode,
                    life'[parent'[x]] = "expired"
             PROVE  x \in children'[parent'[x]]
  BY DEF ListComplete
<1>0. ~overlap
  BY OverlapStays DEF Base
<1>a. /\ \A n \in Node : life[n] \in {"live", "expired"} => parent[n] # n
      /\ \A t \in Thread, n \in Node :
           pc[t] # "idle" /\ life[n] = "expired" => target[t] = n
  BY <1>0, CalmFacts DEF Lineage
<1> USE <1>0, <1>a, NoNodeAssumption
    DEF Base, TypeOK, CallOK, Shape, BornOK, ChildHasParent, Lineage,
        ListComplete
<1>1. CASE \E t \in Thread, n \in Node, s \in Name : MakeRoot(t, n, s)
  BY <1>1 DEF MakeRoot
<1>2. CASE \E t \in Thread, p \in Node, c \in Node, s \in Name :
             MakeChild(t, p, c, s)
  BY <1>2 DEF MakeChild
<1>3. CASE \E t \in Thread, n \in Node : Release(t, n)
  BY <1>3 DEF Release, LinksAgree
<1>4. CASE \E t \in Thread : EnterDtor(t)
  BY <1>4 DEF EnterDtor, HasLiveParent
<1>5. CASE \E t \in Thread, n \in Node, o \in {"export", "unexport"} :
             BeginExport(t, n, o)
  BY <1>5 DEF BeginExport, tree
<1>6. CASE \E t \in Thread : WalkUp(t)
  BY <1>6 DEF WalkUp, tree
<1>7. CASE \E t \in Thread : WalkDone(t)
  BY <1>7 DEF WalkDone, tree
<1>8. CASE \E t \in Thread, c \in Node : AdoptChild(t, c)
  BY <1>8 DEF AdoptChild, AdoptedChildren, HasLiveParent
<1>9. CASE \E t \in Thread, c \in Node : SkipChild(t, c)
  BY <1>9 DEF SkipChild
<1>10. CASE \E t \in Thread : LeaveDtor(t)
  BY <1>10 DEF LeaveDtor, EndCall
<1>11. CASE UNCHANGED vars
  BY <1>11 DEF vars
<1>12. QED
  BY <1>1, <1>2, <1>3, <1>4, <1>5, <1>6, <1>7, <1>8, <1>9, <1>10, <1>11
     DEF Next, ClientCall, LockedStep

LEMMA PathLocalStep ==
  Base /\ Shape /\ LinksAgree /\ Lineage /\ [Next]_vars => PathLocal'
<1> SUFFICES ASSUME Base, Shape, LinksAgree, Lineage, [Next]_vars, ~overlap',
                    NEW x \in Node, life'[x] \in {"live", "expired"}
             PROVE  birth'[x] =
                      IF parent'[x] = NoNode \/ life'[parent'[x]] = "dead"
                        THEN name'[x]
                        ELSE Below(birth'[parent'[x]], name'[x])
  BY DEF PathLocal
<1>0. ~overlap
  BY OverlapStays DEF Base
<1>a. /\ \A n \in Node : life[n] \in {"live", "expired"} => parent[n] # n
      /\ \A t \in Thread, n \in Node :
           pc[t] # "idle" /\ life[n] = "expired" => target[t] = n
  BY <1>0, CalmFacts DEF Lineage
<1> USE <1>0, <1>a, NoNodeAssumption
    DEF Base, TypeOK, CallOK, Shape, BornOK, ChildHasParent, Lineage,
        PathLocal
<1>1. CASE \E t \in Thread, n \in Node, s \in Name : MakeRoot(t, n, s)
  BY <1>1 DEF MakeRoot
<1>2. CASE \E t \in Thread, p \in Node, c \in Node, s \in Name :
             MakeChild(t, p, c, s)
  <2> PICK t \in Thread, p \in Node, c \in Node, s \in Name :
             MakeChild(t, p, c, s)
    BY <1>2
  <2>2. /\ life[p] = "live" /\ life[c] = "unborn"
        /\ life' = [life EXCEPT ![c] = "live"]
        /\ name' = [name EXCEPT ![c] = <<s>>]
        /\ parent' = [parent EXCEPT ![c] = p]
        /\ birth' = [birth EXCEPT ![c] = Below(birth[p], <<s>>)]
    BY DEF MakeChild
  <2>3. CASE x = c
    BY <2>2, <2>3
  <2>4. CASE x # c
    <3>1. /\ parent[x] # c /\ parent'[x] = parent[x]
          /\ life'[x] = life[x] /\ name'[x] = name[x] /\ birth'[x] = birth[x]
      BY <2>2, <2>4
    <3>2. parent[x] # NoNode => /\ life'[parent[x]] = life[parent[x]]
                                /\ birth'[parent[x]] = birth[parent[x]]
      BY <2>2, <3>1
    <3>3. CASE parent[x] = NoNode
      BY <3>1, <3>3
    <3>4. CASE parent[x] # NoNode
      BY <3>1, <3>2, <3>4
    <3>5. QED
      BY <3>3, <3>4
  <2>5. QED
    BY <2>3, <2>4
<1>3. CASE \E t \in Thread, n \in Node : Release(t, n)
  BY <1>3 DEF Release
<1>4. CASE \E t \in Thread : EnterDtor(t)
  BY <1>4 DEF EnterDtor
<1>5. CASE \E t \in Thread, n \in Node, o \in {"export", "unexport"} :
             BeginExport(t, n, o)
  BY <1>5 DEF BeginExport, tree
<1>6. CASE \E t \in Thread : WalkUp(t)
  BY <1>6 DEF WalkUp, tree
<1>7. CASE \E t \in Thread : WalkDone(t)
  <2>1. UNCHANGED <<life, name, parent, birth>>
    BY <1>7 DEF WalkDone, tree
  <2>2. QED
    BY <2>1
<1>8. CASE \E t \in Thread, c \in Node : AdoptChild(t, c)
  <2> PICK t \in Thread, c \in Node : AdoptChild(t, c)
    BY <1>8
  <2> DEFINE v == target[t]
  <2>1. /\ v \in Node /\ life[v] = "expired" /\ life[c] = "live"
        /\ parent[c] = v
    <3>1. pc[t] = "adopt" /\ c \in children[v] /\ life[c] = "live"
      BY DEF AdoptChild
    <3>2. v \in Node /\ life[v] = "expired"
      BY <3>1
    <3>3. QED
      BY <3>1, <3>2
  <2>2. /\ birth[c] = Below(birth[v], name[c])
        /\ birth[v] = IF parent[v] = NoNode \/ life[parent[v]] = "dead"
                        THEN name[v] ELSE Below(birth[parent[v]], name[v])
    <3> HIDE DEF v
    <3> QED
      BY <2>1
  <2>3. /\ name' = [name EXCEPT ![c] = Below(name[v], name[c])]
        /\ parent' = [parent EXCEPT ![c] = parent[v]]
        /\ UNCHANGED <<life, birth>>
    BY DEF AdoptChild, AdoptedName
  <2>4. CASE x # c
    BY <2>3, <2>4
  <2>5. CASE x = c
    <3>1. CASE parent[v] = NoNode \/ life[parent[v]] = "dead"
      BY <2>1, <2>2, <2>3, <2>5, <3>1
    <3>2. CASE ~(parent[v] = NoNode \/ life[parent[v]] = "dead")
      <4>1. parent[v] \in Node
        BY <2>1, <3>2
      <4>2. Below(Below(birth[parent[v]], name[v]), name[c])
              = Below(birth[parent[v]], Below(name[v], name[c]))
        BY <2>1, <4>1, BelowAssociative
      <4>3. QED
        BY <2>1, <2>2, <2>3, <2>5, <3>2, <4>1, <4>2
    <3>3. QED
      BY <3>1, <3>2
  <2>6. QED
    BY <2>4, <2>5
<1>9. CASE \E t \in Thread, c \in Node : SkipChild(t, c)
  BY <1>9 DEF SkipChild
<1>10. CASE \E t \in Thread : LeaveDtor(t)
  <2> PICK t \in Thread : LeaveDtor(t)
    BY <1>10
  <2>1. /\ target[t] \in Node /\ life[target[t]] = "expired"
        /\ children[target[t]] = {} /\ pc[t] = "adopt"
        /\ life' = [life EXCEPT ![target[t]] = "dead"]
        /\ UNCHANGED <<name, parent, birth>>
    BY DEF LeaveDtor
  <2>2. x # target[t] /\ life[x] = life'[x]
    BY <2>1
  <2>3. life[x] = "live"
    BY <2>1, <2>2
  <2>4. parent[x] # target[t]
    BY <2>1, <2>3 DEF ListComplete
  <2>5. parent[x] # NoNode => life'[parent[x]] = life[parent[x]]
    BY <2>1, <2>4
  <2>6. QED
    BY <2>1, <2>2, <2>5
<1>11. CASE UNCHANGED vars
  BY <1>11 DEF vars
<1>12. QED
  BY <1>1, <1>2, <1>3, <1>4, <1>5, <1>6, <1>7, <1>8, <1>9, <1>10, <1>11
     DEF Next, ClientCall, LockedStep

\* A walk that starts at a node, or goes on at the parent, has the path below
\* the next parent that locks.
LEMMA WalkFrom ==
  ASSUME Base, Shape, PathLocal, ~overlap,
         NEW n \in Node, life[n] \in {"live", "expired"},
         \A m \in Node : life[m] = "expired" => parent[n] # m
  PROVE  birth[n] = IF HasLiveParent(n) THEN Below(birth[parent[n]], name[n])
                                        ELSE name[n]
BY NoNodeAssumption
   DEF Base, TypeOK, Shape, BornOK, PathLocal, HasLiveParent

LEMMA WalkOKStep ==
  Base /\ Base' /\ Shape /\ Lineage /\ [Next]_vars => WalkOK'
<1> SUFFICES ASSUME Base, Base', Shape, Lineage, [Next]_vars, ~overlap',
                    NEW w \in Thread, pc'[w] = "walk"
             PROVE  birth'[target'[w]] =
                      IF HasLiveParent(cur[w])'
                        THEN Below(birth'[parent'[cur'[w]]], acc'[w])
                        ELSE acc'[w]
  BY DEF WalkOK
<1>0. ~overlap /\ TypeOK
  BY OverlapStays DEF Base
<1>a. /\ \A n \in Node : life[n] \in {"live", "expired"} => parent[n] # n
      /\ \A t \in Thread, n \in Node :
           pc[t] # "idle" /\ life[n] = "expired"
             => Destroying(t) /\ target[t] = n
      /\ \A n, m \in Node : life[n] = "expired" /\ life[m] = "expired" => n = m
  BY <1>0, CalmFacts DEF Lineage
<1>b. ASSUME pc[w] = "walk", target'[w] = target[w], cur'[w] = cur[w],
             acc'[w] = acc[w], parent' = parent, birth' = birth, life' = life
      PROVE  birth'[target'[w]] =
               IF HasLiveParent(cur[w])'
                 THEN Below(birth'[parent'[cur'[w]]], acc'[w])
                 ELSE acc'[w]
  BY <1>0, <1>b DEF Lineage, WalkOK, HasLiveParent
<1>c. \A t \in Thread : t # w /\ pc[w] = "walk" =>
        /\ pc[t] \notin {"walk", "adopt"}
        /\ hierarchy_lock # NoThread
  BY NoThreadAssumption DEF Base, LockOwner
<1>1. CASE \E t \in Thread, n \in Node, s \in Name : MakeRoot(t, n, s)
  BY <1>0, <1>1 DEF MakeRoot, Base, TypeOK, CallOK
<1>2. CASE \E t \in Thread, p \in Node, c \in Node, s \in Name :
             MakeChild(t, p, c, s)
  <2> PICK t \in Thread, p \in Node, c \in Node, s \in Name :
             MakeChild(t, p, c, s)
    BY <1>2
  <2>1. /\ life[c] = "unborn"
        /\ life' = [life EXCEPT ![c] = "live"]
        /\ parent' = [parent EXCEPT ![c] = p]
        /\ birth' = [birth EXCEPT ![c] = Below(birth[p], <<s>>)]
        /\ UNCHANGED <<pc, target, cur, acc>>
    BY DEF MakeChild
  <2>2. /\ target[w] \in Node /\ target[w] # c
        /\ cur[w] \in Node /\ cur[w] # c
    BY <2>1 DEF Base, TypeOK, CallOK
  <2>3. /\ parent'[cur[w]] = parent[cur[w]] /\ parent[cur[w]] # c
        /\ birth'[target[w]] = birth[target[w]]
    BY <2>1, <2>2, NoNodeAssumption DEF Base, TypeOK, Shape, BornOK
  <2>4. HasLiveParent(cur[w])' <=> HasLiveParent(cur[w])
    BY <2>1, <2>3, <1>0 DEF HasLiveParent, TypeOK
  <2>5. HasLiveParent(cur[w]) => birth'[parent[cur[w]]] = birth[parent[cur[w]]]
    BY <2>1, <2>2, <2>3, <1>0 DEF HasLiveParent, TypeOK
  <2>6. birth[target[w]] = IF HasLiveParent(cur[w])
                             THEN Below(birth[parent[cur[w]]], acc[w])
                             ELSE acc[w]
    BY <2>1, <1>0 DEF Lineage, WalkOK
  <2>7. /\ target'[w] = target[w] /\ cur'[w] = cur[w] /\ acc'[w] = acc[w]
    BY <2>1
  <2>8. HasLiveParent(cur[w])' <=> HasLiveParent(cur[w])
    BY <2>4, <2>7 DEF HasLiveParent
  <2>9. QED
    BY <2>3, <2>5, <2>6, <2>7, <2>8
<1>3. CASE \E t \in Thread, n \in Node : Release(t, n)
  <2> PICK t \in Thread, n \in Node : Release(t, n)
    BY <1>3
  <2>1. \A u \in Thread \ {t} : pc[u] = "idle"
    BY DEF Release, OtherBusy
  <2>2. QED
    BY <2>1, <1>0 DEF Release, TypeOK
<1>4. CASE \E t \in Thread : EnterDtor(t)
  <2> PICK t \in Thread : EnterDtor(t)
    BY <1>4
  <2>1. /\ pc[t] = "enter" /\ hierarchy_lock = NoThread
        /\ UNCHANGED <<life, name, parent, target, birth>>
        /\ pc' = [pc EXCEPT ![t] = "walk"]
        /\ cur' = [cur EXCEPT ![t] = target[t]]
        /\ acc' = [acc EXCEPT ![t] = name[target[t]]]
    BY DEF EnterDtor, StartWalk
  <2>2. w = t
    BY <1>0, <1>c, <2>1 DEF TypeOK
  <2>3. target[w] \in Node /\ life[target[w]] = "expired"
    BY <2>1, <2>2 DEF Base, TypeOK, CallOK
  <2>4. \A m \in Node : life[m] = "expired" => parent[target[w]] # m
    BY <2>3, <1>a
  <2>5. birth[target[w]] = IF HasLiveParent(target[w])
                             THEN Below(birth[parent[target[w]]],
                                        name[target[w]])
                             ELSE name[target[w]]
    BY <2>3, <2>4, <1>0, WalkFrom DEF Lineage
  <2>6. /\ cur'[w] = target[w] /\ acc'[w] = name[target[w]]
        /\ target'[w] = target[w]
    BY <2>1, <2>2, <1>0 DEF TypeOK
  <2>7. HasLiveParent(cur[w])' <=> HasLiveParent(target[w])
    BY <2>1, <2>6 DEF HasLiveParent
  <2>8. QED
    BY <2>1, <2>5, <2>6, <2>7
<1>5. CASE \E t \in Thread, n \in Node, o \in {"export", "unexport"} :
             BeginExport(t, n, o)
  <2> PICK t \in Thread, n \in Node, o \in {"export", "unexport"} :
             BeginExport(t, n, o)
    BY <1>5
  <2>1. /\ pc[t] = "idle" /\ life[n] = "live" /\ hierarchy_lock = NoThread
        /\ UNCHANGED <<life, name, parent, birth>>
        /\ pc' = [pc EXCEPT ![t] = "walk"]
        /\ cur' = [cur EXCEPT ![t] = n]
        /\ acc' = [acc EXCEPT ![t] = name[n]]
        /\ target' = [target EXCEPT ![t] = n]
    BY DEF BeginExport, StartWalk, tree
  <2>2. w = t
    BY <1>0, <1>c, <2>1 DEF TypeOK
  <2>3. \A u \in Thread \ {t} : ~Destroying(u)
    BY DEF BeginExport, OtherDestroys
  <2>4. \A m \in Node : life[m] # "expired"
    BY <2>1, <2>3 DEF Shape, ExpiredHasDtor, Destroying
  <2>5. birth[n] = IF HasLiveParent(n) THEN Below(birth[parent[n]], name[n])
                                       ELSE name[n]
    BY <2>1, <2>4, <1>0, WalkFrom DEF Lineage
  <2>6. /\ cur'[w] = n /\ acc'[w] = name[n] /\ target'[w] = n
    BY <2>1, <2>2, <1>0 DEF TypeOK
  <2>7. HasLiveParent(cur[w])' <=> HasLiveParent(n)
    BY <2>1, <2>6 DEF HasLiveParent
  <2>8. QED
    BY <2>1, <2>5, <2>6, <2>7
<1>6. CASE \E t \in Thread : WalkUp(t)
  <2> PICK t \in Thread : WalkUp(t)
    BY <1>6
  <2> DEFINE p == parent[cur[t]]
             v == target[t]
  <2>1. /\ pc[t] = "walk" /\ HasLiveParent(cur[t])
        /\ UNCHANGED <<life, name, parent, pc, target, birth>>
        /\ cur' = [cur EXCEPT ![t] = p]
        /\ acc' = [acc EXCEPT ![t] = Below(name[p], acc[t])]
    BY DEF WalkUp, tree
  <2>2. w = t
    BY <2>1, <1>c
  <2>3. /\ v \in Node /\ p \in Node /\ life[p] = "live"
        /\ birth[v] \in Path /\ birth[p] \in Path /\ name[p] \in Path
        /\ acc[t] \in Path /\ name[p] # <<>>
    BY <2>1 DEF Base, TypeOK, CallOK, HasLiveParent, Shape, BornOK
  <2>4. birth[v] = Below(birth[p], acc[t])
    BY <2>1, <1>0 DEF Lineage, WalkOK
  <2>5. ASSUME NEW m \in Node, life[m] = "expired", parent[p] = m
        PROVE  FALSE
    <3>1. m = v
      BY <2>1, <2>5, <1>a
    <3>2. birth[p] = Below(birth[v], name[p])
      BY <2>3, <2>5, <3>1, <1>0, NoNodeAssumption DEF Lineage, PathLocal
    <3>3. birth[v] = Below(birth[v], Below(name[p], acc[t]))
      <4> HIDE DEF p, v
      <4> QED
        BY <2>3, <2>4, <3>2, BelowAssociative
    <3>4. /\ Below(name[p], acc[t]) \in Path
          /\ Below(name[p], acc[t]) # <<>>
      <4> HIDE DEF p
      <4> QED
        BY <2>3, BelowType, BelowNotEmpty
    <3>5. QED
      <4> HIDE DEF p, v
      <4> QED
        BY <2>3, <3>3, <3>4, BelowProper
  <2>6. birth[p] = IF HasLiveParent(p) THEN Below(birth[parent[p]], name[p])
                                       ELSE name[p]
    BY <2>3, <2>5, <1>0, WalkFrom DEF Lineage
  <2>7. HasLiveParent(p) =>
          Below(Below(birth[parent[p]], name[p]), acc[t])
            = Below(birth[parent[p]], Below(name[p], acc[t]))
    <3>1. HasLiveParent(p) => birth[parent[p]] \in Path
      BY <2>3, <1>0 DEF HasLiveParent, TypeOK
    <3> HIDE DEF p
    <3> QED
      BY <2>3, <3>1, BelowAssociative
  <2>8. /\ cur'[w] = p /\ acc'[w] = Below(name[p], acc[t])
        /\ target'[w] = v
    BY <2>1, <2>2, <1>0 DEF TypeOK
  <2>9. HasLiveParent(cur[w])' <=> HasLiveParent(p)
    BY <2>1, <2>8 DEF HasLiveParent
  <2>10. QED
    <3> HIDE DEF p, v
    <3> QED
      BY <2>1, <2>4, <2>6, <2>7, <2>8, <2>9
<1>7. CASE \E t \in Thread : WalkDone(t)
  <2> PICK t \in Thread : WalkDone(t)
    BY <1>7
  <2>1. t # w
    BY <1>0 DEF WalkDone, EndCall, TypeOK
  <2>2. pc[t] = "walk" /\ pc[w] = "walk"
    BY <2>1, <1>0 DEF WalkDone, EndCall, TypeOK
  <2>3. QED
    BY <1>c, <2>1, <2>2
<1>8. CASE \E t \in Thread, c \in Node : AdoptChild(t, c)
  BY <1>8, <1>c DEF AdoptChild
<1>9. CASE \E t \in Thread, c \in Node : SkipChild(t, c)
  BY <1>9, <1>c DEF SkipChild
<1>10. CASE \E t \in Thread : LeaveDtor(t)
  BY <1>10, <1>c, <1>0 DEF LeaveDtor, EndCall, TypeOK
<1>11. CASE UNCHANGED vars
  BY <1>11, <1>b DEF vars
<1>12. QED
  BY <1>1, <1>2, <1>3, <1>4, <1>5, <1>6, <1>7, <1>8, <1>9, <1>10, <1>11
     DEF Next, ClientCall, LockedStep

-----------------------------------------------------------------------------
LEMMA ExportsStep ==
  Base /\ Base' /\ Shape /\ LinksAgree /\ Lineage /\ Exports /\ [Next]_vars
    => Exports'
<1> SUFFICES ASSUME Base, Base', Shape, LinksAgree, Lineage, Exports,
                    [Next]_vars, ~overlap'
             PROVE  /\ \A x \in Node : /\ exported'[x] \subseteq {birth'[x]}
                                       /\ life'[x] = "dead" => exported'[x] = {}
                    /\ \A w \in Thread : pc'[w] = "adopt"
                                           => exported'[target'[w]] = {}
  BY DEF Exports, ExportsTracked, AdoptOK
<1>0. ~overlap
  BY OverlapStays DEF Base
<1>a. /\ \A x \in Node : /\ exported[x] \subseteq {birth[x]}
                         /\ life[x] = "dead" => exported[x] = {}
      /\ \A w \in Thread : pc[w] = "adopt" => exported[target[w]] = {}
  BY <1>0 DEF Exports, ExportsTracked, AdoptOK
<1>b. \A t, u \in Thread : pc[t] \in {"walk", "adopt"} /\ pc[u] \in {"walk", "adopt"}
                             => t = u
  BY DEF Base, LockOwner
<1> USE <1>a DEF Base, TypeOK, CallOK
<1>1. CASE \E t \in Thread, n \in Node, s \in Name : MakeRoot(t, n, s)
  BY <1>1 DEF MakeRoot, Shape, BornOK
<1>2. CASE \E t \in Thread, p \in Node, c \in Node, s \in Name :
             MakeChild(t, p, c, s)
  BY <1>2 DEF MakeChild, Shape, BornOK
<1>3. CASE \E t \in Thread, n \in Node : Release(t, n)
  BY <1>3 DEF Release
<1>4. CASE \E t \in Thread : EnterDtor(t)
  BY <1>4 DEF EnterDtor, StartWalk
<1>5. CASE \E t \in Thread, n \in Node, o \in {"export", "unexport"} :
             BeginExport(t, n, o)
  BY <1>5 DEF BeginExport, StartWalk, tree
<1>6. CASE \E t \in Thread : WalkUp(t)
  BY <1>6 DEF WalkUp, tree
<1>7. CASE \E t \in Thread : WalkDone(t)
  <2> PICK t \in Thread : WalkDone(t)
    BY <1>7
  <2>1. /\ pc[t] = "walk" /\ ~HasLiveParent(cur[t]) /\ target[t] \in Node
        /\ life[target[t]] = IF op[t] = "destroy" THEN "expired" ELSE "live"
        /\ exported' = [exported EXCEPT ![target[t]] = Exported(t)]
        /\ life' = life /\ birth' = birth
    BY DEF WalkDone, tree
  <2>2. acc[t] = birth[target[t]]
    BY <1>0, <2>1 DEF Lineage, WalkOK
  <2>3. /\ Exported(t) \subseteq {birth[target[t]]}
        /\ op[t] = "destroy" => Exported(t) = {}
    BY <2>1, <2>2 DEF Exported
  <2>4. \A x \in Node : /\ exported'[x] \subseteq {birth'[x]}
                        /\ life'[x] = "dead" => exported'[x] = {}
    BY <2>1, <2>3
  <2>5. ASSUME NEW w \in Thread, pc'[w] = "adopt"
        PROVE  exported'[target'[w]] = {}
    <3>1. CASE op[t] = "destroy"
      <4>1. pc' = [pc EXCEPT ![t] = "adopt"] /\ target' = target
        BY <3>1 DEF WalkDone
      <4>2. w = t
        BY <1>b, <2>1, <2>5, <4>1
      <4>3. QED
        BY <2>1, <2>3, <3>1, <4>1, <4>2
    <3>2. CASE op[t] # "destroy"
      <4>1. pc' = [pc EXCEPT ![t] = "idle"]
        BY <3>2 DEF WalkDone, EndCall
      <4>2. w # t /\ pc[w] = "adopt"
        BY <2>5, <4>1
      <4>3. QED
        BY <1>b, <2>1, <4>2
    <3>3. QED
      BY <3>1, <3>2
  <2>6. QED
    BY <2>4, <2>5
<1>8. CASE \E t \in Thread, c \in Node : AdoptChild(t, c)
  BY <1>8 DEF AdoptChild
<1>9. CASE \E t \in Thread, c \in Node : SkipChild(t, c)
  BY <1>9 DEF SkipChild
<1>10. CASE \E t \in Thread : LeaveDtor(t)
  BY <1>10 DEF LeaveDtor, EndCall
<1>11. CASE UNCHANGED vars
  BY <1>11 DEF vars
<1>12. QED
  BY <1>1, <1>2, <1>3, <1>4, <1>5, <1>6, <1>7, <1>8, <1>9, <1>10, <1>11
     DEF Next, ClientCall, LockedStep

-----------------------------------------------------------------------------
\* Every step preserves what bounds walks and loops.
LEMMA EndsInit == Init => Ends
BY FS_EmptySet DEF Init, Ends, ListsFinite, Descends

LEMMA EndsStep == Base /\ Shape /\ Ends /\ [Next]_vars => Ends'
<1> SUFFICES ASSUME Base, Shape, Ends, [Next]_vars PROVE Ends'
  OBVIOUS
<1>1. /\ children \in [Node -> SUBSET Node]
      /\ parent \in [Node -> Node \cup {NoNode}]
      /\ birth \in [Node -> Path] /\ NoNode \notin Node
  BY NoNodeAssumption DEF Base, TypeOK
<1>2. \A n \in Node : Len(birth[n]) \in Nat
  BY <1>1 DEF Path
<1>3. ASSUME NEW n \in Node, NEW c
      PROVE  /\ IsFiniteSet(children[n] \cup {c})
             /\ IsFiniteSet(children[n] \ {c})
  BY FS_AddElement, FS_RemoveElement DEF Ends, ListsFinite
<1>4. ASSUME NEW t \in Thread, NEW n \in Node, NEW s \in Name, MakeRoot(t, n, s)
      PROVE  Ends'
  <2>1. /\ life[n] = "unborn" /\ birth' = [birth EXCEPT ![n] = <<s>>]
        /\ UNCHANGED <<parent, children>>
    BY <1>4 DEF MakeRoot
  <2>2. parent[n] = NoNode /\ \A m \in Node : parent[m] # n
    BY <1>1, <2>1 DEF Shape, BornOK
  <2> QED
    BY <1>1, <2>1, <2>2 DEF Ends, ListsFinite, Descends
<1>5. ASSUME NEW t \in Thread, NEW p \in Node, NEW c \in Node, NEW s \in Name,
             MakeChild(t, p, c, s)
      PROVE  Ends'
  <2>1. /\ life[p] = "live" /\ life[c] = "unborn"
        /\ parent' = [parent EXCEPT ![c] = p]
        /\ children' = [children EXCEPT ![p] = @ \cup {c}]
        /\ birth' = [birth EXCEPT ![c] = Below(birth[p], <<s>>)]
    BY <1>5 DEF MakeChild
  <2>2. \A m \in Node : parent[m] # c
    BY <1>1, <2>1 DEF Shape, BornOK
  <2>3. Len(Below(birth[p], <<s>>)) = Len(birth[p]) + 1
    BY <1>1, ConcatProperties, ShortPaths DEF Below, Path
  <2>4. ListsFinite'
    BY <1>1, <1>3, <2>1 DEF Ends, ListsFinite
  <2>5. Descends'
    BY <1>1, <1>2, <2>1, <2>2, <2>3 DEF Ends, Descends
  <2> QED
    BY <2>4, <2>5 DEF Ends
<1>6. ASSUME NEW t \in Thread, EnterDtor(t)
      PROVE  Ends'
  <2>1. /\ UNCHANGED <<parent, birth>>
        /\ \A m \in Node : \/ children'[m] = children[m]
                            \/ children'[m] = children[m] \ {target[t]}
    BY <1>1, <1>6 DEF EnterDtor
  <2>2. ASSUME NEW m \in Node
        PROVE  IsFiniteSet(children'[m])
    <3>1. IsFiniteSet(children[m]) /\ IsFiniteSet(children[m] \ {target[t]})
      BY <1>3 DEF Ends, ListsFinite
    <3> QED
      BY <2>1, <3>1
  <2> QED
    BY <2>1, <2>2 DEF Ends, ListsFinite, Descends
<1>7. ASSUME NEW t \in Thread, NEW c \in Node, AdoptChild(t, c)
      PROVE  Ends'
  <2> DEFINE v == target[t]
  <2>1. /\ v \in Node /\ c \in children[v]
        /\ parent' = [parent EXCEPT ![c] = parent[v]]
        /\ children' = AdoptedChildren(v, c)
        /\ birth' = birth
    BY <1>7 DEF AdoptChild, Base, CallOK, TypeOK
  <2> HIDE DEF v
  <2>2. \A n \in Node : \/ children'[n] = children[n]
                        \/ children'[n] = children[n] \ {c}
                        \/ children'[n] = children[n] \cup {c}
    BY <2>1 DEF AdoptedChildren
  <2>3. ASSUME NEW m \in Node
        PROVE  IsFiniteSet(children'[m])
    <3>1. /\ IsFiniteSet(children[m]) /\ IsFiniteSet(children[m] \ {c})
          /\ IsFiniteSet(children[m] \cup {c})
      BY <1>3 DEF Ends, ListsFinite
    <3> QED
      BY <2>2, <3>1
  <2>4. parent[c] = v
    BY <2>1 DEF Shape, ChildHasParent
  <2>5. Len(birth[v]) < Len(birth[c])
    BY <1>1, <2>1, <2>4 DEF Ends, Descends
  <2>6. parent[v] # NoNode => Len(birth[parent[v]]) < Len(birth[v])
    BY <2>1 DEF Ends, Descends
  <2>7. parent[v] # NoNode => Len(birth[parent[v]]) < Len(birth[c])
    BY <1>1, <1>2, <2>1, <2>5, <2>6
  <2>8. Descends'
    BY <1>1, <2>1, <2>7 DEF Ends, Descends
  <2> QED
    BY <2>3, <2>8 DEF Ends, ListsFinite
<1>8. ASSUME NEW t \in Thread, NEW c \in Node, SkipChild(t, c)
      PROVE  Ends'
  <2>1. /\ UNCHANGED <<parent, birth>>
        /\ children' = [children EXCEPT ![target[t]] = @ \ {c}]
    BY <1>8 DEF SkipChild
  <2>2. ListsFinite'
    BY <1>1, <1>3, <2>1 DEF Ends, ListsFinite
  <2> QED
    BY <2>1, <2>2 DEF Ends, Descends
<1>9. CASE UNCHANGED <<parent, children, birth>>
  BY <1>9 DEF Ends, ListsFinite, Descends
<1>10. ASSUME NEW t \in Thread
       PROVE  /\ \A n : Release(t, n) => UNCHANGED <<parent, children, birth>>
              /\ \A n, o : BeginExport(t, n, o) =>
                            UNCHANGED <<parent, children, birth>>
              /\ WalkUp(t) \/ WalkDone(t) \/ LeaveDtor(t) =>
                   UNCHANGED <<parent, children, birth>>
  BY DEF Release, BeginExport, WalkUp, WalkDone, LeaveDtor, tree
<1>11. CASE UNCHANGED vars
  BY <1>9, <1>11 DEF vars
<1> QED
  BY <1>4, <1>5, <1>6, <1>7, <1>8, <1>9, <1>10, <1>11
     DEF Next, ClientCall, LockedStep

\* What a step does to the work of the thread that holds the lock.
LEMMA OwnStepCloser ==
  ASSUME Base, Ends, NEW t \in Thread, LockedStep(t),
         hierarchy_lock = t, hierarchy_lock' = t
  PROVE  Closer(t)
<1>1. t # NoThread
  BY NoThreadAssumption
<1>2. CASE WalkUp(t)
  <2>1. /\ pc[t] = "walk" /\ pc' = pc /\ birth' = birth
        /\ cur[t] \in Node /\ parent[cur[t]] # NoNode
        /\ cur'[t] = parent[cur[t]]
    BY <1>2 DEF WalkUp, HasLiveParent, Base, CallOK, TypeOK
  <2>2. Len(birth[parent[cur[t]]]) < Len(birth[cur[t]])
    BY <2>1 DEF Ends, Descends
  <2> QED
    BY <2>1, <2>2 DEF Closer, Left
<1>3. CASE WalkDone(t)
  <2>1. pc[t] = "walk" /\ pc' = [pc EXCEPT ![t] = "adopt"]
    BY <1>1, <1>3 DEF WalkDone, EndCall
  <2>2. pc'[t] = "adopt"
    BY <2>1 DEF Base, TypeOK
  <2> QED
    BY <2>1, <2>2 DEF Closer
<1>4. CASE \E c \in Node : AdoptChild(t, c) \/ SkipChild(t, c)
  <2>1. PICK c \in Node : AdoptChild(t, c) \/ SkipChild(t, c)
    BY <1>4
  <2>2. /\ pc[t] = "adopt" /\ pc' = pc /\ target' = target
        /\ target[t] \in Node /\ c \in children[target[t]]
        /\ children'[target[t]] = children[target[t]] \ {c}
    BY <2>1 DEF AdoptChild, SkipChild, AdoptedChildren, Base, CallOK, TypeOK
  <2>3. IsFiniteSet(children[target[t]])
    BY <2>2 DEF Ends, ListsFinite
  <2>4. /\ Cardinality(children[target[t]]) \in Nat
        /\ Cardinality(children[target[t]] \ {c})
             = Cardinality(children[target[t]]) - 1
    BY <2>2, <2>3, FS_RemoveElement, FS_CardinalityType
  <2> QED
    BY <2>2, <2>4 DEF Closer, Left
<1>5. CASE LeaveDtor(t)
  BY <1>1, <1>5 DEF LeaveDtor, EndCall
<1> QED
  BY <1>2, <1>3, <1>4, <1>5 DEF LockedStep

LEMMA OtherStepAsClose ==
  ASSUME Base, NEW t \in Thread, NEW u \in Thread,
         ClientCall(u) \/ EnterDtor(u) \/ LockedStep(u), ~LockedStep(t),
         hierarchy_lock = t
  PROVE  AsClose(t)
<1>1. /\ t # NoThread /\ pc[t] \in {"walk", "adopt"}
      /\ pc[t] = "walk" => cur[t] \in Node /\ life[cur[t]] # "unborn"
      /\ pc[t] = "adopt" => target[t] \in Node /\ life[target[t]] = "expired"
      /\ birth \in [Node -> Path] /\ children \in [Node -> SUBSET Node]
      /\ pc \in [Thread -> {"idle", "enter", "walk", "adopt"}]
      /\ target \in [Thread -> Node \cup {NoNode}]
  BY NoThreadAssumption DEF Base, LockOwner, CallOK, TypeOK
<1>2. u # t => pc[u] \notin {"walk", "adopt"}
  BY DEF Base, LockOwner
<1>3. ~LockedStep(u)
  BY <1>2 DEF LockedStep, WalkUp, WalkDone, AdoptChild, SkipChild, LeaveDtor
<1>4. ~EnterDtor(u) /\ \A n, o : ~BeginExport(u, n, o)
  BY <1>1 DEF EnterDtor, BeginExport, StartWalk
<1>5. ASSUME NEW n \in Node, NEW s \in Name, MakeRoot(u, n, s)
      PROVE  AsClose(t)
  <2>1. /\ pc[t] = "adopt"
        /\ UNCHANGED <<pc, target, children>>
    BY <1>1, <1>5 DEF MakeRoot
  <2> QED
    BY <2>1 DEF AsClose, Left
<1>6. ASSUME NEW p \in Node, NEW c \in Node, NEW s \in Name, MakeChild(u, p, c, s)
      PROVE  AsClose(t)
  <2>1. /\ UNCHANGED <<pc, target, cur>>
        /\ life[p] = "live" /\ life[c] = "unborn"
        /\ \A n \in Node : n # c => birth'[n] = birth[n]
        /\ \A n \in Node : n # p => children'[n] = children[n]
    BY <1>1, <1>6 DEF MakeChild
  <2> QED
    BY <1>1, <2>1 DEF AsClose, Left
<1>7. ASSUME NEW n \in Node, Release(u, n)
      PROVE  AsClose(t)
  <2>1. u # t
    BY <1>1, <1>7 DEF Release
  <2>2. /\ UNCHANGED <<birth, children, cur>>
        /\ pc'[t] = pc[t] /\ target'[t] = target[t]
    BY <1>1, <1>7, <2>1 DEF Release
  <2> QED
    BY <2>2 DEF AsClose, Left
<1> QED
  BY <1>3, <1>4, <1>5, <1>6, <1>7 DEF ClientCall

-----------------------------------------------------------------------------
IInv == Base /\ Shape /\ LinksAgree /\ Lineage /\ Exports /\ Ends

LEMMA Invariance == Spec => []IInv
<1>1. Init => IInv
  <2>1. Init => Lineage /\ Exports
    BY DEF Init, Lineage, ListComplete, PathLocal, WalkOK, Exports,
           ExportsTracked, AdoptOK
  <2>2. QED
    BY <2>1, BaseInit, ShapeInit, LinksInit, EndsInit DEF IInv
<1>2. IInv /\ [Next]_vars => IInv'
  <2> SUFFICES ASSUME IInv, [Next]_vars PROVE IInv'
    OBVIOUS
  <2> USE DEF IInv
  <2>1. Base'
    BY BaseStep
  <2>2. Shape'
    BY ShapeStep
  <2>3. LinksAgree'
    BY LinksStep
  <2>4. Lineage'
    BY <2>1, ListCompleteStep, PathLocalStep, WalkOKStep DEF Lineage
  <2>5. Exports'
    BY <2>1, ExportsStep
  <2>6. Ends'
    BY EndsStep
  <2>7. QED
    BY <2>1, <2>2, <2>3, <2>4, <2>5, <2>6
<1>3. QED
  BY <1>1, <1>2, PTL DEF Spec

\* The children list of a live node is exactly the set of nodes that name it
\* as their parent, under any interleaving of destructors: an element erased
\* by ~node is in the list it is erased from.
THEOREM LinksCorrect == Spec => []LinksAgree
<1>1. IInv => LinksAgree
  BY DEF IInv
<1>2. QED
  BY <1>1, Invariance, PTL

\* As long as no destructor meets another operation, renaming the orphans of
\* a destroyed node keeps every node at the path it was created at.
THEOREM PathsKept == Spec => []PathLocal
<1>1. IInv => PathLocal
  BY DEF IInv, Lineage
<1>2. QED
  BY <1>1, Invariance, PTL

\* Under the same condition a node is registered at its own path or not at
\* all, and not at all once its destructor is over.
THEOREM ExportsCorrect == Spec => []ExportsTracked
<1>1. IInv => ExportsTracked
  BY DEF IInv, Exports
<1>2. QED
  BY <1>1, Invariance, PTL

\* Every step of a thread that holds the lock brings it closer to the release,
\* by a measure that is a number, and no step of another thread takes it away
\* from it.
THEOREM LockedWorkEnds == Spec => NearerToRelease
<1>1. IInv /\ [Next]_vars => [StepsEnd]_vars
  <2> SUFFICES ASSUME IInv, Next, NEW t \in Thread,
                      hierarchy_lock = t, hierarchy_lock' = t
               PROVE  /\ Closer(t) \/ AsClose(t)
                      /\ LockedStep(t) => Closer(t)
    BY DEF StepsEnd
  <2>1. Base /\ Ends
    BY DEF IInv
  <2>2. LockedStep(t) => Closer(t)
    BY <2>1, OwnStepCloser
  <2>3. ~LockedStep(t) => AsClose(t)
    BY <2>1, OtherStepAsClose DEF Next
  <2> QED
    BY <2>2, <2>3
<1>2. QED
  BY <1>1, Invariance, PTL DEF Spec, NearerToRelease

\* That measure is a number, so that it cannot decrease for ever.
THEOREM LockedWorkCounted ==
  Spec => [](\A t \in Thread : hierarchy_lock = t => Left(t) \in Nat)
<1>1. IInv => \A t \in Thread : hierarchy_lock = t => Left(t) \in Nat
  <2> SUFFICES ASSUME IInv, NEW t \in Thread, hierarchy_lock = t
               PROVE  Left(t) \in Nat
    OBVIOUS
  <2>1. /\ pc[t] \in {"walk", "adopt"}
        /\ pc[t] = "walk" => cur[t] \in Node
        /\ pc[t] = "adopt" => target[t] \in Node
        /\ birth \in [Node -> Seq(Name)]
    BY DEF IInv, Base, LockOwner, CallOK, TypeOK, Path
  <2>2. \A n \in Node : Len(birth[n]) \in Nat
    BY <2>1
  <2>3. \A n \in Node : Cardinality(children[n]) \in Nat
    BY FS_CardinalityType DEF IInv, Ends, ListsFinite
  <2> QED
    BY <2>1, <2>2, <2>3 DEF Left
<1>2. QED
  BY <1>1, Invariance, PTL

=============================================================================
