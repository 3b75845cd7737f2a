------------------------------ MODULE NodeTree ------------------------------
(***************************************************************************)
(* The node hierarchy of ipcgull: src/src/node.cpp, and the two functions  *)
(* of server_gdbus.cpp that compute a node's path.                         *)
(*                                                                         *)
(* Every node of a tree holds weak pointers to its parent and its children *)
(* and shares one recursive mutex with them, _hierarchy_lock.  When the    *)
(* last shared_ptr to a node goes away its weak pointers expire AT ONCE,   *)
(* while ~node still has to wait for the lock: `life' keeps the two apart  *)
(* ("expired": no lock() succeeds any more, the destructor has not         *)
(* finished).  ~node unlinks the node from its parent, withdraws it from   *)
(* the server under the path it computes then, and hands its children to   *)
(* its own parent, prefixing their names with its own.                     *)
(*                                                                         *)
(* A path is the sequence of its segments, so that "a/b" is <<a, b>>.      *)
(* The server is reduced here to the set of paths under which a node is    *)
(* registered; module Registry models it in full.                          *)
(*                                                                         *)
(* An operator marked "mutant" is a wrong variant of the one after it,     *)
(* kept to show that a property notices the difference.                    *)
(***************************************************************************)
EXTENDS Naturals, Sequences, FiniteSets

CONSTANTS
  Node,       \* identities a node object can have, each used once
  Thread,     \* threads of the client program
  Name,       \* path segments a client gives to make_root and make_child
  NoNode,     \* an empty weak pointer
  NoThread    \* the mutex is free

ASSUME NoNodeAssumption == NoNode \notin Node
ASSUME NoThreadAssumption == NoThread \notin Thread

VARIABLES
  life,            \* "unborn", "live", "expired" (in ~node) or "dead"
  name,            \* node::_name
  parent,          \* node::_parent, whether or not it still locks
  children,        \* node::_children
  exported,        \* paths under which the server has the node registered
  hierarchy_lock,  \* the thread that holds *_hierarchy_lock
  pc, op, target,  \* where a thread is, in which operation, on which node
  cur, acc,        \* tree_name: the node reached and the path built so far
  birth,           \* history: the path the client built the node at
  overlap          \* history: a destructor has met another operation

tree == <<life, name, parent, children>>
walking == <<cur, acc>>
vars == <<life, name, parent, children, exported, hierarchy_lock,
          pc, op, target, cur, acc, birth, overlap>>

-----------------------------------------------------------------------------
Path == Seq(Name)

\* up + "/" + down
Below(up, down) == up \o down

TypeOK ==
  /\ life \in [Node -> {"unborn", "live", "expired", "dead"}]
  /\ name \in [Node -> Path]
  /\ parent \in [Node -> Node \cup {NoNode}]
  /\ children \in [Node -> SUBSET Node]
  /\ exported \in [Node -> SUBSET Path]
  /\ hierarchy_lock \in Thread \cup {NoThread}
  /\ pc \in [Thread -> {"idle", "enter", "walk", "adopt"}]
  /\ op \in [Thread -> {"none", "export", "unexport", "destroy"}]
  /\ target \in [Thread -> Node \cup {NoNode}]
  /\ cur \in [Thread -> Node \cup {NoNode}]
  /\ acc \in [Thread -> Path]
  /\ birth \in [Node -> Path]
  /\ overlap \in BOOLEAN

Init ==
  /\ life = [n \in Node |-> "unborn"]
  /\ name = [n \in Node |-> <<>>]
  /\ parent = [n \in Node |-> NoNode]
  /\ children = [n \in Node |-> {}]
  /\ exported = [n \in Node |-> {}]
  /\ hierarchy_lock = NoThread
  /\ pc = [t \in Thread |-> "idle"]
  /\ op = [t \in Thread |-> "none"]
  /\ target = [t \in Thread |-> NoNode]
  /\ cur = [t \in Thread |-> NoNode]
  /\ acc = [t \in Thread |-> <<>>]
  /\ birth = [n \in Node |-> <<>>]
  /\ overlap = FALSE

-----------------------------------------------------------------------------
\* _parent.lock() succeeds.
HasLiveParent(n) == parent[n] # NoNode /\ life[parent[n]] = "live"

Destroying(t) == pc[t] # "idle" /\ op[t] = "destroy"

\* Some thread other than t is between the expiry of a node and the end of
\* its destructor, or (for the start of a destructor) in any operation.
OtherDestroys(t) == \E u \in Thread \ {t} : Destroying(u)
OtherBusy(t) == \E u \in Thread \ {t} : pc[u] # "idle"

\* node::make_root.  One tree is modelled: trees share nothing, each has a
\* lock of its own.
MakeRoot(t, n, s) ==
  /\ pc[t] = "idle"
  /\ \A m \in Node : life[m] = "unborn"
  /\ life' = [life EXCEPT ![n] = "live"]
  /\ name' = [name EXCEPT ![n] = <<s>>]
  /\ birth' = [birth EXCEPT ![n] = <<s>>]
  /\ UNCHANGED <<parent, children, exported, hierarchy_lock, pc, op, target,
                 cur, acc, overlap>>

\* The destructor of a child of p is at work: it edits p->_children.
ListInUse(p) ==
  \E u \in Thread : /\ Destroying(u) /\ pc[u] # "enter"
                    /\ parent[target[u]] = p

\* node::make_child: no lock is taken.  The caller holds p.  Editing the list
\* at the same time as a child's destructor does is a data race that the
\* client has to exclude, and that is excluded here.
MakeChild(t, p, c, s) ==
  /\ pc[t] = "idle"
  /\ life[p] = "live" /\ life[c] = "unborn"
  /\ ~ListInUse(p)
  /\ life' = [life EXCEPT ![c] = "live"]
  /\ name' = [name EXCEPT ![c] = <<s>>]
  /\ parent' = [parent EXCEPT ![c] = p]
  /\ children' = [children EXCEPT ![p] = @ \cup {c}]
  /\ birth' = [birth EXCEPT ![c] = Below(birth[p], <<s>>)]
  /\ UNCHANGED <<exported, hierarchy_lock, pc, op, target, cur, acc, overlap>>

\* The last shared_ptr to n is dropped by t: every weak_ptr to n expires and
\* ~node is entered, which first waits for the lock.  A thread that operates
\* on a node holds a shared_ptr to it.
Release(t, n) ==
  /\ pc[t] = "idle"
  /\ life[n] = "live"
  /\ \A u \in Thread : target[u] # n
  /\ life' = [life EXCEPT ![n] = "expired"]
  /\ pc' = [pc EXCEPT ![t] = "enter"]
  /\ op' = [op EXCEPT ![t] = "destroy"]
  /\ target' = [target EXCEPT ![t] = n]
  /\ overlap' = (overlap \/ OtherBusy(t))
  /\ UNCHANGED <<name, parent, children, exported, hierarchy_lock, cur, acc,
                 birth>>

\* tree_name starts: the lock is taken for the whole recursion.
StartWalk(t, n) ==
  /\ hierarchy_lock = NoThread
  /\ hierarchy_lock' = t
  /\ pc' = [pc EXCEPT ![t] = "walk"]
  /\ cur' = [cur EXCEPT ![t] = n]
  /\ acc' = [acc EXCEPT ![t] = name[n]]

\* ~node gets the lock, leaves its parent's list if the parent still locks,
\* and starts to compute the path that drop_server withdraws.
EnterDtor(t) ==
  /\ pc[t] = "enter"
  /\ StartWalk(t, target[t])
  /\ children' = IF HasLiveParent(target[t])
                   THEN [children EXCEPT ![parent[target[t]]] = @ \ {target[t]}]
                   ELSE children
  /\ UNCHANGED <<life, name, parent, exported, op, target, birth, overlap>>

\* add_interface(o = "export") or drop_interface(o = "unexport") of a node
\* the caller holds: the path is computed first.
BeginExport(t, n, o) ==
  /\ pc[t] = "idle"
  /\ life[n] = "live"
  /\ StartWalk(t, n)
  /\ op' = [op EXCEPT ![t] = o]
  /\ target' = [target EXCEPT ![t] = n]
  /\ overlap' = (overlap \/ OtherDestroys(t))
  /\ UNCHANGED <<tree, exported, birth>>

\* tree_name: one level up.
WalkUp(t) ==
  /\ pc[t] = "walk"
  /\ HasLiveParent(cur[t])
  /\ cur' = [cur EXCEPT ![t] = parent[cur[t]]]
  /\ acc' = [acc EXCEPT ![t] = Below(name[parent[cur[t]]], @)]
  /\ UNCHANGED <<tree, exported, hierarchy_lock, pc, op, target, birth,
                 overlap>>

\* The operation is over and the lock is released.
EndCallStillLocked(t) ==                                          \* mutant
  /\ hierarchy_lock' = hierarchy_lock
  /\ pc' = [pc EXCEPT ![t] = "idle"]
  /\ op' = [op EXCEPT ![t] = "none"]
  /\ target' = [target EXCEPT ![t] = NoNode]

EndCall(t) ==
  /\ hierarchy_lock' = NoThread
  /\ pc' = [pc EXCEPT ![t] = "idle"]
  /\ op' = [op EXCEPT ![t] = "none"]
  /\ target' = [target EXCEPT ![t] = NoNode]

\* What t's operation does with the path it computed.
ExportedAfterDtor(t) ==                                           \* mutant
  IF op[t] = "unexport" THEN exported[target[t]] \ {acc[t]}
  ELSE IF op[t] = "export" THEN exported[target[t]] \cup {acc[t]}
                           ELSE exported[target[t]]

Exported(t) ==
  IF op[t] = "export" THEN exported[target[t]] \cup {acc[t]}
                      ELSE exported[target[t]] \ {acc[t]}

\* tree_name ends at a node whose parent does not lock; the path is used.
\* A destructor goes on to its orphans, any other operation is over.
WalkDone(t) ==
  /\ pc[t] = "walk"
  /\ ~HasLiveParent(cur[t])
  /\ exported' = [exported EXCEPT ![target[t]] = Exported(t)]
  /\ cur' = [cur EXCEPT ![t] = NoNode]
  /\ acc' = [acc EXCEPT ![t] = <<>>]
  /\ IF op[t] = "destroy"
       THEN /\ pc' = [pc EXCEPT ![t] = "adopt"]
            /\ UNCHANGED <<hierarchy_lock, op, target>>
       ELSE EndCall(t)
  /\ UNCHANGED <<tree, birth, overlap>>

\* The name an orphan c of v continues under.
AdoptedNameUnprefixed(v, c) == name[c]                            \* mutant
AdoptedNameNested(v, c) == Append(name[v], name[c])               \* mutant
AdoptedName(v, c) == Below(name[v], name[c])

\* v's list gives c up; v's parent, if it still locks, takes it.
AdoptedChildrenUnlisted(v, c) ==                                  \* mutant
  [children EXCEPT ![v] = @ \ {c}]

AdoptedChildrenSpliced(v, c) ==                                   \* mutant
  IF HasLiveParent(v)
    THEN [children EXCEPT ![v] = @ \ {c}, ![parent[v]] = @ \cup {c}]
    ELSE children

AdoptedChildren(v, c) ==
  [n \in Node |-> IF n = v THEN children[v] \ {c}
                  ELSE IF HasLiveParent(v) /\ n = parent[v]
                         THEN children[n] \cup {c}
                         ELSE children[n]]

\* One round of ~node's loop over _children, when the child still locks.
AdoptChild(t, c) ==
  LET v == target[t] IN
  /\ pc[t] = "adopt"
  /\ c \in children[v] /\ life[c] = "live"
  /\ name' = [name EXCEPT ![c] = AdoptedName(v, c)]
  /\ parent' = [parent EXCEPT ![c] = parent[v]]
  /\ children' = AdoptedChildren(v, c)
  /\ UNCHANGED <<life, exported, hierarchy_lock, pc, op, target, cur, acc,
                 birth, overlap>>

\* The same round when the child has expired, which the assertion before it
\* denies and a release build passes over.
SkipChild(t, c) ==
  LET v == target[t] IN
  /\ pc[t] = "adopt"
  /\ c \in children[v] /\ life[c] # "live"
  /\ children' = [children EXCEPT ![v] = @ \ {c}]
  /\ UNCHANGED <<life, name, parent, exported, hierarchy_lock, pc, op, target,
                 cur, acc, birth, overlap>>

\* ~node ends and the lock is released.
LeaveDtor(t) ==
  /\ pc[t] = "adopt"
  /\ children[target[t]] = {}
  /\ life' = [life EXCEPT ![target[t]] = "dead"]
  /\ EndCall(t)
  /\ UNCHANGED <<name, parent, children, exported, cur, acc, birth, overlap>>

-----------------------------------------------------------------------------
\* What a thread does while it holds the lock.
LockedStep(t) ==
  \/ WalkUp(t)
  \/ WalkDone(t)
  \/ \E c \in Node : AdoptChild(t, c)
  \/ \E c \in Node : SkipChild(t, c)
  \/ LeaveDtor(t)

ClientCall(t) ==
  \/ \E n \in Node, s \in Name : MakeRoot(t, n, s)
  \/ \E p \in Node, c \in Node, s \in Name : MakeChild(t, p, c, s)
  \/ \E n \in Node : Release(t, n)
  \/ \E n \in Node, o \in {"export", "unexport"} : BeginExport(t, n, o)

Next == \E t \in Thread : ClientCall(t) \/ EnterDtor(t) \/ LockedStep(t)

Spec == Init /\ [][Next]_vars

\* ~node has the path and calls drop_interface of the server, which waits for
\* server_lock.  The hierarchy lock is held all the while.
InServer(t) ==
  /\ pc[t] = "walk" /\ op[t] = "destroy"
  /\ ~HasLiveParent(cur[t])

\* A thread that holds the lock and waits for no other one is not descheduled
\* for ever.  Nothing is assumed of a thread that waits for the lock, as a mutex
\* is not a fair queue, nor of a destructor that is in the server: server_lock
\* may be with a thread that wants the hierarchy lock (module Locks).
Fairness == \A t \in Thread : WF_vars(LockedStep(t) /\ ~InServer(t))

FairSpec == Spec /\ Fairness

-----------------------------------------------------------------------------
(***************************************************************************)
(* Properties.                                                             *)
(***************************************************************************)

\* Waiting for the lock in ~node, so not yet unlinked.
Pending(n) == \E t \in Thread : pc[t] = "enter" /\ target[t] = n

\* The list of a live node holds exactly the nodes whose _parent is that
\* node, whatever destructors of children, of the node's former siblings and
\* of its parents ran at the same time: the _parent_it that ~node erases
\* (node.cpp:49-52) is always in the list it is erased from.
LinksAgree ==
  \A p \in Node : life[p] = "live" =>
    children[p] = {c \in Node : /\ parent[c] = p
                                /\ life[c] = "live" \/ Pending(c)}

\* As long as no destructor met another operation, what the renaming of
\* orphans (node.cpp:57-69) is for: a node's own name and its parent's path
\* still make up the path the node was created at, through any sequence of
\* destructions above it, also half way through one.
PathLocal ==
  ~overlap =>
    \A n \in Node : life[n] \in {"live", "expired"} =>
      birth[n] = IF parent[n] = NoNode \/ life[parent[n]] = "dead"
                   THEN name[n]
                   ELSE Below(birth[parent[n]], name[n])

\* As long as no destructor met another operation, a node is never registered
\* under a path other than its own, and nothing of it stays registered once
\* its destructor is over, whatever happened to its ancestors in between.
ExportsTracked ==
  ~overlap =>
    \A n \in Node : /\ exported[n] \subseteq {birth[n]}
                    /\ life[n] = "dead" => exported[n] = {}

\* The code that runs under the hierarchy lock ends, whatever the other threads
\* do meanwhile: the walk up the tree ends with the release of the lock or, in
\* ~node, with the call of the server, which may take for ever; and once that
\* call has returned the loop over the orphans ends with the release.
LockReleased ==
  \A t \in Thread : hierarchy_lock = t ~> hierarchy_lock # t \/ InServer(t)

\* What is left to do for a thread that holds the lock: at most that many levels
\* of a walk, or children to look at.
Left(t) == IF pc[t] = "walk" THEN Len(birth[cur[t]])
                             ELSE Cardinality(children[target[t]])

Closer(t) == \/ pc[t] = "walk" /\ pc'[t] = "adopt"
             \/ pc'[t] = pc[t] /\ Left(t)' < Left(t)

AsClose(t) == pc'[t] = pc[t] /\ Left(t)' = Left(t)

StepsEnd ==
  \A t \in Thread : hierarchy_lock = t /\ hierarchy_lock' = t =>
    /\ Closer(t) \/ AsClose(t)
    /\ LockedStep(t) => Closer(t)

\* Each step of a thread that holds the lock brings it closer to the release, and
\* no step of another thread takes it further away: no node becomes an ancestor
\* of its own, however orphans are handed up while nodes above them expire, and
\* nobody adds to the list of a node in its destructor.
NearerToRelease == [][StepsEnd]_vars

\* assert(!x.expired()), node.cpp:59: a destructor finds only children that
\* still lock in its list.
OrphanNotExpired ==
  \A t \in Thread : pc[t] = "adopt" =>
    \A c \in children[target[t]] : life[c] # "expired"
=============================================================================
