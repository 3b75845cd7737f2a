------------------------------ MODULE Registry ------------------------------
(***************************************************************************)
(* Which interfaces of which nodes a server has on the bus: the interface  *)
(* table of a node (node.h, node.cpp), the owner of an interface           *)
(* (interface.cpp) and the tables of the D-Bus server (server_gdbus.cpp).  *)
(*                                                                         *)
(* Each server function runs under server_lock and is one step here.  The  *)
(* node functions that call it do so once per interface and hold no lock   *)
(* in between: `call' keeps how far each of them has got, so that a method *)
(* call from the bus, and the calls of other threads, fall between any two *)
(* steps.  A node and its table have no lock: two threads never call into  *)
(* the same node at the same time.                                         *)
(*                                                                         *)
(* The path of a node is fixed (NodeTree shows when that is so), and two   *)
(* nodes may have the same one if they do not exist at the same time.      *)
(* There is one server, the most a process can have.                       *)
(*                                                                         *)
(* An operator marked "mutant" is a wrong variant of the one after it,     *)
(* kept to show that a property notices the difference.                    *)
(***************************************************************************)
CONSTANTS
  Thread,
  Node, Path, PathOf,      \* node objects and full_name of each
  Iface, IfName, NameOf,   \* interface objects and interface::name of each
  NoNode, NoIface

ASSUME PathOfAssumption == PathOf \in [Node -> Path]
ASSUME NameOfAssumption == NameOf \in [Iface -> IfName]
ASSUME NoneAssumption == NoNode \notin Node /\ NoIface \notin Iface

VARIABLES
  life,       \* "unborn", "live", "dying" (in ~node) or "dead"
  table,      \* node::_interfaces, a set of interface objects
  attached,   \* the server is in node::_servers
  ifLife,     \* "unborn", "live" or "dead"
  owner,      \* interface::_owner
  up,         \* the server object exists
  ifsOf,      \* internal_node::interfaces and what GDBus has registered
  entryNode,  \* internal_node::object
  call,       \* the node function each thread is in
  dropped     \* history: drop_server was called on the node

nodeVars == <<life, table, attached>>
ifaceVars == <<ifLife, owner>>
serverVars == <<up, ifsOf, entryNode>>
vars == <<nodeVars, ifaceVars, serverVars, call, dropped>>

-----------------------------------------------------------------------------
Ops == {"idle", "make", "add", "undo", "drop_server", "drop", "destroy"}

Call == [op : Ops, node : Node \cup {NoNode}, iface : Iface \cup {NoIface},
         todo : SUBSET IfName, done : SUBSET IfName]

Idle == [op |-> "idle", node |-> NoNode, iface |-> NoIface,
         todo |-> {}, done |-> {}]

TypeOK ==
  /\ life \in [Node -> {"unborn", "live", "dying", "dead"}]
  /\ table \in [Node -> SUBSET Iface]
  /\ attached \in [Node -> BOOLEAN]
  /\ ifLife \in [Iface -> {"unborn", "live", "dead"}]
  /\ owner \in [Iface -> Node \cup {NoNode}]
  /\ up \in BOOLEAN
  /\ ifsOf \in [Path -> SUBSET IfName]
  /\ entryNode \in [Path -> Node \cup {NoNode}]
  /\ call \in [Thread -> Call]
  /\ dropped \subseteq Node

Init ==
  /\ life = [n \in Node |-> "unborn"]
  /\ table = [n \in Node |-> {}]
  /\ attached = [n \in Node |-> FALSE]
  /\ ifLife = [x \in Iface |-> "unborn"]
  /\ owner = [x \in Iface |-> NoNode]
  /\ up = TRUE
  /\ ifsOf = [p \in Path |-> {}]
  /\ entryNode = [p \in Path |-> NoNode]
  /\ call = [t \in Thread |-> Idle]
  /\ dropped = {}

-----------------------------------------------------------------------------
(***************************************************************************)
(* The server's functions.                                                 *)
(***************************************************************************)

\* server::add_interface that succeeds: the interface is registered and the
\* entry of the path is made if there is none.
ServerAdd(n, i) ==
  LET p == PathOf[n] IN
  /\ i \notin ifsOf[p]
  /\ ifsOf' = [ifsOf EXCEPT ![p] = @ \cup {i}]
  /\ entryNode' = IF ifsOf[p] = {} THEN [entryNode EXCEPT ![p] = n]
                                   ELSE entryNode
  /\ UNCHANGED up

\* server::drop_interface.  With its last interface the entry goes.  (What
\* happens to the object that its node manages is in Managed.)
ServerDrop(p, i) ==
  /\ ifsOf' = [ifsOf EXCEPT ![p] = @ \ {i}]
  /\ entryNode' = IF ifsOf[p] = {i} THEN [entryNode EXCEPT ![p] = NoNode]
                                   ELSE entryNode
  /\ UNCHANGED up

\* What gdbus_method_call, gdbus_get_property and gdbus_set_property find for a
\* path and an interface name: the entry of the path, its node, the name in
\* the node's table, the interface.
Lookup(p, i) ==
  LET n == entryNode[p]
      found == {x \in table[n] : NameOf[x] = i}
  IN IF ifsOf[p] = {} THEN "unknown object"
     ELSE IF life[n] # "live" THEN "object no longer exists"
     ELSE IF found = {} THEN "unknown interface"
     ELSE IF \A x \in found : ifLife[x] # "live" THEN "interface expired"
     ELSE "found"

-----------------------------------------------------------------------------
(***************************************************************************)
(* The node's functions.                                                   *)
(***************************************************************************)
NamesOf(n) == {NameOf[x] : x \in table[n]}

Busy(n) == \E t \in Thread : call[t].node = n

Usable(t, n) == call[t].op = "idle" /\ life[n] = "live" /\ ~Busy(n)

Served(n) == up /\ attached[n]

Begin(t, op, n, x, todo) ==
  call' = [call EXCEPT ![t] = [op |-> op, node |-> n, iface |-> x,
                               todo |-> todo, done |-> {}]]

GoOn(t, todo, done) ==
  call' = [call EXCEPT ![t] = [op |-> call[t].op, node |-> call[t].node,
                               iface |-> call[t].iface,
                               todo |-> todo, done |-> done]]

Return(t) == call' = [call EXCEPT ![t] = Idle]

\* make_root (m = NoNode) or make_child of m, which has a name no other child
\* of m has.  The child starts with m's servers, and with no interfaces.
CreateNode(t, n, m) ==
  /\ call[t].op = "idle"
  /\ life[n] = "unborn"
  /\ \A k \in Node : PathOf[k] = PathOf[n] => life[k] \in {"unborn", "dead"}
  /\ m # NoNode => Usable(t, m)
  /\ life' = [life EXCEPT ![n] = "live"]
  /\ attached' = [attached EXCEPT ![n] = m # NoNode /\ up /\ attached[m]]
  /\ UNCHANGED <<table, ifaceVars, serverVars, call, dropped>>

\* make_interface: a name the node already has is refused before anything
\* changes; otherwise the interface goes to the server first ...
BeginMake(t, n, x) ==
  /\ Usable(t, n)
  /\ ifLife[x] = "unborn"
  /\ NameOf[x] \notin NamesOf(n)
  /\ ifLife' = [ifLife EXCEPT ![x] = "live"]
  /\ Begin(t, "make", n, x, IF Served(n) THEN {NameOf[x]} ELSE {})
  /\ UNCHANGED <<nodeVars, owner, serverVars, dropped>>

\* ... and only then gets its owner and its place in the table.
FinishMake(t) ==
  LET n == call[t].node
      x == call[t].iface
  IN /\ call[t].op = "make"
     /\ call[t].todo = {}
     /\ owner' = [owner EXCEPT ![x] = n]
     /\ table' = [table EXCEPT ![n] = @ \cup {x}]
     /\ Return(t)
     /\ UNCHANGED <<life, attached, ifLife, serverVars, dropped>>

\* interface's copy and move constructors: the new object has the tables of x
\* and no owner, so that its destruction touches no node.
CopyKeepsOwner(x) == owner[x]                                      \* mutant
CopyOwner(x) == NoNode

CopyIface(t, x, y) ==
  /\ call[t].op = "idle"
  /\ ifLife[x] = "live" /\ ifLife[y] = "unborn"
  /\ NameOf[x] = NameOf[y]
  /\ ifLife' = [ifLife EXCEPT ![y] = "live"]
  /\ owner' = [owner EXCEPT ![y] = CopyOwner(x)]
  /\ UNCHANGED <<nodeVars, serverVars, call, dropped>>

\* node::add_server: every interface of the table in turn.
AddNothing(n) == {}                                                \* mutant
ToAdd(n) == NamesOf(n)

BeginAddServer(t, n) ==
  /\ Usable(t, n)
  /\ up /\ ~attached[n]
  /\ Begin(t, "add", n, NoIface, ToAdd(n))
  /\ UNCHANGED <<nodeVars, ifaceVars, serverVars, dropped>>

FinishAddServer(t) ==
  /\ call[t].op = "add"
  /\ call[t].todo = {}
  /\ attached' = [attached EXCEPT ![call[t].node] = TRUE]
  /\ Return(t)
  /\ UNCHANGED <<life, table, ifaceVars, serverVars, dropped>>

\* One successful add_interface of make_interface or add_server.
AddOne(t, i) ==
  /\ call[t].op \in {"make", "add"}
  /\ i \in call[t].todo
  /\ ServerAdd(call[t].node, i)
  /\ GoOn(t, call[t].todo \ {i}, call[t].done \cup {i})
  /\ UNCHANGED <<nodeVars, ifaceVars, dropped>>

\* What a failed add_server takes back.
RollbackNothing(t) == {}                                           \* mutant
RollbackByObject(t) == {call[t].iface}                             \* mutant
Rollback(t) == call[t].done

\* add_interface throws, because of GDBus or because the path already has an
\* interface of that name: add_server takes back what it had added, the new
\* interface of make_interface is destroyed.
AddFails(t, i) ==
  /\ call[t].op \in {"make", "add"}
  /\ i \in call[t].todo
  /\ IF call[t].op = "add"
       THEN /\ Begin(t, "undo", call[t].node, NoIface, Rollback(t))
            /\ UNCHANGED ifLife
       ELSE /\ Return(t)
            /\ ifLife' = [ifLife EXCEPT ![call[t].iface] = "dead"]
  /\ UNCHANGED <<nodeVars, owner, serverVars, dropped>>

\* node::drop_server.  The server stays in _servers.
BeginDropServer(t, n) ==
  /\ Usable(t, n)
  /\ Served(n)
  /\ Begin(t, "drop_server", n, NoIface, NamesOf(n))
  /\ dropped' = dropped \cup {n}
  /\ UNCHANGED <<nodeVars, ifaceVars, serverVars>>

\* node::drop_interface of an interface that goes on to exist.
BeginDrop(t, n, x) ==
  /\ Usable(t, n)
  /\ x \in table[n]
  /\ Begin(t, "drop", n, x, IF Served(n) THEN {NameOf[x]} ELSE {})
  /\ UNCHANGED <<nodeVars, ifaceVars, serverVars, dropped>>

\* ~interface: drop_interface of the owner, if the owner still locks.
DestroyIface(t, x) ==
  LET n == owner[x] IN
  /\ call[t].op = "idle"
  /\ ifLife[x] = "live"
  /\ \A u \in Thread : call[u].iface # x
  /\ ifLife' = [ifLife EXCEPT ![x] = "dead"]
  /\ IF n # NoNode /\ life[n] = "live"
       THEN /\ ~Busy(n)
            /\ Begin(t, "drop", n, x, IF Served(n) THEN {NameOf[x]} ELSE {})
       ELSE UNCHANGED call
  /\ UNCHANGED <<nodeVars, owner, serverVars, dropped>>

\* ~node: the names in the table, whether their interfaces exist or not.
WithdrawNothing(n) == {}                                           \* mutant
Withdrawn(n) == IF Served(n) THEN NamesOf(n) ELSE {}

DestroyNode(t, n) ==
  /\ Usable(t, n)
  /\ life' = [life EXCEPT ![n] = "dying"]
  /\ Begin(t, "destroy", n, NoIface, Withdrawn(n))
  /\ UNCHANGED <<table, attached, ifaceVars, serverVars, dropped>>

Withdrawing == {"undo", "drop_server", "drop", "destroy"}

\* One drop_interface of the server in any of these.
Withdraw(t, i) ==
  /\ call[t].op \in Withdrawing
  /\ i \in call[t].todo
  /\ ServerDrop(PathOf[call[t].node], i)
  /\ GoOn(t, call[t].todo \ {i}, call[t].done)
  /\ UNCHANGED <<nodeVars, ifaceVars, dropped>>

\* The function has nothing left to withdraw and ends.
OwnerAfterDrop(x) == NoNode

FinishDrop(t) ==
  LET n == call[t].node
      x == call[t].iface
  IN /\ call[t].op = "drop"
     /\ call[t].todo = {}
     /\ table' = [table EXCEPT ![n] = @ \ {x}]
     /\ owner' = [owner EXCEPT ![x] = OwnerAfterDrop(x)]
     /\ Return(t)
     /\ UNCHANGED <<life, attached, ifLife, serverVars, dropped>>

FinishWithdraw(t) ==
  /\ call[t].op \in {"undo", "drop_server"}
  /\ call[t].todo = {}
  /\ Return(t)
  /\ UNCHANGED <<nodeVars, ifaceVars, serverVars, dropped>>

\* The end of ~node: its members go.
FinishDestroy(t) ==
  LET n == call[t].node IN
  /\ call[t].op = "destroy"
  /\ call[t].todo = {}
  /\ life' = [life EXCEPT ![n] = "dead"]
  /\ table' = [table EXCEPT ![n] = {}]
  /\ attached' = [attached EXCEPT ![n] = FALSE]
  /\ dropped' = dropped \ {n}
  /\ Return(t)
  /\ UNCHANGED <<ifaceVars, serverVars>>

\* ~server: no function holds it any more.  Its loop over the nodes calls
\* drop_server with a pointer that no longer locks, which does nothing; the
\* registrations go with the connection.
DestroyServer ==
  /\ up
  /\ \A t \in Thread : call[t].op = "idle"
  /\ up' = FALSE
  /\ ifsOf' = [p \in Path |-> {}]
  /\ entryNode' = [p \in Path |-> NoNode]
  /\ UNCHANGED <<nodeVars, ifaceVars, call, dropped>>

-----------------------------------------------------------------------------
BeginCall(t) ==
  \/ \E n \in Node, m \in Node \cup {NoNode} : CreateNode(t, n, m)
  \/ \E n \in Node, x \in Iface : BeginMake(t, n, x)
  \/ \E x, y \in Iface : CopyIface(t, x, y)
  \/ \E n \in Node : BeginAddServer(t, n)
  \/ \E n \in Node : BeginDropServer(t, n)
  \/ \E n \in Node, x \in Iface : BeginDrop(t, n, x)
  \/ \E x \in Iface : DestroyIface(t, x)
  \/ \E n \in Node : DestroyNode(t, n)

ContinueCall(t) ==
  \/ \E i \in IfName : AddOne(t, i)
  \/ \E i \in IfName : AddFails(t, i)
  \/ \E i \in IfName : Withdraw(t, i)
  \/ FinishMake(t)
  \/ FinishAddServer(t)
  \/ FinishDrop(t)
  \/ FinishWithdraw(t)
  \/ FinishDestroy(t)

Next ==
  \/ \E t \in Thread : BeginCall(t) \/ ContinueCall(t)
  \/ DestroyServer

Spec == Init /\ [][Next]_vars

-----------------------------------------------------------------------------
(***************************************************************************)
(* Properties.                                                             *)
(***************************************************************************)

\* A call from the bus finds someone to answer: whatever is on the bus belongs
\* to a node at that path whose table has, and keeps alive as far as it can,
\* an interface of that name.  Only a node in the middle of a call may differ
\* for a moment; after failed, rolled back and interleaved calls, and when a
\* path is used again, nothing stays behind.
Answered ==
  \A p \in Path : ifsOf[p] # {} =>
    /\ entryNode[p] \in Node
    /\ PathOf[entryNode[p]] = p
    /\ ~Busy(entryNode[p]) =>
         /\ Served(entryNode[p])
         /\ \A i \in ifsOf[p] : Lookup(p, i) = "found"

\* The converse: every interface of a node that has the server, and never
\* called drop_server, is on the bus, under that node.
Published ==
  \A n \in Node :
    life[n] = "live" /\ Served(n) /\ n \notin dropped /\ ~Busy(n) =>
      /\ NamesOf(n) \subseteq ifsOf[PathOf[n]]
      /\ table[n] # {} => entryNode[PathOf[n]] = n

\* _owner and _interfaces are inverse to each other (~interface drops by
\* name, so an owner that is not the holder would lose another interface).
OwnerAgrees ==
  \A n \in Node : life[n] = "live" =>
    /\ \A x \in Iface : owner[x] = n <=> x \in table[n]
    /\ \A x, y \in table[n] : NameOf[x] = NameOf[y] => x = y

\* When drop_server, ~node or a failed add_server returns, nothing is left on
\* the bus at the node's path.
WithdrawnAtEnd ==
  [][\A t \in Thread :
       /\ call[t].op \in {"undo", "drop_server", "destroy"}
       /\ call'[t].op = "idle"
       => ifsOf'[PathOf[call[t].node]] = {}]_vars
=============================================================================
