------------------------------- MODULE Managed --------------------------------
(***************************************************************************)
(* The objects that nodes manage (node::manage, server::set_managing) and  *)
(* the table in which the server looks up the path of an object it sends   *)
(* (object_path_lookup), which is keyed by raw addresses.                  *)
(*                                                                         *)
(* A node is named by its path here, and what it has on the bus is reduced *)
(* to whether the server has an entry for it: Registry says when that is   *)
(* so.  node::manage replaces _managing under no lock and only then calls  *)
(* the server, which waits for server_lock: two steps.  As in Registry, a  *)
(* node is used by one thread at a time; there is one server.              *)
(*                                                                         *)
(* An operator marked "mutant" is a wrong variant of the one after it,     *)
(* kept to show that a property notices the difference.                    *)
(***************************************************************************)
CONSTANTS
  Thread,
  Path,              \* of the nodes; a later node may have the same one
  Object,            \* addresses of managed objects
  NoPath, NoObject

ASSUME NoneAssumption == NoPath \notin Path /\ NoObject \notin Object

VARIABLES
  life,       \* of the node at a path: "none", "live", or "dying" (in ~node)
  attached,   \* the server is in node::_servers
  entry,      \* internal::nodes has the path, with this node
  managing,   \* node::_managing, NoObject once the object is gone
  objects,    \* addresses at which there is an object now
  lookup,     \* internal::object_path_lookup
  pend,       \* the set_managing each thread is about to call
  claims,     \* history: nodes that were given an object, since it exists
  settled     \* history: nodes whose object the server was told, and whose
              \* entry it has not given up since

nodeVars == <<life, attached, managing>>
managedVars == <<nodeVars, entry, objects, lookup, pend, claims, settled>>

-----------------------------------------------------------------------------
Pending == [path : Path \cup {NoPath}, obj : Object \cup {NoObject}]

Nothing == [path |-> NoPath, obj |-> NoObject]

ManagedTypeOK ==
  /\ life \in [Path -> {"none", "live", "dying"}]
  /\ attached \in [Path -> BOOLEAN]
  /\ entry \in [Path -> BOOLEAN]
  /\ managing \in [Path -> objects \cup {NoObject}]
  /\ objects \subseteq Object
  /\ lookup \in [Object -> Path \cup {NoPath}]
  /\ pend \in [Thread -> Pending]
  /\ claims \in [Object -> SUBSET Path]
  /\ settled \subseteq Path

ManagedInit ==
  /\ life = [p \in Path |-> "none"]
  /\ attached = [p \in Path |-> FALSE]
  /\ entry = [p \in Path |-> FALSE]
  /\ managing = [p \in Path |-> NoObject]
  /\ objects = Object
  /\ lookup = [a \in Object |-> NoPath]
  /\ pend = [t \in Thread |-> Nothing]
  /\ claims = [a \in Object |-> {}]
  /\ settled = {}

\* Nobody is inside a function of the node.
Unused(p) == \A t \in Thread : pend[t].path # p

-----------------------------------------------------------------------------
(***************************************************************************)
(* Functions of nodes that take no lock of the server.                     *)
(***************************************************************************)

\* make_root, or make_child of a node that has the server or not.
CreateNode(p) ==
  /\ life[p] = "none"
  /\ life' = [life EXCEPT ![p] = "live"]
  /\ \E b \in BOOLEAN : attached' = [attached EXCEPT ![p] = b]
  /\ UNCHANGED <<managing, entry, objects, lookup, pend, claims, settled>>

\* The end of add_server.  It has not told the server what the node manages.
AddServer(p) ==
  /\ life[p] = "live" /\ ~attached[p] /\ Unused(p)
  /\ attached' = [attached EXCEPT ![p] = TRUE]
  /\ UNCHANGED <<life, managing, entry, objects, lookup, pend, claims, settled>>

\* The last reference to the node goes; its weak pointers do not lock any more.
Expire(p) ==
  /\ life[p] = "live" /\ Unused(p)
  /\ life' = [life EXCEPT ![p] = "dying"]
  /\ UNCHANGED <<attached, managing, entry, objects, lookup, pend, claims,
                 settled>>

\* The end of ~node, which has withdrawn every interface.
FinishDestroy(p) ==
  /\ life[p] = "dying" /\ ~entry[p]
  /\ life' = [life EXCEPT ![p] = "none"]
  /\ attached' = [attached EXCEPT ![p] = FALSE]
  /\ managing' = [managing EXCEPT ![p] = NoObject]
  /\ settled' = settled \ {p}
  /\ UNCHANGED <<entry, objects, lookup, pend, claims>>

\* node::manage up to its calls of set_managing; if the node has no server
\* there are none.
ManageBegin(t, p, a) ==
  /\ life[p] = "live" /\ Unused(p)
  /\ pend[t] = Nothing
  /\ a # NoObject => a \in objects
  /\ managing' = [managing EXCEPT ![p] = a]
  /\ pend' = IF attached[p] THEN [pend EXCEPT ![t] = [path |-> p, obj |-> a]]
                            ELSE pend
  /\ claims' = IF a = NoObject THEN claims
                              ELSE [claims EXCEPT ![a] = @ \cup {p}]
  /\ settled' = settled \ {p}
  /\ UNCHANGED <<life, attached, entry, objects, lookup>>

\* A managed object dies, and its address may be used by a new one: weak
\* pointers notice the first, the raw pointer in object_path_lookup neither.
ObjectDiesUnnoticed(a) ==                                          \* mutant
  /\ a \in objects
  /\ objects' = objects \ {a}
  /\ UNCHANGED <<nodeVars, entry, lookup, pend, claims, settled>>

ObjectDies(a) ==
  /\ a \in objects
  /\ objects' = objects \ {a}
  /\ managing' = [p \in Path |-> IF managing[p] = a THEN NoObject
                                                    ELSE managing[p]]
  /\ pend' = [t \in Thread |-> IF pend[t].obj = a
                                 THEN [pend[t] EXCEPT !.obj = NoObject]
                                 ELSE pend[t]]
  /\ claims' = [claims EXCEPT ![a] = {}]
  /\ UNCHANGED <<life, attached, entry, lookup, settled>>

ObjectIsBorn(a) ==
  /\ a \notin objects
  /\ objects' = objects \cup {a}
  /\ UNCHANGED <<nodeVars, entry, lookup, pend, claims, settled>>

-----------------------------------------------------------------------------
(***************************************************************************)
(* Functions of the server, under server_lock.                             *)
(***************************************************************************)

\* add_interface of the first interface.  add_server calls it before the server
\* is in _servers.
FirstInterface(p) ==
  /\ life[p] = "live" /\ ~entry[p] /\ Unused(p)
  /\ entry' = [entry EXCEPT ![p] = TRUE]
  /\ UNCHANGED <<nodeVars, objects, lookup, pend, claims, settled>>

\* drop_interface of the last interface: the entry goes, and with it the path
\* of what the node manages, if the node still locks.
ForgetLive(p) ==
  IF life[p] = "live" /\ managing[p] # NoObject
    THEN [lookup EXCEPT ![managing[p]] = NoPath] ELSE lookup

LastInterface(p) ==
  /\ entry[p]
  /\ Unused(p)
  /\ entry' = [entry EXCEPT ![p] = FALSE]
  /\ lookup' = ForgetLive(p)
  /\ settled' = settled \ {p}
  /\ UNCHANGED <<nodeVars, objects, pend, claims>>

\* set_managing.  The node's managed object has been replaced before this is
\* called, so that it is the new object's entry that is erased first and
\* "Managed object must be unique" is never thrown.
PathGivenUnlessListed(p, a) ==                                     \* mutant
  IF a = NoObject \/ lookup[a] # NoPath THEN lookup
                                        ELSE [lookup EXCEPT ![a] = p]
PathGiven(p, a) ==
  IF a = NoObject THEN lookup ELSE [lookup EXCEPT ![a] = p]

ManageEnd(t) ==
  LET p == pend[t].path IN
  /\ p # NoPath
  /\ lookup' = PathGiven(p, pend[t].obj)
  /\ pend' = [pend EXCEPT ![t] = Nothing]
  /\ settled' = settled \cup {p}
  /\ UNCHANGED <<nodeVars, entry, objects, claims>>

-----------------------------------------------------------------------------
Unlocked(t) ==
  \/ \E p \in Path : \/ CreateNode(p) \/ AddServer(p) \/ Expire(p)
                     \/ FinishDestroy(p)
  \/ \E p \in Path, a \in Object \cup {NoObject} : ManageBegin(t, p, a)
  \/ \E a \in Object : ObjectDies(a) \/ ObjectIsBorn(a)

Locked(t) ==
  \/ \E p \in Path : FirstInterface(p) \/ LastInterface(p)
  \/ ManageEnd(t)

ManagedNext == \E t \in Thread : Unlocked(t) \/ Locked(t)

ManagedSpec == ManagedInit /\ [][ManagedNext]_managedVars

-----------------------------------------------------------------------------
(***************************************************************************)
(* Properties.                                                             *)
(***************************************************************************)

\* The node's object is known to the server: it was told, has not given up
\* the node's entry since, and no other node was given the object.
Settled(p) ==
  /\ p \in settled /\ life[p] = "live"
  /\ managing[p] # NoObject
  /\ claims[managing[p]] = {p}

\* What a variant that holds an object is sent as (to_gvariant looks its
\* address up) is the path of the node that manages it, through deaths of
\* objects and nodes, addresses and paths that are used again, and interfaces
\* dropped by another thread in the middle of manage().
ManagedResolves ==
  \A p \in Path : Settled(p) => lookup[managing[p]] = p

\* server_gdbus.cpp:976, "Managed object must be unique": no two nodes that
\* have told the server what they manage have the same object.
ManagedUnique ==
  \A p, q \in settled :
    /\ life[p] = "live" /\ life[q] = "live"
    /\ managing[p] = managing[q] /\ managing[p] # NoObject
    => p = q
=============================================================================
