------------------------------- MODULE Locks --------------------------------
(***************************************************************************)
(* The two recursive mutexes that the functions of a node, of the D-Bus    *)
(* server and the callbacks of GDBus take, and in which order: the         *)
(* _hierarchy_lock of the tree and server_lock.                            *)
(*                                                                         *)
(* A function of a node computes the node's path (full_name, which takes   *)
(* the hierarchy lock for a moment) and calls the server (which takes      *)
(* server_lock, and may itself compute the path); only ~node holds the     *)
(* hierarchy lock across calls of the server.  A call from the bus holds   *)
(* server_lock while the client's handler runs, which may call any of      *)
(* these functions.                                                        *)
(*                                                                         *)
(* An operator marked "mutant" is a wrong variant of the one after it,     *)
(* kept to show that a property notices the difference.                    *)
(***************************************************************************)
EXTENDS Naturals

CONSTANTS
  Thread, NoThread,
  MaxIfaces       \* interfaces a node has: how often one function calls

ASSUME NoThreadAssumption == NoThread \notin Thread
ASSUME MaxIfacesAssumption == MaxIfaces \in Nat \ {0}

VARIABLES
  server_lock,     \* the thread that holds it
  hierarchy_lock,  \* the thread that holds it
  pc,              \* where each thread is
  op,              \* the function it is in
  left,            \* calls of the server that function still has to make
  handler          \* the thread is in a call from the bus, with server_lock

vars == <<server_lock, hierarchy_lock, pc, op, left, handler>>

-----------------------------------------------------------------------------
\* full_name first; then calls of the server, that compute the path or do not.
Named == {"path", "drop_interface", "emit_signal", "add_server", "drop_server",
          "~node"}
NameInside == {"make_interface", "add_server", "manage"}
ForEachIface == {"add_server", "drop_server", "~node"}
Ops == Named \cup NameInside

TypeOK ==
  /\ server_lock \in Thread \cup {NoThread}
  /\ hierarchy_lock \in Thread \cup {NoThread}
  /\ pc \in [Thread -> {"idle", "deliver", "enter", "name", "next", "in", "out"}]
  /\ op \in [Thread -> Ops \cup {"none", "undo"}]
  /\ left \in [Thread -> 0 .. MaxIfaces]
  /\ handler \in [Thread -> BOOLEAN]

Init ==
  /\ server_lock = NoThread
  /\ hierarchy_lock = NoThread
  /\ pc = [t \in Thread |-> "idle"]
  /\ op = [t \in Thread |-> "none"]
  /\ left = [t \in Thread |-> 0]
  /\ handler = [t \in Thread |-> FALSE]

\* t can lock a recursive mutex that is held by `holder'.
Free(holder, t) == holder \in {NoThread, t}

Goto(t, l) == pc' = [pc EXCEPT ![t] = l]

-----------------------------------------------------------------------------
\* A client's thread, or the handler of a call, calls a function.
Calls(o) == IF o \in ForEachIface THEN 0 .. MaxIfaces
            ELSE IF o = "path" THEN {0} ELSE {1}

Begin(t, o) ==
  /\ pc[t] = "idle"
  /\ \E k \in Calls(o) : left' = [left EXCEPT ![t] = k]
  /\ op' = [op EXCEPT ![t] = o]
  /\ Goto(t, IF o = "~node" THEN "enter"
             ELSE IF o \in Named THEN "name" ELSE "next")
  /\ UNCHANGED <<server_lock, hierarchy_lock, handler>>

\* ~node takes the hierarchy lock for as long as it runs.
EnterDtor(t) ==
  /\ pc[t] = "enter"
  /\ Free(hierarchy_lock, t)
  /\ hierarchy_lock' = t
  /\ Goto(t, "name")
  /\ UNCHANGED <<server_lock, op, left, handler>>

\* full_name: the hierarchy lock is taken, and released again.  Nothing in
\* between waits for anything.
NameKeepsLock(t) ==                                                \* mutant
  /\ pc[t] = "name"
  /\ Free(hierarchy_lock, t)
  /\ hierarchy_lock' = t
  /\ Goto(t, "next")
  /\ UNCHANGED <<server_lock, op, left, handler>>

Name(t) ==
  /\ pc[t] = "name"
  /\ Free(hierarchy_lock, t)
  /\ Goto(t, "next")
  /\ UNCHANGED <<server_lock, hierarchy_lock, op, left, handler>>

\* A call of the server.
EnterServerOnceMore(t) ==                                          \* mutant
  /\ pc[t] = "next"
  /\ Free(server_lock, t)
  /\ server_lock' = t
  /\ left' = [left EXCEPT ![t] = @ - 1]
  /\ Goto(t, "out")
  /\ UNCHANGED <<hierarchy_lock, op, handler>>

EnterServer(t) ==
  /\ pc[t] = "next" /\ left[t] > 0
  /\ Free(server_lock, t)
  /\ server_lock' = t
  /\ left' = [left EXCEPT ![t] = @ - 1]
  /\ Goto(t, IF op[t] \in NameInside THEN "in" ELSE "out")
  /\ UNCHANGED <<hierarchy_lock, op, handler>>

NameInServer(t) ==
  /\ pc[t] = "in"
  /\ Free(hierarchy_lock, t)
  /\ Goto(t, "out")
  /\ UNCHANGED <<server_lock, hierarchy_lock, op, left, handler>>

\* What is left of a recursive server_lock when a function of the server ends.
UnlockedAll(t) == NoThread                                         \* mutant
Unlocked(t) == IF handler[t] THEN t ELSE NoThread

LeaveServer(t) ==
  /\ pc[t] = "out"
  /\ server_lock' = Unlocked(t)
  /\ Goto(t, "next")
  /\ UNCHANGED <<hierarchy_lock, op, left, handler>>

\* add_interface throws: add_server withdraws what it has added.
AddFails(t) ==
  /\ pc[t] = "out" /\ op[t] = "add_server"
  /\ server_lock' = Unlocked(t)
  /\ op' = [op EXCEPT ![t] = "undo"]
  /\ \E k \in 0 .. MaxIfaces : left' = [left EXCEPT ![t] = k]
  /\ Goto(t, "next")
  /\ UNCHANGED <<hierarchy_lock, handler>>

\* The function is over.
Return(t) ==
  /\ pc[t] = "next" /\ left[t] = 0
  /\ hierarchy_lock' = IF op[t] = "~node" THEN NoThread ELSE hierarchy_lock
  /\ op' = [op EXCEPT ![t] = "none"]
  /\ Goto(t, "idle")
  /\ UNCHANGED <<server_lock, left, handler>>

-----------------------------------------------------------------------------
\* A callback of GDBus takes server_lock, runs the handler and releases it;
\* so does the conversion of a property that is read or written.
Deliver(t) ==
  /\ pc[t] = "idle" /\ ~handler[t]
  /\ Goto(t, "deliver")
  /\ UNCHANGED <<server_lock, hierarchy_lock, op, left, handler>>

EnterHandler(t) ==
  /\ pc[t] = "deliver"
  /\ Free(server_lock, t)
  /\ server_lock' = t
  /\ handler' = [handler EXCEPT ![t] = TRUE]
  /\ Goto(t, "idle")
  /\ UNCHANGED <<hierarchy_lock, op, left>>

LeaveHandler(t) ==
  /\ pc[t] = "idle" /\ handler[t]
  /\ server_lock' = NoThread
  /\ handler' = [handler EXCEPT ![t] = FALSE]
  /\ UNCHANGED <<hierarchy_lock, pc, op, left>>

Step(t) ==
  \/ EnterDtor(t) \/ Name(t) \/ EnterServer(t) \/ NameInServer(t)
  \/ LeaveServer(t) \/ AddFails(t) \/ Return(t)
  \/ EnterHandler(t) \/ LeaveHandler(t)

Next ==
  \E t \in Thread : \/ \E o \in Ops : Begin(t, o)
                    \/ Deliver(t)
                    \/ Step(t)

Spec == Init /\ [][Next]_vars

-----------------------------------------------------------------------------
(***************************************************************************)
(* Properties.                                                             *)
(***************************************************************************)
InServer(t) == handler[t] \/ pc[t] \in {"in", "out"}

\* While a handler runs, and whatever it calls, recursively, in the library, no
\* other thread changes the server's tables or runs a handler of its own.
HandlerExclusive ==
  \A t, u \in Thread : InServer(t) /\ InServer(u) => t = u

\* t waits for a lock that u holds.
WaitsFor(t, u) ==
  /\ t # u
  /\ \/ pc[t] \in {"enter", "name", "in"} /\ hierarchy_lock = u
     \/ pc[t] = "deliver" /\ server_lock = u
     \/ pc[t] = "next" /\ left[t] > 0 /\ server_lock = u

\* The two locks are taken in both orders, so that two threads can wait for
\* each other for ever.  But then one of them destroys a node outside of any
\* handler while the other computes a path inside the server or in a handler:
\* a program that destroys nodes in handlers only, or while nobody else is in
\* the library, cannot be caught by it.
DeadlockNeedsDtor ==
  \A t, u \in Thread :
    WaitsFor(t, u) /\ WaitsFor(u, t) =>
      \E v \in {t, u} : \E w \in {t, u} \ {v} :
        /\ op[v] = "~node" /\ ~handler[v]
        /\ handler[w] \/ op[w] \in NameInside
=============================================================================
