----------------------------- MODULE LocksProofs ----------------------------
(***************************************************************************)
(* Theorems about Locks, for any number of threads and interfaces: who has *)
(* which lock follows from where the threads are (Owners), and what a      *)
(* thread waits for from the function it is in (OpOK).                     *)
(***************************************************************************)
EXTENDS Locks, TLAPS

Owners ==
  \A t \in Thread :
    /\ server_lock = t <=> InServer(t)
    /\ hierarchy_lock = t <=> op[t] = "~node" /\ pc[t] \notin {"idle", "enter"}

OpOK ==
  \A t \in Thread :
    /\ pc[t] \in {"idle", "deliver"} => op[t] = "none"
    /\ pc[t] = "deliver" => ~handler[t]
    /\ pc[t] = "enter" => op[t] = "~node"
    /\ pc[t] = "in" => op[t] \in NameInside

IInv == TypeOK /\ Owners /\ OpOK

\* Init establishes the invariant.
LEMMA IInvInit == Init => IInv
<1> SUFFICES ASSUME Init PROVE IInv
  OBVIOUS
<1>1. TypeOK
  BY MaxIfacesAssumption DEF Init, TypeOK
<1>2. Owners /\ OpOK
  BY NoThreadAssumption DEF Init, Owners, OpOK, InServer
<1>3. QED
  BY <1>1, <1>2 DEF IInv

\* Every step preserves the invariant: a lock is taken when it is free or
\* held by the same thread, and given up by the thread that holds it.
LEMMA IInvStep == IInv /\ [Next]_vars => IInv'
<1> SUFFICES ASSUME IInv, [Next]_vars PROVE IInv'
  OBVIOUS
<1> USE NoThreadAssumption, MaxIfacesAssumption
    DEF IInv, TypeOK, Owners, OpOK, InServer, Goto, Free, Ops, Named, NameInside
<1>1. ASSUME NEW t \in Thread, NEW o \in Ops, Begin(t, o) PROVE IInv'
  <2>1. Calls(o) \subseteq 0 .. MaxIfaces
    BY DEF Calls, ForEachIface
  <2>2. QED
    BY <1>1, <2>1 DEF Begin
<1>2. ASSUME NEW t \in Thread, Deliver(t) PROVE IInv'
  BY <1>2 DEF Deliver
<1>3. ASSUME NEW t \in Thread, EnterDtor(t) PROVE IInv'
  BY <1>3 DEF EnterDtor
<1>4. ASSUME NEW t \in Thread, Name(t) PROVE IInv'
  BY <1>4 DEF Name
<1>5. ASSUME NEW t \in Thread, EnterServer(t) PROVE IInv'
  <2>1. left[t] - 1 \in 0 .. MaxIfaces
    BY <1>5 DEF EnterServer
  <2>2. QED
    BY <1>5, <2>1 DEF EnterServer
<1>6. ASSUME NEW t \in Thread, NameInServer(t) PROVE IInv'
  BY <1>6 DEF NameInServer
<1>7. ASSUME NEW t \in Thread, LeaveServer(t) PROVE IInv'
  BY <1>7 DEF LeaveServer, Unlocked
<1>8. ASSUME NEW t \in Thread, AddFails(t) PROVE IInv'
  BY <1>8 DEF AddFails, Unlocked
<1>9. ASSUME NEW t \in Thread, Return(t) PROVE IInv'
  BY <1>9 DEF Return
<1>10. ASSUME NEW t \in Thread, EnterHandler(t) PROVE IInv'
  BY <1>10 DEF EnterHandler
<1>11. ASSUME NEW t \in Thread, LeaveHandler(t) PROVE IInv'
  BY <1>11 DEF LeaveHandler
<1>12. CASE UNCHANGED vars
  BY <1>12 DEF vars
<1>13. QED
  BY <1>1, <1>2, <1>3, <1>4, <1>5, <1>6, <1>7, <1>8, <1>9, <1>10, <1>11, <1>12
     DEF Next, Step

\* The invariant holds in every reachable state.
LEMMA Invariance == Spec => []IInv
BY IInvInit, IInvStep, PTL DEF Spec

-----------------------------------------------------------------------------
\* The types hold for any number of threads and interfaces.
THEOREM TypeCorrect == Spec => []TypeOK
<1>1. IInv => TypeOK
  BY DEF IInv
<1>2. QED
  BY <1>1, Invariance, PTL

\* While a handler of a call from the bus runs, nobody else is in the server.
THEOREM HandlersAlone == Spec => []HandlerExclusive
<1>1. IInv => HandlerExclusive
  BY DEF IInv, Owners, HandlerExclusive
<1>2. QED
  BY <1>1, Invariance, PTL

\* Two threads that wait for each other: one has the hierarchy lock, so that
\* it is in ~node, and as it waits for server_lock it is in no handler; the
\* other has server_lock and waits for the hierarchy lock.
LEMMA WaitingPair ==
  ASSUME IInv, NEW v \in Thread, NEW w \in Thread, v # w,
         hierarchy_lock = v, server_lock = w, WaitsFor(w, v)
  PROVE  /\ op[v] = "~node" /\ ~handler[v]
         /\ handler[w] \/ op[w] \in NameInside
<1>1. op[v] = "~node" /\ InServer(w)
  BY DEF IInv, Owners
<1>2. ~handler[v]
  BY DEF IInv, Owners, InServer
<1>3. pc[w] \in {"enter", "name", "in"}
  BY DEF WaitsFor
<1>4. handler[w] \/ op[w] \in NameInside
  BY <1>1, <1>3 DEF InServer, IInv, OpOK
<1>5. QED
  BY <1>1, <1>2, <1>4

\* The two locks are the only way to wait for each other, and a deadlock needs
\* a destructor outside of the handlers.
THEOREM DeadlocksKnown == Spec => []DeadlockNeedsDtor
<1>1. ASSUME IInv PROVE DeadlockNeedsDtor
  <2> SUFFICES ASSUME NEW t \in Thread, NEW u \in Thread,
                      WaitsFor(t, u), WaitsFor(u, t)
               PROVE  \E v \in {t, u} : \E w \in {t, u} \ {v} :
                        /\ op[v] = "~node" /\ ~handler[v]
                        /\ handler[w] \/ op[w] \in NameInside
    BY DEF DeadlockNeedsDtor
  <2>1. t # u
    BY DEF WaitsFor
  <2>2. CASE hierarchy_lock = u /\ server_lock = t
    BY <1>1, <2>1, <2>2, WaitingPair
  <2>3. CASE hierarchy_lock = t /\ server_lock = u
    BY <1>1, <2>1, <2>3, WaitingPair
  <2>4. QED
    BY <2>1, <2>2, <2>3 DEF WaitsFor
<1>2. QED
  BY <1>1, Invariance, PTL
=============================================================================
