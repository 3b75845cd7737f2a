---------------------------- MODULE RegistryProofs ---------------------------
(***************************************************************************)
(* Theorems about Registry, for any number of threads, nodes, paths and    *)
(* interfaces.                                                             *)
(***************************************************************************)
EXTENDS Registry, TLAPS

Exists(n) == life[n] \in {"live", "dying"}

\* A node is used by one thread, is live until it is destroyed, and then dies
\* in that thread.
CallOK(t) ==
  /\ call[t].op = "idle" => call[t] = Idle
  /\ call[t].op # "idle" =>
       /\ call[t].node \in Node
       /\ life[call[t].node] = IF call[t].op = "destroy" THEN "dying" ELSE "live"
       /\ \A u \in Thread : call[u].node = call[t].node => u = t

DyingUsed(n) ==
  life[n] = "dying" =>
    \E t \in Thread : call[t].op = "destroy" /\ call[t].node = n

CallsOK ==
  /\ \A t \in Thread : CallOK(t)
  /\ \A n \in Node : DyingUsed(n)

\* Tables and owners of nodes in any state, and the interface that a call is
\* about.
IfacesOK ==
  /\ \A n \in Node :
       /\ \A x \in table[n] : owner[x] = n
       /\ \A x, y \in table[n] : NameOf[x] = NameOf[y] => x = y
       /\ life[n] = "live" => \A x \in Iface : owner[x] = n => x \in table[n]
       /\ life[n] \in {"unborn", "dead"} => table[n] = {}
       /\ life[n] = "unborn" => \A x \in Iface : owner[x] # n
  /\ \A x \in Iface : ifLife[x] = "unborn" => owner[x] = NoNode
  /\ \A t \in Thread :
       /\ call[t].op = "make" =>
            /\ call[t].iface \in Iface
            /\ ifLife[call[t].iface] = "live"
            /\ owner[call[t].iface] = NoNode
            /\ NameOf[call[t].iface] \notin NamesOf(call[t].node)
            /\ \A u \in Thread :
                 call[u].op = "make" /\ call[u].iface = call[t].iface => u = t
       /\ call[t].op = "drop" =>
            call[t].iface \in Iface /\ call[t].iface \in table[call[t].node]

\* Interfaces in the table of a live node exist, but for one that is just being
\* dropped.
TableAlive ==
  \A n \in Node : life[n] = "live" => \A x \in table[n] :
    \/ ifLife[x] = "live"
    \/ \E t \in Thread : /\ call[t].op = "drop"
                         /\ call[t].node = n /\ call[t].iface = x

\* What is on the bus at the path of n: all that is in the table, unless
\* drop_server was called; with interface names that are just being added or
\* withdrawn.
Full(n, bus, adding, leaving) ==
  /\ ~Served(n) => bus = {}
  /\ bus \subseteq NamesOf(n) \cup adding
  /\ Served(n) /\ n \notin dropped => NamesOf(n) \ leaving \subseteq bus

CallOnBus(t) ==
  LET c == call[t]
      n == c.node
      bus == ifsOf[PathOf[n]]
  IN /\ c.op = "make" =>
          /\ Full(n, bus, c.done, {})
          /\ c.done \subseteq bus /\ c.done \cap c.todo = {}
          /\ c.done \cup c.todo = IF Served(n) THEN {NameOf[c.iface]} ELSE {}
     /\ c.op = "add" =>
          /\ up /\ ~attached[n]
          /\ c.done \cup c.todo = NamesOf(n)
          /\ bus = c.done
     /\ c.op = "undo" => up /\ ~attached[n] /\ bus = c.todo
     /\ c.op = "drop_server" =>
          /\ Served(n) /\ n \in dropped
          /\ bus \subseteq c.todo /\ c.todo \subseteq NamesOf(n)
     /\ c.op = "drop" =>
          /\ Full(n, bus, {}, {NameOf[c.iface]})
          /\ bus \cap {NameOf[c.iface]} \subseteq c.todo
          /\ c.todo \subseteq {NameOf[c.iface]}
     /\ c.op = "destroy" => bus \subseteq c.todo

BusOK ==
  /\ ~up => \A p \in Path : ifsOf[p] = {}
  /\ \A p \in Path : ifsOf[p] # {} =>
       /\ entryNode[p] \in Node
       /\ PathOf[entryNode[p]] = p /\ Exists(entryNode[p])
  /\ \A n, m \in Node :
       Exists(n) /\ Exists(m) /\ PathOf[n] = PathOf[m] => n = m
  /\ \A t \in Thread : call[t].op # "idle" => CallOnBus(t)
  /\ \A n \in Node : Exists(n) /\ ~Busy(n) => Full(n, ifsOf[PathOf[n]], {}, {})

Inv1 == TypeOK /\ CallsOK /\ IfacesOK

IInv == Inv1 /\ TableAlive /\ BusOK

-----------------------------------------------------------------------------
\* Init establishes the invariant.
LEMMA IInvInit == Init => IInv
BY PathOfAssumption, NameOfAssumption, NoneAssumption
   DEF Init, IInv, Inv1, TypeOK, Call, Ops, Idle, CallsOK, CallOK, DyingUsed,
       IfacesOK, TableAlive,
       BusOK, Exists, NamesOf

\* A call that has added or withdrawn one interface, and the calls of others.
LEMMA OneAdded ==
  ASSUME TypeOK, NEW t \in Thread, NEW i \in IfName, AddOne(t, i)
  PROVE  /\ call' \in [Thread -> Call]
         /\ \A u \in Thread \ {t} : call'[u] = call[u]
         /\ call'[t].op = call[t].op /\ call'[t].node = call[t].node
         /\ call'[t].iface = call[t].iface
         /\ call'[t].todo = call[t].todo \ {i}
         /\ call'[t].done = call[t].done \cup {i}
         /\ call[t].op \in {"make", "add"} /\ i \in call[t].todo
         /\ life' = life /\ table' = table /\ attached' = attached
         /\ ifLife' = ifLife /\ owner' = owner /\ up' = up
         /\ dropped' = dropped
BY DEF AddOne, ServerAdd, GoOn, TypeOK, Call, nodeVars, ifaceVars

LEMMA OneWithdrawn ==
  ASSUME TypeOK, NEW t \in Thread, NEW i \in IfName, Withdraw(t, i)
  PROVE  /\ call' \in [Thread -> Call]
         /\ \A u \in Thread \ {t} : call'[u] = call[u]
         /\ call'[t].op = call[t].op /\ call'[t].node = call[t].node
         /\ call'[t].iface = call[t].iface
         /\ call'[t].todo = call[t].todo \ {i}
         /\ call'[t].done = call[t].done
         /\ call[t].op \in Withdrawing /\ i \in call[t].todo
         /\ life' = life /\ table' = table /\ attached' = attached
         /\ ifLife' = ifLife /\ owner' = owner /\ up' = up
         /\ dropped' = dropped
BY DEF Withdraw, ServerDrop, GoOn, TypeOK, Call, nodeVars, ifaceVars

\* A call that goes on in its node, or ends, leaves the other calls alone.
LEMMA CallGoesOn ==
  ASSUME CallsOK, life' = life, NEW t \in Thread,
         \A u \in Thread \ {t} : call'[u] = call[u],
         call[t].op # "idle",
         \/ call[t].op # "destroy" /\ call'[t] = Idle
         \/ /\ call'[t].op # "idle" /\ call'[t].node = call[t].node
            /\ call'[t].op = "destroy" <=> call[t].op = "destroy"
  PROVE  CallsOK'
<1>1. ASSUME NEW n \in Node PROVE DyingUsed(n)'
  <2>1. CASE life'[n] = "dying"
    <3>1. PICK u \in Thread : call[u].op = "destroy" /\ call[u].node = n
      BY <2>1 DEF CallsOK, DyingUsed
    <3> QED
      BY <3>1 DEF DyingUsed
  <2> QED
    BY <2>1 DEF DyingUsed
<1>2. ASSUME NEW u \in Thread PROVE CallOK(u)'
  <2>1. \A v \in Thread : call'[v].node \in {call[v].node, NoNode}
    BY DEF Idle
  <2>2. CASE call'[u].op = "idle"
    BY <2>2 DEF CallsOK, CallOK
  <2>3. CASE call'[u].op # "idle"
    <3>1. call[u].op # "idle" /\ call'[u].node = call[u].node
          /\ (call'[u].op = "destroy" <=> call[u].op = "destroy")
      BY <2>3 DEF Idle
    <3>2. /\ call[u].node \in Node
          /\ life[call[u].node] = IF call[u].op = "destroy" THEN "dying" ELSE "live"
          /\ \A v \in Thread : call[v].node = call[u].node => v = u
      BY <3>1 DEF CallsOK, CallOK
    <3>3. \A v \in Thread : call'[v].node = call'[u].node => v = u
      BY <2>1, <3>1, <3>2, NoneAssumption
    <3> QED
      BY <2>3, <3>1, <3>2, <3>3 DEF CallOK
  <2> QED
    BY <2>2, <2>3
<1> QED
  BY <1>1, <1>2 DEF CallsOK

\* A step that changes neither tables nor what calls are about.
LEMMA SameTables ==
  ASSUME table' = table, owner' = owner, ifLife' = ifLife, life' = life,
         \A u \in Thread :
           /\ call'[u].op = call[u].op /\ call'[u].node = call[u].node
           /\ call'[u].iface = call[u].iface
  PROVE  /\ IfacesOK => IfacesOK'
         /\ TableAlive => TableAlive'
<1>1. IfacesOK => IfacesOK'
  BY DEF IfacesOK, NamesOf
<1>2. TableAlive => TableAlive'
  BY DEF TableAlive
<1> QED
  BY <1>1, <1>2

\* Adding or withdrawing one interface disturbs neither calls nor tables.
LEMMA OneKeeps ==
  ASSUME Inv1, NEW t \in Thread, NEW i \in IfName,
         AddOne(t, i) \/ Withdraw(t, i)
  PROVE  CallsOK' /\ IfacesOK' /\ (TableAlive => TableAlive')
<1>1. /\ life' = life /\ table' = table /\ owner' = owner /\ ifLife' = ifLife
      /\ \A u \in Thread \ {t} : call'[u] = call[u]
      /\ call'[t].op = call[t].op /\ call'[t].node = call[t].node
      /\ call'[t].iface = call[t].iface /\ call[t].op # "idle"
  <2>1. CASE AddOne(t, i)
    BY <2>1, OneAdded DEF Inv1
  <2>2. CASE Withdraw(t, i)
    BY <2>2, OneWithdrawn DEF Inv1, Withdrawing
  <2> QED
    BY <2>1, <2>2
<1>2. CallsOK'
  BY <1>1, CallGoesOn DEF Inv1
<1>3. QED
  BY <1>1, <1>2, SameTables DEF Inv1

\* A failed add_interface ends a call or turns it into one that withdraws.
LEMMA FailureKeepsCalls ==
  ASSUME Inv1, NEW t \in Thread, NEW i \in IfName, AddFails(t, i)
  PROVE  CallsOK'
<1>1. life' = life /\ call[t].op \in {"make", "add"}
  BY DEF AddFails, nodeVars
<1>2. /\ \A u \in Thread \ {t} : call'[u] = call[u]
      /\ \/ call'[t] = Idle
         \/ call'[t].op = "undo" /\ call'[t].node = call[t].node
  BY DEF AddFails, Begin, Return, Inv1, TypeOK
<1>3. QED
  BY <1>1, <1>2, CallGoesOn DEF Inv1

\* Every step preserves the types.
LEMMA TypeStep == ASSUME Inv1, [Next]_vars PROVE TypeOK'
<1> USE PathOfAssumption, NameOfAssumption, NoneAssumption
    DEF Inv1, TypeOK, Call, Ops, Idle, IfacesOK, NamesOf, Begin, Return, Usable,
        nodeVars, ifaceVars, serverVars
<1>1. ASSUME NEW t \in Thread, NEW n \in Node, NEW m \in Node \cup {NoNode},
             CreateNode(t, n, m)
      PROVE  TypeOK'
  BY <1>1 DEF CreateNode
<1>2. ASSUME NEW t \in Thread, NEW n \in Node, NEW x \in Iface,
             BeginMake(t, n, x)
      PROVE  TypeOK'
  BY <1>2 DEF BeginMake
<1>3. ASSUME NEW t \in Thread, NEW x \in Iface, NEW y \in Iface,
             CopyIface(t, x, y)
      PROVE  TypeOK'
  BY <1>3 DEF CopyIface, CopyOwner
<1>4. ASSUME NEW t \in Thread, NEW n \in Node, BeginAddServer(t, n)
      PROVE  TypeOK'
  BY <1>4 DEF BeginAddServer, ToAdd
<1>5. ASSUME NEW t \in Thread, NEW n \in Node, BeginDropServer(t, n)
      PROVE  TypeOK'
  BY <1>5 DEF BeginDropServer
<1>6. ASSUME NEW t \in Thread, NEW n \in Node, NEW x \in Iface,
             BeginDrop(t, n, x)
      PROVE  TypeOK'
  BY <1>6 DEF BeginDrop
<1>7. ASSUME NEW t \in Thread, NEW x \in Iface, DestroyIface(t, x)
      PROVE  TypeOK'
  BY <1>7 DEF DestroyIface
<1>8. ASSUME NEW t \in Thread, NEW n \in Node, DestroyNode(t, n)
      PROVE  TypeOK'
  BY <1>8 DEF DestroyNode, Withdrawn
<1>9. ASSUME NEW t \in Thread, NEW i \in IfName, AddOne(t, i)
      PROVE  TypeOK'
  <2>1. call' \in [Thread -> Call]
    BY <1>9, OneAdded
  <2>2. ifsOf' \in [Path -> SUBSET IfName]
    <3>1. PathOf[call[t].node] \in Path
      BY <1>9 DEF AddOne, CallsOK, CallOK
    <3>2. ifsOf' = [ifsOf EXCEPT ![PathOf[call[t].node]] = @ \cup {i}]
      BY <1>9 DEF AddOne, ServerAdd
    <3> QED
      BY <3>1, <3>2
  <2>3. entryNode' \in [Path -> Node \cup {NoNode}]
    <3>1. CASE ifsOf[PathOf[call[t].node]] = {}
      BY <1>9, <3>1 DEF AddOne, ServerAdd
    <3>2. CASE ifsOf[PathOf[call[t].node]] # {}
      BY <1>9, <3>2 DEF AddOne, ServerAdd
    <3> QED
      BY <3>1, <3>2
  <2> QED
    BY <1>9, <2>1, <2>2, <2>3 DEF AddOne, ServerAdd
<1>10. ASSUME NEW t \in Thread, NEW i \in IfName, AddFails(t, i)
      PROVE  TypeOK'
  <2>1. call' \in [Thread -> Call]
    <3>1. CASE call[t].op = "add"
      BY <1>10, <3>1 DEF AddFails, Rollback
    <3>2. CASE call[t].op # "add"
      BY <1>10, <3>2 DEF AddFails
    <3> QED
      BY <3>1, <3>2
  <2>2. ifLife' \in [Iface -> {"unborn", "live", "dead"}]
    BY <1>10 DEF AddFails
  <2> QED
    BY <1>10, <2>1, <2>2 DEF AddFails
<1>11. ASSUME NEW t \in Thread, NEW i \in IfName, Withdraw(t, i)
      PROVE  TypeOK'
  <2>1. call' \in [Thread -> Call]
    BY <1>11, OneWithdrawn
  <2>2. ifsOf' \in [Path -> SUBSET IfName]
        /\ entryNode' \in [Path -> Node \cup {NoNode}]
    BY <1>11 DEF Withdraw, ServerDrop
  <2> QED
    BY <1>11, <2>1, <2>2 DEF Withdraw, ServerDrop
<1>12. ASSUME NEW t \in Thread, FinishMake(t)
      PROVE  TypeOK'
  <2>1. call' \in [Thread -> Call]
    BY <1>12 DEF FinishMake
  <2>2. call[t].node \in Node /\ call[t].iface \in Iface
    BY <1>12 DEF FinishMake, CallsOK, CallOK
  <2>3. owner' \in [Iface -> Node \cup {NoNode}]
    BY <1>12, <2>2 DEF FinishMake
  <2>4. table' \in [Node -> SUBSET Iface]
    BY <1>12, <2>2 DEF FinishMake
  <2> QED
    BY <1>12, <2>1, <2>3, <2>4 DEF FinishMake
<1>13. ASSUME NEW t \in Thread, FinishAddServer(t)
      PROVE  TypeOK'
  BY <1>13 DEF FinishAddServer
<1>14. ASSUME NEW t \in Thread, FinishDrop(t)
      PROVE  TypeOK'
  BY <1>14 DEF FinishDrop, OwnerAfterDrop
<1>15. ASSUME NEW t \in Thread, FinishWithdraw(t)
      PROVE  TypeOK'
  BY <1>15 DEF FinishWithdraw
<1>16. ASSUME NEW t \in Thread, FinishDestroy(t)
      PROVE  TypeOK'
  BY <1>16 DEF FinishDestroy
<1>17. ASSUME DestroyServer
      PROVE  TypeOK'
  BY <1>17 DEF DestroyServer
<1>18. CASE UNCHANGED vars
  BY <1>18 DEF vars
<1> QED
  BY <1>1, <1>2, <1>3, <1>4, <1>5, <1>6, <1>7, <1>8, <1>9,
     <1>10, <1>11, <1>12, <1>13, <1>14, <1>15, <1>16, <1>17, <1>18
     DEF Next, BeginCall, ContinueCall

\* Every step preserves who uses which node.
LEMMA CallsStep == ASSUME Inv1, [Next]_vars PROVE CallsOK'
<1> USE PathOfAssumption, NameOfAssumption, NoneAssumption
    DEF Inv1, TypeOK, Call, Ops, Idle, CallsOK, CallOK, DyingUsed, Begin,
        Return, Usable, Busy, nodeVars, ifaceVars, serverVars
<1>1. ASSUME NEW t \in Thread, NEW n \in Node, NEW m \in Node \cup {NoNode},
             CreateNode(t, n, m)
      PROVE  CallsOK'
  BY <1>1 DEF CreateNode
<1>2. ASSUME NEW t \in Thread, NEW n \in Node, NEW x \in Iface,
             BeginMake(t, n, x)
      PROVE  CallsOK'
  BY <1>2 DEF BeginMake
<1>3. ASSUME NEW t \in Thread, NEW x \in Iface, NEW y \in Iface,
             CopyIface(t, x, y)
      PROVE  CallsOK'
  BY <1>3 DEF CopyIface, CopyOwner
<1>4. ASSUME NEW t \in Thread, NEW n \in Node, BeginAddServer(t, n)
      PROVE  CallsOK'
  BY <1>4 DEF BeginAddServer, ToAdd
<1>5. ASSUME NEW t \in Thread, NEW n \in Node, BeginDropServer(t, n)
      PROVE  CallsOK'
  BY <1>5 DEF BeginDropServer
<1>6. ASSUME NEW t \in Thread, NEW n \in Node, NEW x \in Iface,
             BeginDrop(t, n, x)
      PROVE  CallsOK'
  BY <1>6 DEF BeginDrop
<1>7. ASSUME NEW t \in Thread, NEW x \in Iface, DestroyIface(t, x)
      PROVE  CallsOK'
  <2>1. CASE owner[x] # NoNode /\ life[owner[x]] = "live"
    <3>1. PICK n \in Node : n = owner[x]
      BY <2>1
    <3>2. call[t].op = "idle" /\ ~Busy(n)
          /\ (\A u \in Thread : call[u].iface # x) /\ ifLife[x] = "live"
      BY <1>7, <2>1, <3>1 DEF DestroyIface
    <3>3. \E todo \in SUBSET IfName :
            call' = [call EXCEPT ![t] =
              [op |-> "drop", node |-> n, iface |-> x, todo |-> todo, done |-> {}]]
      BY <1>7, <2>1, <3>1 DEF DestroyIface
    <3>4. life' = life /\ table' = table /\ owner' = owner
          /\ ifLife' = [ifLife EXCEPT ![x] = "dead"]
      BY <1>7 DEF DestroyIface
    <3> QED
      BY <2>1, <3>1, <3>2, <3>3, <3>4
  <2>2. CASE ~(owner[x] # NoNode /\ life[owner[x]] = "live")
    <3>1. /\ call' = call /\ life' = life /\ table' = table /\ owner' = owner
          /\ ifLife' = [ifLife EXCEPT ![x] = "dead"]
          /\ ifLife[x] = "live" /\ \A u \in Thread : call[u].iface # x
      BY <1>7, <2>2 DEF DestroyIface
    <3> QED
      BY <2>2, <3>1
  <2> QED
    BY <2>1, <2>2
<1>8. ASSUME NEW t \in Thread, NEW n \in Node, DestroyNode(t, n)
      PROVE  CallsOK'
  BY <1>8 DEF DestroyNode, Withdrawn
<1>9. ASSUME NEW t \in Thread, NEW i \in IfName, AddOne(t, i)
      PROVE  CallsOK'
  BY <1>9, OneKeeps
<1>10. ASSUME NEW t \in Thread, NEW i \in IfName, AddFails(t, i)
      PROVE  CallsOK'
  BY <1>10, FailureKeepsCalls
<1>11. ASSUME NEW t \in Thread, NEW i \in IfName, Withdraw(t, i)
      PROVE  CallsOK'
  BY <1>11, OneKeeps
<1>12. ASSUME NEW t \in Thread, FinishMake(t)
      PROVE  CallsOK'
  BY <1>12 DEF FinishMake
<1>13. ASSUME NEW t \in Thread, FinishAddServer(t)
      PROVE  CallsOK'
  BY <1>13 DEF FinishAddServer
<1>14. ASSUME NEW t \in Thread, FinishDrop(t)
      PROVE  CallsOK'
  BY <1>14 DEF FinishDrop, OwnerAfterDrop
<1>15. ASSUME NEW t \in Thread, FinishWithdraw(t)
      PROVE  CallsOK'
  BY <1>15 DEF FinishWithdraw
<1>16. ASSUME NEW t \in Thread, FinishDestroy(t)
      PROVE  CallsOK'
  BY <1>16 DEF FinishDestroy
<1>17. ASSUME DestroyServer
      PROVE  CallsOK'
  BY <1>17 DEF DestroyServer
<1>18. CASE UNCHANGED vars
  BY <1>18 DEF vars
<1> QED
  BY <1>1, <1>2, <1>3, <1>4, <1>5, <1>6, <1>7, <1>8, <1>9,
     <1>10, <1>11, <1>12, <1>13, <1>14, <1>15, <1>16, <1>17, <1>18
     DEF Next, BeginCall, ContinueCall

\* Every step preserves that tables and owners agree.
LEMMA IfacesStep == ASSUME Inv1, [Next]_vars PROVE IfacesOK'
<1> USE PathOfAssumption, NameOfAssumption, NoneAssumption
    DEF Inv1, TypeOK, Call, Ops, Idle, CallsOK, CallOK, DyingUsed, IfacesOK,
        NamesOf, Begin,
        Return, Usable, Busy, nodeVars, ifaceVars, serverVars
<1>1. ASSUME NEW t \in Thread, NEW n \in Node, NEW m \in Node \cup {NoNode},
             CreateNode(t, n, m)
      PROVE  IfacesOK'
  BY <1>1 DEF CreateNode
<1>2. ASSUME NEW t \in Thread, NEW n \in Node, NEW x \in Iface,
             BeginMake(t, n, x)
      PROVE  IfacesOK'
  BY <1>2 DEF BeginMake
<1>3. ASSUME NEW t \in Thread, NEW x \in Iface, NEW y \in Iface,
             CopyIface(t, x, y)
      PROVE  IfacesOK'
  BY <1>3 DEF CopyIface, CopyOwner
<1>4. ASSUME NEW t \in Thread, NEW n \in Node, BeginAddServer(t, n)
      PROVE  IfacesOK'
  BY <1>4 DEF BeginAddServer, ToAdd
<1>5. ASSUME NEW t \in Thread, NEW n \in Node, BeginDropServer(t, n)
      PROVE  IfacesOK'
  BY <1>5 DEF BeginDropServer
<1>6. ASSUME NEW t \in Thread, NEW n \in Node, NEW x \in Iface,
             BeginDrop(t, n, x)
      PROVE  IfacesOK'
  BY <1>6 DEF BeginDrop
<1>7. ASSUME NEW t \in Thread, NEW x \in Iface, DestroyIface(t, x)
      PROVE  IfacesOK'
  <2>1. CASE owner[x] # NoNode /\ life[owner[x]] = "live"
    <3>1. PICK n \in Node : n = owner[x]
      BY <2>1
    <3>2. call[t].op = "idle" /\ ~Busy(n)
          /\ (\A u \in Thread : call[u].iface # x) /\ ifLife[x] = "live"
      BY <1>7, <2>1, <3>1 DEF DestroyIface
    <3>3. \E todo \in SUBSET IfName :
            call' = [call EXCEPT ![t] =
              [op |-> "drop", node |-> n, iface |-> x, todo |-> todo, done |-> {}]]
      BY <1>7, <2>1, <3>1 DEF DestroyIface
    <3>4. life' = life /\ table' = table /\ owner' = owner
          /\ ifLife' = [ifLife EXCEPT ![x] = "dead"]
      BY <1>7 DEF DestroyIface
    <3> QED
      BY <2>1, <3>1, <3>2, <3>3, <3>4
  <2>2. CASE ~(owner[x] # NoNode /\ life[owner[x]] = "live")
    <3>1. /\ call' = call /\ life' = life /\ table' = table /\ owner' = owner
          /\ ifLife' = [ifLife EXCEPT ![x] = "dead"]
          /\ ifLife[x] = "live" /\ \A u \in Thread : call[u].iface # x
      BY <1>7, <2>2 DEF DestroyIface
    <3> QED
      BY <2>2, <3>1
  <2> QED
    BY <2>1, <2>2
<1>8. ASSUME NEW t \in Thread, NEW n \in Node, DestroyNode(t, n)
      PROVE  IfacesOK'
  BY <1>8 DEF DestroyNode, Withdrawn
<1>9. ASSUME NEW t \in Thread, NEW i \in IfName, AddOne(t, i)
      PROVE  IfacesOK'
  BY <1>9, OneKeeps
<1>10. ASSUME NEW t \in Thread, NEW i \in IfName, AddFails(t, i)
      PROVE  IfacesOK'
  <2>1. table' = table /\ owner' = owner /\ life' = life
    BY <1>10 DEF AddFails
  <2>2. \A u \in Thread \ {t} : call'[u] = call[u]
    BY <1>10 DEF AddFails
  <2>3. call'[t].op \in {"idle", "undo"}
    BY <1>10 DEF AddFails
  <2>4. \A x \in Iface : ifLife'[x] # ifLife[x] =>
          ifLife'[x] = "dead" /\ call[t].op = "make" /\ x = call[t].iface
    BY <1>10 DEF AddFails
  <2> HIDE DEF CallsOK, CallOK, DyingUsed, Inv1
  <2> QED
    BY <2>1, <2>2, <2>3, <2>4 DEF Inv1
<1>11. ASSUME NEW t \in Thread, NEW i \in IfName, Withdraw(t, i)
      PROVE  IfacesOK'
  BY <1>11, OneKeeps
<1>12. ASSUME NEW t \in Thread, FinishMake(t)
      PROVE  IfacesOK'
  BY <1>12 DEF FinishMake
<1>13. ASSUME NEW t \in Thread, FinishAddServer(t)
      PROVE  IfacesOK'
  BY <1>13 DEF FinishAddServer
<1>14. ASSUME NEW t \in Thread, FinishDrop(t)
      PROVE  IfacesOK'
  BY <1>14 DEF FinishDrop, OwnerAfterDrop
<1>15. ASSUME NEW t \in Thread, FinishWithdraw(t)
      PROVE  IfacesOK'
  BY <1>15 DEF FinishWithdraw
<1>16. ASSUME NEW t \in Thread, FinishDestroy(t)
      PROVE  IfacesOK'
  BY <1>16 DEF FinishDestroy
<1>17. ASSUME DestroyServer
      PROVE  IfacesOK'
  BY <1>17 DEF DestroyServer
<1>18. CASE UNCHANGED vars
  BY <1>18 DEF vars
<1> QED
  BY <1>1, <1>2, <1>3, <1>4, <1>5, <1>6, <1>7, <1>8, <1>9,
     <1>10, <1>11, <1>12, <1>13, <1>14, <1>15, <1>16, <1>17, <1>18
     DEF Next, BeginCall, ContinueCall

\* Every step preserves that interfaces in tables exist.
LEMMA AliveStep == ASSUME Inv1, TableAlive, [Next]_vars PROVE TableAlive'
<1> USE PathOfAssumption, NameOfAssumption, NoneAssumption
    DEF Inv1, TypeOK, Call, Ops, Idle, CallsOK, CallOK, DyingUsed, IfacesOK,
        TableAlive, Begin,
        Return, Usable, Busy, nodeVars, ifaceVars, serverVars
<1>1. ASSUME NEW t \in Thread, NEW n \in Node, NEW m \in Node \cup {NoNode},
             CreateNode(t, n, m)
      PROVE  TableAlive'
  BY <1>1 DEF CreateNode
<1>2. ASSUME NEW t \in Thread, NEW n \in Node, NEW x \in Iface,
             BeginMake(t, n, x)
      PROVE  TableAlive'
  BY <1>2 DEF BeginMake
<1>3. ASSUME NEW t \in Thread, NEW x \in Iface, NEW y \in Iface,
             CopyIface(t, x, y)
      PROVE  TableAlive'
  BY <1>3 DEF CopyIface, CopyOwner
<1>4. ASSUME NEW t \in Thread, NEW n \in Node, BeginAddServer(t, n)
      PROVE  TableAlive'
  BY <1>4 DEF BeginAddServer, ToAdd
<1>5. ASSUME NEW t \in Thread, NEW n \in Node, BeginDropServer(t, n)
      PROVE  TableAlive'
  BY <1>5 DEF BeginDropServer
<1>6. ASSUME NEW t \in Thread, NEW n \in Node, NEW x \in Iface,
             BeginDrop(t, n, x)
      PROVE  TableAlive'
  BY <1>6 DEF BeginDrop
<1>7. ASSUME NEW t \in Thread, NEW x \in Iface, DestroyIface(t, x)
      PROVE  TableAlive'
  <2>1. CASE owner[x] # NoNode /\ life[owner[x]] = "live"
    <3>1. PICK n \in Node : n = owner[x]
      BY <2>1
    <3>2. call[t].op = "idle" /\ ~Busy(n)
          /\ (\A u \in Thread : call[u].iface # x) /\ ifLife[x] = "live"
      BY <1>7, <2>1, <3>1 DEF DestroyIface
    <3>3. \E todo \in SUBSET IfName :
            call' = [call EXCEPT ![t] =
              [op |-> "drop", node |-> n, iface |-> x, todo |-> todo, done |-> {}]]
      BY <1>7, <2>1, <3>1 DEF DestroyIface
    <3>4. life' = life /\ table' = table /\ owner' = owner
          /\ ifLife' = [ifLife EXCEPT ![x] = "dead"]
      BY <1>7 DEF DestroyIface
    <3> QED
      BY <2>1, <3>1, <3>2, <3>3, <3>4
  <2>2. CASE ~(owner[x] # NoNode /\ life[owner[x]] = "live")
    <3>1. /\ call' = call /\ life' = life /\ table' = table /\ owner' = owner
          /\ ifLife' = [ifLife EXCEPT ![x] = "dead"]
          /\ ifLife[x] = "live" /\ \A u \in Thread : call[u].iface # x
      BY <1>7, <2>2 DEF DestroyIface
    <3> QED
      BY <2>2, <3>1
  <2> QED
    BY <2>1, <2>2
<1>8. ASSUME NEW t \in Thread, NEW n \in Node, DestroyNode(t, n)
      PROVE  TableAlive'
  BY <1>8 DEF DestroyNode, Withdrawn
<1>9. ASSUME NEW t \in Thread, NEW i \in IfName, AddOne(t, i)
      PROVE  TableAlive'
  BY <1>9, OneKeeps
<1>10. ASSUME NEW t \in Thread, NEW i \in IfName, AddFails(t, i)
      PROVE  TableAlive'
  BY <1>10 DEF AddFails, Rollback
<1>11. ASSUME NEW t \in Thread, NEW i \in IfName, Withdraw(t, i)
      PROVE  TableAlive'
  BY <1>11, OneKeeps
<1>12. ASSUME NEW t \in Thread, FinishMake(t)
      PROVE  TableAlive'
  BY <1>12 DEF FinishMake
<1>13. ASSUME NEW t \in Thread, FinishAddServer(t)
      PROVE  TableAlive'
  BY <1>13 DEF FinishAddServer
<1>14. ASSUME NEW t \in Thread, FinishDrop(t)
      PROVE  TableAlive'
  BY <1>14 DEF FinishDrop, OwnerAfterDrop
<1>15. ASSUME NEW t \in Thread, FinishWithdraw(t)
      PROVE  TableAlive'
  BY <1>15 DEF FinishWithdraw
<1>16. ASSUME NEW t \in Thread, FinishDestroy(t)
      PROVE  TableAlive'
  BY <1>16 DEF FinishDestroy
<1>17. ASSUME DestroyServer
      PROVE  TableAlive'
  BY <1>17 DEF DestroyServer
<1>18. CASE UNCHANGED vars
  BY <1>18 DEF vars
<1> QED
  BY <1>1, <1>2, <1>3, <1>4, <1>5, <1>6, <1>7, <1>8, <1>9,
     <1>10, <1>11, <1>12, <1>13, <1>14, <1>15, <1>16, <1>17, <1>18
     DEF Next, BeginCall, ContinueCall

\* What is on the bus for a call does not change if its node and the bus at that
\* node's path do not.
LEMMA CallUnmoved ==
  ASSUME NEW u \in Thread, NEW m \in Node, call[u].node = m,
         call'[u] = call[u], up' = up,
         ifsOf'[PathOf[m]] = ifsOf[PathOf[m]],
         NamesOf(m)' = NamesOf(m), Served(m)' <=> Served(m),
         attached'[m] = attached[m], m \in dropped' <=> m \in dropped,
         CallOnBus(u)
  PROVE  CallOnBus(u)'
<1>1. ASSUME NEW adding, NEW leaving
      PROVE  Full(m, ifsOf[PathOf[m]], adding, leaving) =>
               Full(m, ifsOf[PathOf[m]], adding, leaving)'
  BY DEF Full
<1>2. CASE call[u].op = "make"
  BY <1>1, <1>2 DEF CallOnBus
<1>3. CASE call[u].op = "drop"
  BY <1>1, <1>3 DEF CallOnBus
<1>4. CASE call[u].op \notin {"make", "drop"}
  BY <1>4 DEF CallOnBus
<1> QED
  BY <1>2, <1>3, <1>4

\* What is on the bus for a node, and for a call in it, does not depend on other
\* nodes and calls.
LEMMA OneNode ==
  ASSUME Inv1, BusOK, NEW t \in Thread, NEW n \in Node,
         up' = up,
         \A u \in Thread \ {t} : call'[u] = call[u],
         \/ call[t].op = "idle" /\ ~Busy(n)
         \/ call[t].op # "idle" /\ call[t].node = n,
         call'[t] = Idle \/ (call'[t].op # "idle" /\ call'[t].node = n),
         \A m \in Node \ {n} : Exists(m) => PathOf[m] # PathOf[n],
         \A m \in Node \ {n} :
           /\ life'[m] = life[m] /\ table'[m] = table[m]
           /\ attached'[m] = attached[m] /\ (m \in dropped' <=> m \in dropped),
         \A p \in Path \ {PathOf[n]} :
           ifsOf'[p] = ifsOf[p] /\ entryNode'[p] = entryNode[p],
         ~up => ifsOf'[PathOf[n]] = {},
         ifsOf'[PathOf[n]] # {} => entryNode'[PathOf[n]] = n /\ Exists(n)',
         call'[t].op # "idle" => CallOnBus(t)',
         call'[t].op = "idle" /\ Exists(n)' => Full(n, ifsOf[PathOf[n]], {}, {})'
  PROVE  BusOK'
<1> USE PathOfAssumption, NoneAssumption
<1>1. \A m \in Node \ {n} : Exists(m)' <=> Exists(m)
  BY DEF Exists
<1>2. \A m \in Node \ {n} : Exists(m) => PathOf[m] # PathOf[n]
  OBVIOUS
<1>3. \A m \in Node \ {n} : NamesOf(m)' = NamesOf(m) /\ (Served(m)' <=> Served(m))
  BY DEF NamesOf, Served
<1>4. \A u \in Thread \ {t} : call[u].op # "idle" =>
        /\ call[u].node \in Node \ {n} /\ Exists(call[u].node)
  <2> SUFFICES ASSUME NEW u \in Thread \ {t}, call[u].op # "idle"
               PROVE  /\ call[u].node \in Node \ {n} /\ Exists(call[u].node)
    OBVIOUS
  <2>1. /\ call[u].node \in Node
        /\ life[call[u].node] \in {"live", "dying"}
        /\ \A v \in Thread : call[v].node = call[u].node => v = u
    BY DEF Inv1, CallsOK, CallOK
  <2>2. call[u].node # n
    BY <2>1 DEF Busy
  <2> QED
    BY <2>1, <2>2 DEF Exists
<1>5. \A m \in Node \ {n} : Busy(m)' <=> Busy(m)
  <2>1. call[t].node # n => call[t].node = NoNode
    BY DEF Inv1, CallsOK, CallOK, Idle
  <2>2. call'[t].node # n => call'[t].node = NoNode
    BY DEF Idle
  <2> QED
    BY <2>1, <2>2 DEF Busy
<1>6. (~up => \A p \in Path : ifsOf[p] = {})'
  BY DEF BusOK
<1>7. (\A p \in Path : ifsOf[p] # {} =>
         /\ entryNode[p] \in Node
         /\ PathOf[entryNode[p]] = p /\ Exists(entryNode[p]))'
  BY <1>1, <1>2 DEF BusOK
<1>8. (\A m, k \in Node :
         Exists(m) /\ Exists(k) /\ PathOf[m] = PathOf[k] => m = k)'
  BY <1>1, <1>2 DEF BusOK
<1>9. ASSUME NEW u \in Thread, call'[u].op # "idle" PROVE CallOnBus(u)'
  <2>1. CASE u = t
    BY <1>9, <2>1
  <2>2. CASE u # t
    <3>1. call'[u] = call[u] /\ call[u].op # "idle"
      BY <1>9, <2>2
    <3>2. PICK m \in Node \ {n} : m = call[u].node /\ Exists(m)
      BY <1>4, <2>2, <3>1
    <3>3. PathOf[m] \in Path \ {PathOf[n]}
      BY <1>2, <3>2
    <3>4. /\ CallOnBus(u)
          /\ ifsOf'[PathOf[m]] = ifsOf[PathOf[m]]
          /\ NamesOf(m)' = NamesOf(m) /\ (Served(m)' <=> Served(m))
          /\ attached'[m] = attached[m] /\ (m \in dropped' <=> m \in dropped)
      BY <1>3, <3>1, <3>2, <3>3 DEF BusOK
    <3> QED
      BY <3>1, <3>2, <3>4, CallUnmoved
  <2> QED
    BY <2>1, <2>2
<1>10. ASSUME NEW m \in Node, Exists(m)', ~Busy(m)'
       PROVE  Full(m, ifsOf[PathOf[m]], {}, {})'
  <2>1. CASE m = n
    BY <1>10, <2>1 DEF Busy, Idle
  <2>2. CASE m # n
    <3>1. Full(m, ifsOf[PathOf[m]], {}, {}) /\ ifsOf'[PathOf[m]] = ifsOf[PathOf[m]]
      BY <1>1, <1>2, <1>5, <1>10, <2>2 DEF BusOK
    <3> QED
      BY <1>3, <2>2, <3>1 DEF Full
  <2> QED
    BY <2>1, <2>2
<1> QED
  BY <1>6, <1>7, <1>8, <1>9, <1>10 DEF BusOK

\* A node that exists has the entry at its path, if there is one.
LEMMA EntryIsNode ==
  ASSUME BusOK, NEW n \in Node, Exists(n), ifsOf[PathOf[n]] # {}
  PROVE  entryNode[PathOf[n]] = n
BY PathOfAssumption DEF BusOK

\* A step of a call in n that leaves the server alone.
LEMMA OneNodeOnly ==
  ASSUME Inv1, BusOK, NEW t \in Thread, NEW n \in Node,
         up' = up, ifsOf' = ifsOf, entryNode' = entryNode,
         \A u \in Thread \ {t} : call'[u] = call[u],
         \/ call[t].op = "idle" /\ ~Busy(n)
         \/ call[t].op # "idle" /\ call[t].node = n,
         call'[t] = Idle \/ (call'[t].op # "idle" /\ call'[t].node = n),
         Exists(n), Exists(n)',
         \A m \in Node \ {n} :
           /\ life'[m] = life[m] /\ table'[m] = table[m]
           /\ attached'[m] = attached[m] /\ (m \in dropped' <=> m \in dropped),
         call'[t].op # "idle" => CallOnBus(t)',
         call'[t].op = "idle" => Full(n, ifsOf[PathOf[n]], {}, {})'
  PROVE  BusOK'
<1>1. ~up => ifsOf[PathOf[n]] = {}
  BY PathOfAssumption DEF BusOK
<1>2. ifsOf[PathOf[n]] # {} => entryNode[PathOf[n]] = n
  BY EntryIsNode
<1>3. \A m \in Node \ {n} : Exists(m) => PathOf[m] # PathOf[n]
  BY DEF BusOK
<1> QED
  BY <1>1, <1>2, <1>3, OneNode

\* A step that leaves nodes, calls and the server alone.
LEMMA SameBus ==
  ASSUME BusOK, UNCHANGED <<nodeVars, serverVars, call, dropped>>
  PROVE  BusOK'
<1>1. /\ life' = life /\ table' = table /\ attached' = attached
      /\ up' = up /\ ifsOf' = ifsOf /\ entryNode' = entryNode
      /\ call' = call /\ dropped' = dropped
  BY DEF nodeVars, serverVars
<1>2. ASSUME NEW t \in Thread, CallOnBus(t)
      PROVE  CallOnBus(t)'
  BY <1>1, <1>2 DEF CallOnBus, Full, Served, NamesOf
<1>3. ASSUME NEW n \in Node, Full(n, ifsOf[PathOf[n]], {}, {})
      PROVE  Full(n, ifsOf[PathOf[n]], {}, {})'
  BY <1>1, <1>3 DEF Full, Served, NamesOf
<1>4. \A n \in Node : (Exists(n)' <=> Exists(n)) /\ (Busy(n)' <=> Busy(n))
  BY <1>1 DEF Exists, Busy
<1> QED
  BY <1>1, <1>2, <1>3, <1>4 DEF BusOK

\* What is on the bus for a node that is not in use.
LEMMA UsableOnBus ==
  ASSUME BusOK, NEW t \in Thread, NEW n \in Node, Usable(t, n)
  PROVE  /\ call[t].op = "idle" /\ ~Busy(n) /\ life[n] = "live" /\ Exists(n)
         /\ Full(n, ifsOf[PathOf[n]], {}, {})
BY DEF Usable, BusOK, Exists

\* What a call has begun with, and the calls of others.
LEMMA Begun ==
  ASSUME TypeOK, NEW t \in Thread, NEW op, NEW n, NEW x, NEW todo,
         Begin(t, op, n, x, todo)
  PROVE  /\ call'[t] = [op |-> op, node |-> n, iface |-> x,
                        todo |-> todo, done |-> {}]
         /\ \A u \in Thread \ {t} : call'[u] = call[u]
BY DEF Begin, TypeOK

LEMMA Returned ==
  ASSUME TypeOK, NEW t \in Thread, Return(t)
  PROVE  /\ call'[t] = Idle /\ call'[t].op = "idle"
         /\ \A u \in Thread \ {t} : call'[u] = call[u]
BY DEF Return, TypeOK, Idle

\* The node of a call that is under way, and what is on the bus for it.
LEMMA UnderWay ==
  ASSUME Inv1, BusOK, NEW t \in Thread, call[t].op # "idle"
  PROVE  /\ call[t].node \in Node /\ Exists(call[t].node) /\ CallOnBus(t)
         /\ PathOf[call[t].node] \in Path
BY PathOfAssumption DEF Inv1, CallsOK, CallOK, BusOK, Exists

\* Every step preserves what is on the bus.
LEMMA BusStep == ASSUME IInv, [Next]_vars PROVE BusOK'
<1>0. Inv1 /\ TypeOK /\ BusOK
  BY DEF IInv, Inv1
<1>1. ASSUME NEW t \in Thread, NEW n \in Node, NEW m \in Node \cup {NoNode},
             CreateNode(t, n, m)
      PROVE  BusOK'
  <2>1. /\ call[t].op = "idle" /\ life[n] = "unborn"
        /\ \A k \in Node : PathOf[k] = PathOf[n] => life[k] \in {"unborn", "dead"}
        /\ table' = table /\ call' = call /\ dropped' = dropped
        /\ up' = up /\ ifsOf' = ifsOf /\ entryNode' = entryNode
    BY <1>1 DEF CreateNode, serverVars
  <2>2. \A k \in Node \ {n} : life'[k] = life[k] /\ attached'[k] = attached[k]
    BY <1>0, <1>1 DEF CreateNode, TypeOK
  <2>3. \A k \in Node : Exists(k) => PathOf[k] # PathOf[n]
    BY <2>1 DEF Exists
  <2>4. ifsOf[PathOf[n]] = {}
    BY <1>0, <2>3, PathOfAssumption DEF BusOK
  <2>5. ~Busy(n) /\ call[t] = Idle
    BY <1>0, <2>1, NoneAssumption DEF Busy, Inv1, CallsOK, CallOK, Idle
  <2>6. table[n] = {}
    BY <1>0, <2>1 DEF Inv1, IfacesOK
  <2>7. Full(n, ifsOf[PathOf[n]], {}, {})'
    BY <2>1, <2>4, <2>6 DEF Full, NamesOf
  <2> QED
    BY <1>0, <2>1, <2>2, <2>3, <2>4, <2>5, <2>7, OneNode
<1>2. ASSUME NEW t \in Thread, NEW n \in Node, NEW x \in Iface,
             BeginMake(t, n, x)
      PROVE  BusOK'
  <2> DEFINE todo == IF Served(n) THEN {NameOf[x]} ELSE {}
             bus == ifsOf[PathOf[n]]
  <2>1. Usable(t, n) /\ Begin(t, "make", n, x, todo)
        /\ UNCHANGED <<nodeVars, serverVars, dropped>>
    BY <1>2 DEF BeginMake
  <2>2. Full(n, bus, {}, {}) /\ Exists(n) /\ call[t].op = "idle" /\ ~Busy(n)
    BY <1>0, <2>1, UsableOnBus
  <2>3. /\ call'[t] = [op |-> "make", node |-> n, iface |-> x,
                       todo |-> todo, done |-> {}]
        /\ \A u \in Thread \ {t} : call'[u] = call[u]
    BY <1>0, <2>1, Begun
  <2>4. CallOnBus(t)'
    BY <2>1, <2>2, <2>3
       DEF CallOnBus, Full, Served, NamesOf, nodeVars, serverVars
  <2>5. /\ life' = life /\ table' = table /\ attached' = attached
        /\ up' = up /\ ifsOf' = ifsOf /\ entryNode' = entryNode
        /\ \A m \in Node \ {n} : (m \in dropped' <=> m \in dropped)
        /\ Exists(n)'
    BY <2>1, <2>2 DEF nodeVars, serverVars, Exists
  <2>6. call'[t].op # "idle" /\ call'[t].node = n
    BY <2>3
  <2> QED
    BY <1>0, <2>1, <2>2, <2>3, <2>4, <2>5, <2>6, OneNodeOnly
<1>3. ASSUME NEW t \in Thread, NEW x \in Iface, NEW y \in Iface,
             CopyIface(t, x, y)
      PROVE  BusOK'
  BY <1>0, <1>3, SameBus DEF CopyIface
<1>4. ASSUME NEW t \in Thread, NEW n \in Node, BeginAddServer(t, n)
      PROVE  BusOK'
  <2>1. Usable(t, n) /\ up /\ ~attached[n]
        /\ Begin(t, "add", n, NoIface, NamesOf(n))
        /\ UNCHANGED <<nodeVars, ifaceVars, serverVars, dropped>>
    BY <1>4 DEF BeginAddServer, ToAdd
  <2> DEFINE bus == ifsOf[PathOf[n]]
  <2>2. Full(n, bus, {}, {}) /\ Exists(n) /\ call[t].op = "idle" /\ ~Busy(n)
    BY <1>0, <2>1, UsableOnBus
  <2>3. /\ call'[t] = [op |-> "add", node |-> n, iface |-> NoIface,
                       todo |-> NamesOf(n), done |-> {}]
        /\ \A u \in Thread \ {t} : call'[u] = call[u]
    BY <1>0, <2>1, Begun
  <2>4. CallOnBus(t)'
    BY <2>1, <2>2, <2>3
       DEF CallOnBus, Full, Served, NamesOf, nodeVars, serverVars
  <2>5. /\ life' = life /\ table' = table /\ attached' = attached
        /\ up' = up /\ ifsOf' = ifsOf /\ entryNode' = entryNode
        /\ \A m \in Node \ {n} : (m \in dropped' <=> m \in dropped)
        /\ Exists(n)'
    BY <2>1, <2>2 DEF nodeVars, serverVars, Exists
  <2>6. call'[t].op # "idle" /\ call'[t].node = n
    BY <2>3
  <2> QED
    BY <1>0, <2>1, <2>2, <2>3, <2>4, <2>5, <2>6, OneNodeOnly
<1>5. ASSUME NEW t \in Thread, NEW n \in Node, BeginDropServer(t, n)
      PROVE  BusOK'
  <2>1. Usable(t, n) /\ Served(n)
        /\ Begin(t, "drop_server", n, NoIface, NamesOf(n))
        /\ UNCHANGED <<nodeVars, ifaceVars, serverVars>>
        /\ dropped' = dropped \cup {n}
    BY <1>5 DEF BeginDropServer
  <2> DEFINE bus == ifsOf[PathOf[n]]
  <2>2. Full(n, bus, {}, {}) /\ Exists(n) /\ call[t].op = "idle" /\ ~Busy(n)
    BY <1>0, <2>1, UsableOnBus
  <2>3. /\ call'[t] = [op |-> "drop_server", node |-> n, iface |-> NoIface,
                       todo |-> NamesOf(n), done |-> {}]
        /\ \A u \in Thread \ {t} : call'[u] = call[u]
    BY <1>0, <2>1, Begun
  <2>4. CallOnBus(t)'
    BY <2>1, <2>2, <2>3
       DEF CallOnBus, Full, Served, NamesOf, nodeVars, serverVars
  <2>5. /\ life' = life /\ table' = table /\ attached' = attached
        /\ up' = up /\ ifsOf' = ifsOf /\ entryNode' = entryNode
        /\ \A m \in Node \ {n} : (m \in dropped' <=> m \in dropped)
        /\ Exists(n)'
    BY <2>1, <2>2 DEF nodeVars, serverVars, Exists
  <2>6. call'[t].op # "idle" /\ call'[t].node = n
    BY <2>3
  <2> QED
    BY <1>0, <2>1, <2>2, <2>3, <2>4, <2>5, <2>6, OneNodeOnly
<1>6. ASSUME NEW t \in Thread, NEW n \in Node, NEW x \in Iface,
             Usable(t, n) \/ (call[t].op = "idle" /\ life[n] = "live" /\ ~Busy(n)),
             Begin(t, "drop", n, x, IF Served(n) THEN {NameOf[x]} ELSE {}),
             UNCHANGED <<nodeVars, serverVars, dropped>>
      PROVE  BusOK'
  <2> DEFINE bus == ifsOf[PathOf[n]]
             todo == IF Served(n) THEN {NameOf[x]} ELSE {}
  <2>1. Usable(t, n)
    BY <1>6 DEF Usable
  <2>2. Full(n, bus, {}, {}) /\ Exists(n) /\ call[t].op = "idle" /\ ~Busy(n)
    BY <1>0, <2>1, UsableOnBus
  <2>3. /\ call'[t] = [op |-> "drop", node |-> n, iface |-> x,
                       todo |-> todo, done |-> {}]
        /\ \A u \in Thread \ {t} : call'[u] = call[u]
    BY <1>0, <1>6, Begun
  <2>4. CallOnBus(t)'
    BY <1>6, <2>2, <2>3
       DEF CallOnBus, Full, Served, NamesOf, nodeVars, serverVars
  <2>5. /\ life' = life /\ table' = table /\ attached' = attached
        /\ up' = up /\ ifsOf' = ifsOf /\ entryNode' = entryNode
        /\ \A m \in Node \ {n} : (m \in dropped' <=> m \in dropped)
        /\ Exists(n)'
    BY <1>6, <2>2 DEF nodeVars, serverVars, Exists
  <2>6. call'[t].op # "idle" /\ call'[t].node = n
    BY <2>3
  <2> QED
    BY <1>0, <1>6, <2>2, <2>3, <2>4, <2>5, <2>6, OneNodeOnly
<1>7. ASSUME NEW t \in Thread, NEW x \in Iface, DestroyIface(t, x)
      PROVE  BusOK'
  <2>1. CASE owner[x] # NoNode /\ life[owner[x]] = "live"
    <3>1. owner[x] \in Node
      BY <1>0, <2>1 DEF TypeOK
    <3> QED
      BY <1>6, <1>7, <2>1, <3>1 DEF DestroyIface
  <2>2. CASE ~(owner[x] # NoNode /\ life[owner[x]] = "live")
    BY <1>0, <1>7, <2>2, SameBus DEF DestroyIface
  <2> QED
    BY <2>1, <2>2
<1>8. ASSUME NEW t \in Thread, NEW n \in Node, DestroyNode(t, n)
      PROVE  BusOK'
  <2>1. /\ Usable(t, n) /\ life' = [life EXCEPT ![n] = "dying"]
        /\ Begin(t, "destroy", n, NoIface, Withdrawn(n))
        /\ table' = table /\ attached' = attached /\ dropped' = dropped
        /\ up' = up /\ ifsOf' = ifsOf /\ entryNode' = entryNode
    BY <1>8 DEF DestroyNode, serverVars
  <2>2. /\ Full(n, ifsOf[PathOf[n]], {}, {}) /\ Exists(n)
        /\ call[t].op = "idle" /\ ~Busy(n)
    BY <1>0, <2>1, UsableOnBus
  <2>3. /\ call'[t] = [op |-> "destroy", node |-> n, iface |-> NoIface,
                       todo |-> Withdrawn(n), done |-> {}]
        /\ \A u \in Thread \ {t} : call'[u] = call[u]
    BY <1>0, <2>1, Begun
  <2>4. call'[t].op = "destroy" /\ call'[t].node = n
        /\ call'[t].todo = Withdrawn(n)
    BY <2>3
  <2>5. CallOnBus(t)'
    BY <2>1, <2>2, <2>4 DEF CallOnBus, Full, Withdrawn
  <2>6. /\ \A m \in Node \ {n} : life'[m] = life[m]
        /\ Exists(n)'
    BY <1>0, <2>1 DEF Exists, TypeOK
  <2> QED
    BY <1>0, <2>1, <2>2, <2>3, <2>4, <2>5, <2>6, OneNodeOnly
<1>9. ASSUME NEW t \in Thread, NEW i \in IfName, AddOne(t, i)
      PROVE  BusOK'
  <2>0. PICK n \in Node : n = call[t].node
    BY <1>0, <1>9, UnderWay DEF AddOne
  <2> DEFINE p == PathOf[n]
  <2>1. /\ call[t].op \in {"make", "add"} /\ i \in call[t].todo /\ up' = up
        /\ life' = life /\ table' = table /\ attached' = attached
        /\ dropped' = dropped
    BY <1>0, <1>9, OneAdded
  <2>2. n \in Node /\ n = call[t].node /\ Exists(n) /\ CallOnBus(t) /\ p \in Path
    BY <1>0, <2>0, <2>1, UnderWay
  <2>3. /\ ifsOf' = [ifsOf EXCEPT ![p] = @ \cup {i}]
        /\ entryNode' = IF ifsOf[p] = {} THEN [entryNode EXCEPT ![p] = n]
                                         ELSE entryNode
    BY <1>9, <2>0 DEF AddOne, ServerAdd
  <2>4. /\ ifsOf'[p] = ifsOf[p] \cup {i}
        /\ \A q \in Path \ {p} : ifsOf'[q] = ifsOf[q]
    BY <1>0, <2>2, <2>3 DEF TypeOK
  <2>5. /\ \A q \in Path \ {p} : entryNode'[q] = entryNode[q]
        /\ entryNode'[p] = n
    BY <1>0, <2>2, <2>3, EntryIsNode DEF TypeOK
  <2>6. /\ \A u \in Thread \ {t} : call'[u] = call[u]
        /\ call'[t].op = call[t].op /\ call'[t].node = n
        /\ call'[t].iface = call[t].iface
        /\ call'[t].todo = call[t].todo \ {i}
        /\ call'[t].done = call[t].done \cup {i}
    BY <1>0, <2>0, <1>9, OneAdded
  <2>7. up
    BY <2>1, <2>2 DEF CallOnBus, Served
  <2>8. CallOnBus(t)'
    BY <2>1, <2>2, <2>4, <2>6, <2>7 DEF CallOnBus, Full, Served, NamesOf
  <2>10. Exists(n)' /\ \A m \in Node \ {n} : Exists(m) => PathOf[m] # PathOf[n]
    BY <1>0, <2>1, <2>2 DEF Exists, BusOK
  <2> QED
    BY <1>0, <2>1, <2>2, <2>4, <2>5, <2>6, <2>7, <2>8, <2>10, OneNode
<1>10. ASSUME NEW t \in Thread, NEW i \in IfName, AddFails(t, i)
       PROVE  BusOK'
  <2>0. PICK n \in Node : n = call[t].node
    BY <1>0, <1>10, UnderWay DEF AddFails
  <2>1. /\ call[t].op \in {"make", "add"} /\ i \in call[t].todo
        /\ UNCHANGED <<nodeVars, serverVars, dropped>>
    BY <1>10 DEF AddFails
  <2>2. n \in Node /\ n = call[t].node /\ Exists(n) /\ CallOnBus(t)
    BY <1>0, <2>0, <2>1, UnderWay
  <2>5. /\ life' = life /\ table' = table /\ attached' = attached
        /\ up' = up /\ ifsOf' = ifsOf /\ entryNode' = entryNode
        /\ \A m \in Node \ {n} : (m \in dropped' <=> m \in dropped)
        /\ Exists(n)'
    BY <2>1, <2>2 DEF nodeVars, serverVars, Exists
  <2>3. CASE call[t].op = "add"
    <3>1. /\ call'[t] = [op |-> "undo", node |-> n, iface |-> NoIface,
                         todo |-> call[t].done, done |-> {}]
          /\ \A u \in Thread \ {t} : call'[u] = call[u]
      BY <1>0, <1>10, <2>2, <2>3, Begun DEF AddFails, Rollback
    <3>2. CallOnBus(t)'
      BY <2>1, <2>2, <2>3, <3>1 DEF CallOnBus, nodeVars, serverVars
    <3> QED
      BY <1>0, <2>1, <2>2, <2>3, <2>5, <3>1, <3>2, OneNodeOnly
  <2>4. CASE call[t].op = "make"
    <3>1. call'[t] = Idle /\ \A u \in Thread \ {t} : call'[u] = call[u]
      BY <1>0, <1>10, <2>4, Returned DEF AddFails
    <3>2. call[t].done = {}
      BY <2>1, <2>2, <2>4 DEF CallOnBus
    <3>3. Full(n, ifsOf[PathOf[n]], {}, {})'
      BY <2>1, <2>2, <2>4, <3>2
         DEF CallOnBus, Full, Served, NamesOf, nodeVars, serverVars
    <3>4. call'[t].op = "idle"
      BY <3>1 DEF Idle
    <3> QED
      BY <1>0, <2>1, <2>2, <2>4, <2>5, <3>1, <3>3, <3>4, OneNodeOnly
  <2> QED
    BY <2>1, <2>3, <2>4
<1>11. ASSUME NEW t \in Thread, NEW i \in IfName, Withdraw(t, i)
       PROVE  BusOK'
  <2>0. PICK n \in Node : n = call[t].node
    BY <1>0, <1>11, UnderWay DEF Withdraw, Withdrawing
  <2> DEFINE p == PathOf[n]
  <2>1. /\ call[t].op \in Withdrawing /\ i \in call[t].todo /\ up' = up
        /\ life' = life /\ table' = table /\ attached' = attached
        /\ dropped' = dropped
    BY <1>0, <1>11, OneWithdrawn
  <2>2. n \in Node /\ n = call[t].node /\ Exists(n) /\ CallOnBus(t) /\ p \in Path
    BY <1>0, <2>0, <2>1, UnderWay DEF Withdrawing
  <2>3. /\ ifsOf' = [ifsOf EXCEPT ![p] = @ \ {i}]
        /\ entryNode' = IF ifsOf[p] = {i} THEN [entryNode EXCEPT ![p] = NoNode]
                                          ELSE entryNode
    BY <1>11, <2>0 DEF Withdraw, ServerDrop
  <2>4. /\ ifsOf'[p] = ifsOf[p] \ {i}
        /\ \A q \in Path \ {p} : ifsOf'[q] = ifsOf[q]
    BY <1>0, <2>2, <2>3 DEF TypeOK
  <2>5. /\ \A q \in Path \ {p} : entryNode'[q] = entryNode[q]
        /\ ifsOf'[p] # {} => entryNode'[p] = n
    BY <1>0, <2>2, <2>3, <2>4, EntryIsNode DEF TypeOK
  <2>6. /\ \A u \in Thread \ {t} : call'[u] = call[u]
        /\ call'[t].op = call[t].op /\ call'[t].node = n
        /\ call'[t].iface = call[t].iface
        /\ call'[t].todo = call[t].todo \ {i}
        /\ call'[t].done = call[t].done
    BY <1>0, <2>0, <1>11, OneWithdrawn
  <2>7. ~up => ifsOf'[p] = {}
    BY <1>0, <2>2, <2>4 DEF BusOK
  <2>8. CallOnBus(t)'
    BY <2>1, <2>2, <2>4, <2>6
       DEF CallOnBus, Full, Served, NamesOf, Withdrawing
  <2>10. Exists(n)' /\ \A m \in Node \ {n} : Exists(m) => PathOf[m] # PathOf[n]
    BY <1>0, <2>1, <2>2 DEF Exists, BusOK
  <2> QED
    BY <1>0, <2>1, <2>2, <2>4, <2>5, <2>6, <2>7, <2>8, <2>10, OneNode
       DEF Withdrawing
<1>12. ASSUME NEW t \in Thread, FinishMake(t) PROVE BusOK'
  <2>0. PICK n \in Node : n = call[t].node
    BY <1>0, <1>12, UnderWay DEF FinishMake
  <2>9. PICK x \in Iface : x = call[t].iface
    BY <1>0, <1>12 DEF Inv1, IfacesOK, FinishMake
  <2>1. /\ call[t].op = "make" /\ call[t].todo = {} /\ Return(t)
        /\ table' = [table EXCEPT ![n] = @ \cup {x}]
        /\ UNCHANGED <<life, attached, serverVars, dropped>>
    BY <1>12, <2>0, <2>9 DEF FinishMake
  <2>2. n \in Node /\ n = call[t].node /\ Exists(n) /\ CallOnBus(t)
    BY <1>0, <2>0, <2>1, UnderWay
  <2>3. /\ call'[t] = Idle /\ call'[t].op = "idle"
        /\ \A u \in Thread \ {t} : call'[u] = call[u]
    BY <1>0, <2>1, Returned
  <2>4. \A m \in Node : table'[m] = IF m = n THEN table[m] \cup {x} ELSE table[m]
    BY <1>0, <2>1, <2>2 DEF TypeOK
  <2>5. NamesOf(n)' = NamesOf(n) \cup {NameOf[x]}
    BY <2>2, <2>4 DEF NamesOf
  <2>6. (Served(n)' <=> Served(n)) /\ ifsOf' = ifsOf
    BY <2>1 DEF Served, serverVars
  <2>7. Full(n, ifsOf[PathOf[n]], {}, {})'
    BY <2>1, <2>2, <2>5, <2>6, <2>9 DEF CallOnBus, Full
  <2>10. /\ life' = life /\ dropped' = dropped
         /\ up' = up /\ ifsOf' = ifsOf /\ entryNode' = entryNode /\ Exists(n)'
    BY <2>1, <2>2 DEF serverVars, Exists
  <2> QED
    BY <1>0, <2>1, <2>2, <2>3, <2>4, <2>7, <2>10, OneNodeOnly
<1>13. ASSUME NEW t \in Thread, FinishAddServer(t) PROVE BusOK'
  <2>0. PICK n \in Node : n = call[t].node
    BY <1>0, <1>13, UnderWay DEF FinishAddServer
  <2>1. /\ call[t].op = "add" /\ call[t].todo = {} /\ Return(t)
        /\ attached' = [attached EXCEPT ![n] = TRUE]
        /\ UNCHANGED <<life, table, serverVars, dropped>>
    BY <1>13, <2>0 DEF FinishAddServer
  <2>2. n \in Node /\ n = call[t].node /\ Exists(n) /\ CallOnBus(t)
    BY <1>0, <2>0, <2>1, UnderWay
  <2>3. /\ call'[t] = Idle /\ call'[t].op = "idle"
        /\ \A u \in Thread \ {t} : call'[u] = call[u]
    BY <1>0, <2>1, Returned
  <2>4. \A m \in Node : attached'[m] = IF m = n THEN TRUE ELSE attached[m]
    BY <1>0, <2>1, <2>2 DEF TypeOK
  <2>5. Full(n, ifsOf[PathOf[n]], {}, {})'
    BY <2>1, <2>2, <2>4 DEF CallOnBus, Full, Served, NamesOf, serverVars
  <2>10. /\ up' = up /\ ifsOf' = ifsOf /\ entryNode' = entryNode /\ Exists(n)'
         /\ call[t].op # "idle"
    BY <2>1, <2>2 DEF serverVars, Exists
  <2>11. \A m \in Node \ {n} :
           /\ life'[m] = life[m] /\ table'[m] = table[m]
           /\ attached'[m] = attached[m] /\ (m \in dropped' <=> m \in dropped)
    BY <2>1, <2>4
  <2> QED
    BY <1>0, <2>2, <2>3, <2>5, <2>10, <2>11, OneNodeOnly
<1>14. ASSUME NEW t \in Thread, FinishDrop(t) PROVE BusOK'
  <2>0. PICK n \in Node : n = call[t].node
    BY <1>0, <1>14, UnderWay DEF FinishDrop
  <2>9. PICK x \in Iface : x = call[t].iface
    BY <1>0, <1>14 DEF Inv1, IfacesOK, FinishDrop
  <2>1. /\ call[t].op = "drop" /\ call[t].todo = {} /\ Return(t)
        /\ table' = [table EXCEPT ![n] = @ \ {x}]
        /\ UNCHANGED <<life, attached, serverVars, dropped>>
    BY <1>14, <2>0, <2>9 DEF FinishDrop
  <2>2. n \in Node /\ n = call[t].node /\ Exists(n) /\ CallOnBus(t)
    BY <1>0, <2>0, <2>1, UnderWay
  <2>3. /\ call'[t] = Idle /\ call'[t].op = "idle"
        /\ \A u \in Thread \ {t} : call'[u] = call[u]
    BY <1>0, <2>1, Returned
  <2>4. \A m \in Node : table'[m] = IF m = n THEN table[m] \ {x} ELSE table[m]
    BY <1>0, <2>1, <2>2 DEF TypeOK
  <2>5. x \in table[n] /\ \A y \in table[n] : NameOf[y] = NameOf[x] => y = x
    BY <1>0, <2>1, <2>2, <2>9 DEF Inv1, IfacesOK
  <2>6. NamesOf(n)' = NamesOf(n) \ {NameOf[x]}
    BY <2>2, <2>4, <2>5 DEF NamesOf
  <2>7. (Served(n)' <=> Served(n)) /\ ifsOf' = ifsOf
    BY <2>1 DEF Served, serverVars
  <2>8. Full(n, ifsOf[PathOf[n]], {}, {})'
    BY <2>1, <2>2, <2>6, <2>7, <2>9 DEF CallOnBus, Full
  <2>10. /\ life' = life /\ dropped' = dropped
         /\ up' = up /\ ifsOf' = ifsOf /\ entryNode' = entryNode /\ Exists(n)'
    BY <2>1, <2>2 DEF serverVars, Exists
  <2> QED
    BY <1>0, <2>1, <2>2, <2>3, <2>4, <2>8, <2>10, OneNodeOnly
<1>15. ASSUME NEW t \in Thread, FinishWithdraw(t) PROVE BusOK'
  <2>0. PICK n \in Node : n = call[t].node
    BY <1>0, <1>15, UnderWay DEF FinishWithdraw
  <2>1. /\ call[t].op \in {"undo", "drop_server"} /\ call[t].todo = {}
        /\ Return(t)
        /\ UNCHANGED <<nodeVars, serverVars, dropped>>
    BY <1>15 DEF FinishWithdraw
  <2>2. n \in Node /\ n = call[t].node /\ Exists(n) /\ CallOnBus(t)
    BY <1>0, <2>0, <2>1, UnderWay
  <2>3. /\ call'[t] = Idle /\ call'[t].op = "idle"
        /\ \A u \in Thread \ {t} : call'[u] = call[u]
    BY <1>0, <2>1, Returned
  <2>4. Full(n, ifsOf[PathOf[n]], {}, {})'
    BY <2>1, <2>2
       DEF CallOnBus, Full, Served, NamesOf, nodeVars, serverVars
  <2>5. /\ life' = life /\ table' = table /\ attached' = attached
        /\ up' = up /\ ifsOf' = ifsOf /\ entryNode' = entryNode
        /\ \A m \in Node \ {n} : (m \in dropped' <=> m \in dropped)
        /\ Exists(n)'
    BY <2>1, <2>2 DEF nodeVars, serverVars, Exists
  <2> QED
    BY <1>0, <2>1, <2>2, <2>3, <2>4, <2>5, OneNodeOnly
<1>16. ASSUME NEW t \in Thread, FinishDestroy(t) PROVE BusOK'
  <2>0. PICK n \in Node : n = call[t].node
    BY <1>0, <1>16, UnderWay DEF FinishDestroy
  <2>1. /\ call[t].op = "destroy" /\ call[t].todo = {} /\ Return(t)
        /\ life' = [life EXCEPT ![n] = "dead"]
        /\ table' = [table EXCEPT ![n] = {}]
        /\ attached' = [attached EXCEPT ![n] = FALSE]
        /\ dropped' = dropped \ {n}
        /\ up' = up /\ ifsOf' = ifsOf /\ entryNode' = entryNode
    BY <1>16, <2>0 DEF FinishDestroy, serverVars
  <2>2. n = call[t].node /\ Exists(n) /\ CallOnBus(t)
    BY <1>0, <2>0, <2>1, UnderWay
  <2>3. /\ call'[t] = Idle /\ call'[t].op = "idle"
        /\ \A u \in Thread \ {t} : call'[u] = call[u]
    BY <1>0, <2>1, Returned
  <2>4. ifsOf[PathOf[n]] = {}
    BY <2>1, <2>2 DEF CallOnBus
  <2>5. /\ ~Exists(n)'
        /\ \A m \in Node \ {n} : /\ life'[m] = life[m] /\ table'[m] = table[m]
                                 /\ attached'[m] = attached[m]
                                 /\ (m \in dropped' <=> m \in dropped)
    BY <1>0, <2>1 DEF Exists, TypeOK
  <2>6. \A m \in Node \ {n} : Exists(m) => PathOf[m] # PathOf[n]
    BY <1>0, <2>2 DEF BusOK
  <2> QED
    BY <1>0, <2>1, <2>2, <2>3, <2>4, <2>5, <2>6, OneNode
<1>17. ASSUME DestroyServer
       PROVE  BusOK'
  BY <1>17, PathOfAssumption, NameOfAssumption, NoneAssumption
     DEF DestroyServer, IInv, Inv1, TypeOK, Call, Ops, Idle, CallsOK, CallOK,
         DyingUsed, IfacesOK, BusOK, Exists, CallOnBus, Full, Served, NamesOf,
         Begin, Return, Usable, Busy, nodeVars, ifaceVars, serverVars
<1>18. CASE UNCHANGED vars
  BY <1>0, <1>18, SameBus DEF vars
<1>19. ASSUME NEW t \in Thread, NEW n \in Node, NEW x \in Iface,
              BeginDrop(t, n, x)
       PROVE  BusOK'
  BY <1>6, <1>19 DEF BeginDrop
<1> QED
  BY <1>1, <1>2, <1>3, <1>4, <1>5, <1>7, <1>8, <1>9, <1>10, <1>11, <1>12,
     <1>13, <1>14, <1>15, <1>16, <1>17, <1>18, <1>19
     DEF Next, BeginCall, ContinueCall

\* The invariant holds in every reachable state.
LEMMA Invariance == Spec => []IInv
<1>1. IInv /\ [Next]_vars => IInv'
  BY TypeStep, CallsStep, IfacesStep, AliveStep, BusStep DEF IInv, Inv1
<1>2. QED
  BY <1>1, IInvInit, PTL DEF Spec

-----------------------------------------------------------------------------
\* The types hold for any number of threads, nodes and interfaces.
THEOREM TypeCorrect == Spec => []TypeOK
<1>1. IInv => TypeOK
  BY DEF IInv, Inv1
<1>2. QED
  BY <1>1, Invariance, PTL

\* Whatever is on the bus has a node with an interface of that name behind it.
THEOREM CallsAnswered == Spec => []Answered
<1>1. IInv => Answered
  <2> SUFFICES ASSUME IInv, NEW p \in Path, ifsOf[p] # {}
               PROVE  LET n == entryNode[p] IN
                      /\ n \in Node /\ PathOf[n] = p
                      /\ ~Busy(n) =>
                           /\ Served(n)
                           /\ \A i \in ifsOf[p] : Lookup(p, i) = "found"
    BY DEF Answered
  <2> DEFINE n == entryNode[p]
  <2>1. n \in Node /\ PathOf[n] = p /\ Exists(n)
    BY DEF IInv, BusOK
  <2>2. ASSUME ~Busy(n)
        PROVE  Served(n) /\ \A i \in ifsOf[p] : Lookup(p, i) = "found"
    <3>1. life[n] = "live"
      BY <2>1, <2>2 DEF IInv, Inv1, CallsOK, DyingUsed, Exists, Busy
    <3>2. Full(n, ifsOf[PathOf[n]], {}, {})
      BY <2>1, <2>2 DEF IInv, BusOK
    <3>3. Served(n) /\ ifsOf[p] \subseteq NamesOf(n)
      BY <2>1, <3>2 DEF Full
    <3>4. \A x \in table[n] : ifLife[x] = "live"
      BY <2>1, <2>2, <3>1 DEF IInv, TableAlive, Busy
    <3>5. ASSUME NEW i \in ifsOf[p] PROVE Lookup(p, i) = "found"
      <4>1. PICK x \in table[n] : NameOf[x] = i
        BY <3>3 DEF NamesOf
      <4> QED
        BY <3>1, <3>4, <4>1 DEF Lookup
    <3> QED
      BY <3>3, <3>5
  <2> QED
    BY <2>1, <2>2
<1>2. QED
  BY <1>1, Invariance, PTL

\* Every interface of a node that has the server is on the bus.
THEOREM AllPublished == Spec => []Published
<1>1. IInv => Published
  <2> SUFFICES ASSUME IInv, NEW n \in Node,
                      life[n] = "live", Served(n), n \notin dropped, ~Busy(n)
               PROVE  /\ NamesOf(n) \subseteq ifsOf[PathOf[n]]
                      /\ table[n] # {} => entryNode[PathOf[n]] = n
    BY DEF Published
  <2>1. NamesOf(n) \subseteq ifsOf[PathOf[n]]
    BY DEF IInv, BusOK, Exists, Full
  <2>2. ASSUME table[n] # {} PROVE ifsOf[PathOf[n]] # {}
    BY <2>1, <2>2 DEF NamesOf
  <2> QED
    BY <2>1, <2>2, EntryIsNode DEF IInv, Exists
<1>2. QED
  BY <1>1, Invariance, PTL

\* An interface's owner is the node that has it in its table.
THEOREM OwnersAgree == Spec => []OwnerAgrees
<1>1. IInv => OwnerAgrees
  BY DEF IInv, Inv1, TypeOK, IfacesOK, OwnerAgrees
<1>2. QED
  BY <1>1, Invariance, PTL

\* Functions that withdraw the interfaces of a node leave none on the bus.
THEOREM AllWithdrawn == Spec => WithdrawnAtEnd
<1>1. ASSUME IInv, Next, NEW t \in Thread,
             call[t].op \in {"undo", "drop_server", "destroy"},
             call'[t].op = "idle"
      PROVE  ifsOf'[PathOf[call[t].node]] = {}
  <2>0. TypeOK /\ call[t].op # "idle" /\ CallOnBus(t)
    BY <1>1, UnderWay DEF IInv, Inv1
  <2>1. ASSUME NEW u \in Thread, BeginCall(u) PROVE FALSE
    <3>1. call[u].op = "idle"
      BY <2>1 DEF BeginCall, CreateNode, BeginMake, CopyIface, BeginAddServer,
                  BeginDropServer, BeginDrop, DestroyIface, DestroyNode, Usable
    <3>2. call' = call \/ \E op, n, x, todo : Begin(u, op, n, x, todo)
      BY <2>1 DEF BeginCall, CreateNode, BeginMake, CopyIface, BeginAddServer,
                  BeginDropServer, BeginDrop, DestroyIface, DestroyNode
    <3>3. call'[t] = call[t]
      BY <2>0, <3>1, <3>2, Begun
    <3> QED
      BY <1>1, <2>0, <3>3
  <2>2. ASSUME NEW u \in Thread, NEW i \in IfName, AddOne(u, i) PROVE FALSE
    BY <1>1, <2>0, <2>2, OneAdded
  <2>3. ASSUME NEW u \in Thread, NEW i \in IfName, Withdraw(u, i) PROVE FALSE
    BY <1>1, <2>0, <2>3, OneWithdrawn
  <2>4. ASSUME NEW u \in Thread, NEW i \in IfName, AddFails(u, i) PROVE FALSE
    <3>1. call[u].op \in {"make", "add"} /\ u # t
      BY <1>1, <2>4 DEF AddFails
    <3>2. call'[t] = call[t]
      BY <2>0, <2>4, <3>1, Begun, Returned DEF AddFails
    <3> QED
      BY <1>1, <2>0, <3>2
  <2>5. ASSUME NEW u \in Thread, Return(u), call[u].op # call[t].op PROVE FALSE
    BY <1>1, <2>0, <2>5, Returned
  <2>6. ASSUME NEW u \in Thread, Return(u), call[u].todo = {}, ifsOf' = ifsOf
        PROVE  ifsOf'[PathOf[call[t].node]] = {}
    <3>1. u = t
      BY <1>1, <2>0, <2>6, Returned
    <3> QED
      BY <1>1, <2>0, <2>6, <3>1 DEF CallOnBus
  <2>7. ~DestroyServer
    BY <2>0 DEF DestroyServer
  <2>8. ASSUME NEW u \in Thread,
               FinishMake(u) \/ FinishAddServer(u) \/ FinishDrop(u)
        PROVE  FALSE
    BY <1>1, <2>5, <2>8 DEF FinishMake, FinishAddServer, FinishDrop
  <2>9. ASSUME NEW u \in Thread, FinishWithdraw(u) \/ FinishDestroy(u)
        PROVE  ifsOf'[PathOf[call[t].node]] = {}
    BY <2>6, <2>9 DEF FinishWithdraw, FinishDestroy, serverVars
  <2> QED
    BY <1>1, <2>1, <2>2, <2>3, <2>4, <2>7, <2>8, <2>9 DEF Next, ContinueCall
<1>2. ASSUME IInv, [Next]_vars
      PROVE  [\A t \in Thread :
                /\ call[t].op \in {"undo", "drop_server", "destroy"}
                /\ call'[t].op = "idle"
                => ifsOf'[PathOf[call[t].node]] = {}]_vars
  <2>1. CASE Next
    BY <1>1, <1>2, <2>1
  <2>2. CASE UNCHANGED vars
    BY <2>2
  <2> QED
    BY <1>2, <2>1, <2>2
<1>3. QED
  BY <1>2, Invariance, PTL DEF Spec, WithdrawnAtEnd
=============================================================================
