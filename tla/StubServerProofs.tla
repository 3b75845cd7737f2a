-------------------------- MODULE StubServerProofs --------------------------
(***************************************************************************)
(* Theorems about StubServer, for any number of threads.                   *)
(***************************************************************************)
EXTENDS StubServer, TLAPS

HoldsRun == {"locked", "waiting", "woken", "exit"}

\* Init establishes the types, and every step preserves them.
LEMMA TypeInit == Init => TypeOK
BY NoThreadAssumption DEF Init, TypeOK

LEMMA TypeStep == TypeOK /\ [Next]_vars => TypeOK'
<1> SUFFICES ASSUME TypeOK, [Next]_vars PROVE TypeOK'
  OBVIOUS
<1> USE NoThreadAssumption DEF TypeOK, Goto
<1>1. ASSUME NEW t \in Thread, Call(t) PROVE TypeOK'
  BY <1>1 DEF Call
<1>2. ASSUME NEW t \in Thread, StartLock(t) PROVE TypeOK'
  BY <1>2 DEF StartLock
<1>3. ASSUME NEW t \in Thread, StartWait(t) PROVE TypeOK'
  BY <1>3 DEF StartWait
<1>4. ASSUME NEW t \in Thread, SpuriousWake(t) PROVE TypeOK'
  BY <1>4 DEF SpuriousWake
<1>5. ASSUME NEW t \in Thread, Woken(t) PROVE TypeOK'
  BY <1>5 DEF Woken
<1>6. ASSUME NEW t \in Thread, StartExit(t) PROVE TypeOK'
  BY <1>6 DEF StartExit
<1>7. ASSUME NEW t \in Thread, StopFlag(t) PROVE TypeOK'
  BY <1>7 DEF StopFlag
<1>8. ASSUME NEW t \in Thread, StopNotify(t) PROVE TypeOK'
  BY <1>8 DEF StopNotify, Notified
<1>9. ASSUME NEW t \in Thread, StopWait(t) PROVE TypeOK'
  BY <1>9 DEF StopWait
<1>10. CASE UNCHANGED vars
  BY <1>10 DEF vars
<1> QED
  BY <1>1, <1>2, <1>3, <1>4, <1>5, <1>6, <1>7, <1>8, <1>9, <1>10 DEF Next

\* Types, and that run_lock is held for the length of a run by its thread.
THEOREM TypeCorrect == Spec => []TypeOK
BY TypeInit, TypeStep, PTL DEF Spec

-----------------------------------------------------------------------------
\* Runner is the one thread that is in a run, if there is one.
RunnerKnown ==
  /\ \A t \in Thread : InRun(t) => Runner = t
  /\ (\A t \in Thread : ~InRun(t)) => Runner = NoThread

LEMMA RunnerFound == TypeOK => RunnerKnown
<1> SUFFICES ASSUME TypeOK PROVE RunnerKnown
  OBVIOUS
<1>1. ASSUME NEW t \in Thread, InRun(t) PROVE Runner = t
  <2>1. \A u \in Thread : InRun(u) => u = t
    BY <1>1 DEF TypeOK, InRun
  <2> QED
    BY <1>1, <2>1 DEF Runner
<1>2. ASSUME \A t \in Thread : ~InRun(t) PROVE Runner = NoThread
  BY <1>2 DEF Runner
<1> QED
  BY <1>1, <1>2 DEF RunnerKnown

\* A step that takes nobody into a run or out of one keeps the runner.
LEMMA SameRunner ==
  ASSUME RunnerKnown, RunnerKnown',
         \A t \in Thread : InRun(t)' <=> InRun(t)
  PROVE  Runner' = Runner
BY DEF RunnerKnown

\* Every step of the stub is a step of RunControl or leaves it alone.
LEMMA ControlStep ==
  ASSUME TypeOK, TypeOK', RunnerKnown, RunnerKnown', [Next]_vars
  PROVE  [Control!Next]_(Control!vars)
<1>1. ASSUME \A t \in Thread : InRun(t)' <=> InRun(t), running' = running
      PROVE  UNCHANGED Control!vars
  BY <1>1, SameRunner DEF Control!vars, Asked
<1>2. ASSUME NEW t \in Thread, StartWait(t) PROVE Control!Begin(t)
  <2>1. /\ \A u \in Thread : ~InRun(u)
        /\ InRun(t)' /\ running' = TRUE
    BY <1>2 DEF StartWait, Goto, InRun, TypeOK
  <2> QED
    BY <2>1 DEF RunnerKnown, Control!Begin, Asked
<1>3. ASSUME NEW t \in Thread, Woken(t)
      PROVE  Control!End(t) \/ UNCHANGED Control!vars
  <2>1. CASE running
    BY <1>1, <1>3, <2>1 DEF Woken, Goto, InRun, TypeOK
  <2>2. CASE ~running
    <3>1. InRun(t) /\ \A u \in Thread : ~InRun(u)'
      BY <1>3, <2>2 DEF Woken, Goto, InRun, TypeOK
    <3> QED
      BY <2>2, <3>1, NoThreadAssumption DEF RunnerKnown, Control!End, Asked
  <2> QED
    BY <2>1, <2>2
<1>4. ASSUME NEW t \in Thread, StopFlag(t)
      PROVE  Control!Ask \/ UNCHANGED Control!vars
  <2>1. running' = FALSE /\ \A u \in Thread : InRun(u)' <=> InRun(u)
    BY <1>4 DEF StopFlag, Goto, InRun, TypeOK
  <2>2. Runner' = Runner
    BY <2>1, SameRunner
  <2> QED
    BY <2>1, <2>2 DEF Control!Ask, Control!vars, Asked
<1>5. ASSUME NEW t \in Thread,
             \/ Call(t) \/ StartLock(t) \/ SpuriousWake(t) \/ StartExit(t)
             \/ StopNotify(t) \/ StopWait(t)
      PROVE  UNCHANGED Control!vars
  BY <1>1, <1>5 DEF Call, StartLock, SpuriousWake, StartExit, StopNotify,
                    Notified, StopWait, Goto, InRun, TypeOK
<1>6. CASE UNCHANGED vars
  BY <1>1, <1>6 DEF vars, InRun
<1> QED
  BY <1>2, <1>3, <1>4, <1>5, <1>6 DEF Next, Control!Next

\* The stub implements the safety part of RunControl: one run at a time, and
\* none that ends unless it was asked to.
THEOREM RunsControlled ==
  Spec => Control!Init /\ [][Control!Next]_(Control!vars)
<1>1. Init => Control!Init
  BY DEF Init, Control!Init, Runner, Asked, InRun
<1>2. RunnerKnown /\ TypeOK /\ RunnerKnown' /\ TypeOK' /\ [Next]_vars
        => [Control!Next]_(Control!vars)
  BY ControlStep
<1>3. QED
  BY <1>1, <1>2, TypeCorrect, RunnerFound, PTL DEF Spec

\* No wake-up is lost: whoever waits although the flag is cleared has a
\* notification to come.
THEOREM WakeUps == Spec => []WakeUpComes
<1>1. Init => WakeUpComes
  BY DEF Init, WakeUpComes
<1>2. ASSUME TypeOK, WakeUpComes, [Next]_vars PROVE WakeUpComes'
  <2> USE DEF TypeOK, WakeUpComes, Goto
  <2>1. ASSUME NEW t \in Thread, Call(t) \/ StartLock(t) \/ SpuriousWake(t)
        PROVE  WakeUpComes'
    BY <1>2, <2>1 DEF Call, StartLock, SpuriousWake
  <2>2. ASSUME NEW t \in Thread, StartWait(t) PROVE WakeUpComes'
    BY <1>2, <2>2 DEF StartWait
  <2>3. ASSUME NEW t \in Thread, Woken(t) PROVE WakeUpComes'
    BY <1>2, <2>3 DEF Woken
  <2>4. ASSUME NEW t \in Thread, StartExit(t) \/ StopWait(t)
        PROVE  WakeUpComes'
    BY <1>2, <2>4 DEF StartExit, StopWait
  <2>5. ASSUME NEW t \in Thread, StopFlag(t) PROVE WakeUpComes'
    <3>1. pc'[t] \in {"notify", "notify_sync"}
      BY <1>2, <2>5 DEF StopFlag
    <3> QED
      BY <3>1
  <2>6. ASSUME NEW t \in Thread, StopNotify(t) PROVE WakeUpComes'
    <3>1. \A u \in Thread : pc'[u] # "waiting"
      BY <1>2, <2>6 DEF StopNotify, Notified
    <3> QED
      BY <3>1
  <2>7. CASE UNCHANGED vars
    BY <1>2, <2>7 DEF vars
  <2> QED
    BY <1>2, <2>1, <2>2, <2>3, <2>4, <2>5, <2>6, <2>7 DEF Next
<1>3. QED
  BY <1>1, <1>2, TypeCorrect, PTL DEF Spec

\* stop_wait and stop_sync return only when no run is under way.
THEOREM WaitersWait == Spec => WaitsForRun
<1>1. ASSUME TypeOK, [Next]_vars
      PROVE  [\A t \in Thread :
                pc[t] = "wait" /\ pc'[t] = "idle" =>
                  \A u \in Thread :
                    pc[u] \notin {"locked", "waiting", "woken", "exit"}]_vars
  <2>1. ASSUME Next, NEW t \in Thread, pc[t] = "wait", pc'[t] = "idle"
        PROVE  \A u \in Thread : pc[u] \notin HoldsRun
    <3>1. PICK v \in Thread :
            \/ Call(v) \/ StartLock(v) \/ StartWait(v) \/ SpuriousWake(v)
            \/ Woken(v) \/ StartExit(v) \/ StopFlag(v) \/ StopNotify(v)
            \/ StopWait(v)
      BY <2>1 DEF Next
    <3>2. StopWait(v)
      BY <1>1, <2>1, <3>1
         DEF Call, StartLock, StartWait, SpuriousWake, Woken, StartExit,
             StopFlag, StopNotify, Notified, StopWait, Goto, TypeOK
    <3> QED
      BY <1>1, <3>2, NoThreadAssumption DEF StopWait, TypeOK, HoldsRun
  <2> QED
    BY <1>1, <2>1 DEF HoldsRun
<1>2. QED
  BY <1>1, TypeCorrect, PTL DEF Spec, WaitsForRun
=============================================================================
