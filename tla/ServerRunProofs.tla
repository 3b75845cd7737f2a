-------------------------- MODULE ServerRunProofs ---------------------------
(***************************************************************************)
(* Theorems about ServerRun, for any number of threads.                    *)
(***************************************************************************)
EXTENDS ServerRun, TLAPS

HoldsRun == {"run", "running", "exit"}

\* run_lock is held for the length of a run by the thread of the run.
LockHeld == \A t \in Thread : run_lock = t <=> pc[t] \in HoldsRun

\* A start() that has got past the making of the loop has one.
LoopMade ==
  \A t \in Thread :
    pc[t] \in {"clear", "lock"} \cup HoldsRun => main_loop # NoLoop

\* The flag of a stop() stays until another start() clears it.
StopNoted == run.stopped /\ ~run.cleared => stop_requested

\* The loop that runs is the current one, as long as only one was made.
LoopCurrent ==
  \A t \in Thread : pc[t] = "running" /\ ~two_loops => loop[t] = main_loop

IInv ==
  TypeOK /\ LockHeld /\ LoopMade /\ StopNoted /\ LoopCurrent /\ NameLossStops

-----------------------------------------------------------------------------
LEMMA IInvInit == Init => IInv
<1> SUFFICES ASSUME Init PROVE IInv
  OBVIOUS
<1>1. run \in [lost : BOOLEAN, stopped : BOOLEAN, cleared : BOOLEAN]
  BY DEF Init, NewRun
<1>2. TypeOK
  BY <1>1 DEF Init, TypeOK
<1>3. LockHeld /\ LoopMade
  BY NoThreadAssumption DEF Init, LockHeld, LoopMade, HoldsRun
<1>4. StopNoted
  BY DEF Init, StopNoted, NewRun
<1>5. LoopCurrent /\ NameLossStops
  BY DEF Init, LoopCurrent, NameLossStops
<1> QED
  BY <1>2, <1>3, <1>4, <1>5 DEF IInv

\* What a function or handler of one thread, and the bus, do to the invariant.
LEMMA StartKeeps ==
  ASSUME IInv, NEW t \in Thread, Start(t) PROVE IInv'
<1> USE NoThreadAssumption, NoLoopAssumption
    DEF IInv, TypeOK, LockHeld, LoopMade, StopNoted,
        LoopCurrent, NameLossStops, HoldsRun, NewRun, Goto,
        Refuse, bus, loops, hist
<1>1. CASE StartCheckRunning(t)
  BY <1>1 DEF StartCheckRunning
<1>2. CASE StartCheckName(t)
  BY <1>2 DEF StartCheckName
<1>3. CASE StartLook(t)
  BY <1>3 DEF StartLook
<1>4. CASE StartCreate(t)
  BY <1>4 DEF StartCreate
<1>5. CASE StartClear(t)
  BY <1>5 DEF StartClear
<1>6. CASE StartLock(t)
  BY <1>6 DEF StartLock
<1>7. CASE StartRun(t)
  BY <1>7 DEF StartRun
<1>8. CASE StartReturn(t)
  BY <1>8 DEF StartReturn
<1>9. CASE StartExit(t)
  BY <1>9 DEF StartExit, Outcome
<1> QED
  BY <1>1, <1>2, <1>3, <1>4, <1>5, <1>6, <1>7, <1>8, <1>9 DEF Start

LEMMA OthersKeep ==
  ASSUME IInv, NEW t \in Thread,
         \/ Stop(t) \/ ReconnectCall(t) \/ Reconnect(t)
         \/ HandleName(t) \/ HandlerStop(t)
  PROVE  IInv'
<1> USE NoThreadAssumption, NoLoopAssumption
    DEF IInv, TypeOK, LockHeld, LoopMade, StopNoted,
        LoopCurrent, NameLossStops, HoldsRun, NewRun, Goto,
        Quit, NoteStop, bus, loops, hist
<1>1. ASSUME NEW next \in {"quit", "quit_sync"}, StopFlag(t, next)
      PROVE  IInv'
  <2>1. \A u \in Thread : pc'[u] # pc[u] =>
          pc[u] = "idle" /\ pc'[u] \in {"quit", "quit_sync"}
    BY <1>1 DEF StopFlag
  <2>2. TypeOK'
    BY <1>1 DEF StopFlag
  <2>3. LockHeld' /\ LoopMade' /\ StopNoted'
    BY <1>1, <2>1 DEF StopFlag
  <2>4. LoopCurrent'
    BY <1>1, <2>1 DEF StopFlag
  <2>5. run'.lost = run.lost
    BY <1>1 DEF StopFlag
  <2>6. NameLossStops'
    BY <1>1, <2>1, <2>5 DEF StopFlag
  <2> QED
    BY <2>2, <2>3, <2>4, <2>6
<1>2. CASE StopQuit(t)
  BY <1>2 DEF StopQuit
<1>3. CASE StopWaitCall(t) \/ StopWait(t)
  BY <1>3 DEF StopWaitCall, StopWait
<1>4. CASE ReconnectCall(t) \/ Reconnect(t)
  BY <1>4 DEF ReconnectCall, Reconnect
<1>5. CASE HandleName(t)
  BY <1>5 DEF HandleName, AfterNews
<1>6. CASE HandlerStop(t)
  BY <1>6 DEF HandlerStop
<1> QED
  BY <1>1, <1>2, <1>3, <1>4, <1>5, <1>6 DEF Stop

LEMMA IInvStep == IInv /\ [Next]_vars => IInv'
<1> SUFFICES ASSUME IInv, [Next]_vars PROVE IInv'
  OBVIOUS
<1>1. ASSUME NEW e \in {"lost", "owned"}, BusNews(e) PROVE IInv'
  BY <1>1 DEF BusNews, IInv, TypeOK, LockHeld, LoopMade, StopNoted,
              LoopCurrent, NameLossStops, loops, hist
<1>2. CASE UNCHANGED vars
  BY <1>2 DEF vars, IInv, TypeOK, LockHeld, LoopMade, StopNoted,
              LoopCurrent, NameLossStops, bus, loops, hist
<1> QED
  BY <1>1, <1>2, StartKeeps, OthersKeep DEF Next

\* The invariant holds in every reachable state.
LEMMA Invariance == Spec => []IInv
BY IInvInit, IInvStep, PTL DEF Spec

\* The types hold, for any number of threads that call anything.
THEOREM TypeCorrect == Spec => []TypeOK
<1>1. IInv => TypeOK
  BY DEF IInv
<1>2. QED
  BY <1>1, Invariance, PTL

\* A run in which the name was lost has been told to end, for any number of
\* threads that start, stop and reconnect meanwhile.
THEOREM NameLossesStop == Spec => []NameLossStops
<1>1. IInv => NameLossStops
  BY DEF IInv
<1>2. QED
  BY <1>1, Invariance, PTL

-----------------------------------------------------------------------------
InRun(t) == pc[t] = "running"

\* Runner is the one thread that is in g_main_loop_run, if there is one.
RunnerKnown ==
  /\ \A t \in Thread : InRun(t) => Runner = t
  /\ (\A t \in Thread : ~InRun(t)) => Runner = NoThread

LEMMA RunnerFound == IInv => RunnerKnown
<1> SUFFICES ASSUME IInv PROVE RunnerKnown
  OBVIOUS
<1>1. ASSUME NEW t \in Thread, InRun(t) PROVE Runner = t
  <2>1. \A u \in Thread : InRun(u) => u = t
    BY <1>1 DEF IInv, LockHeld, HoldsRun, InRun
  <2> QED
    BY <1>1, <2>1 DEF Runner, InRun
<1>2. ASSUME \A t \in Thread : ~InRun(t) PROVE Runner = NoThread
  BY <1>2 DEF Runner, InRun
<1> QED
  BY <1>1, <1>2 DEF RunnerKnown

\* A step that takes nobody into a run or out of one keeps the runner.  If it
\* starts no loop it is a step of RunControl at most in what has been asked.
LEMMA SameRunner ==
  ASSUME RunnerKnown, RunnerKnown',
         \A t \in Thread : InRun(t)' <=> InRun(t),
         loop' = loop, is_running' \subseteq is_running
  PROVE  Control!Ask \/ UNCHANGED Control!vars
<1>1. Runner' = Runner
  BY DEF RunnerKnown
<1>2. Asked => Asked'
  BY <1>1 DEF Asked
<1>3. Asked' => Runner # NoThread
  BY <1>1 DEF Asked
<1> QED
  BY <1>1, <1>2, <1>3 DEF Control!Ask, Control!vars, Asked

\* Every step of the server is a step of RunControl or leaves it alone.
LEMMA ControlStep ==
  ASSUME IInv, RunnerKnown, RunnerKnown', [Next]_vars
  PROVE  [Control!Next]_(Control!vars)
<1>1. ASSUME NEW t \in Thread, StartRun(t) PROVE Control!Begin(t)
  <2>1. \A u \in Thread : ~InRun(u)
    BY <1>1 DEF StartRun, IInv, LockHeld, HoldsRun, InRun
  <2>2. InRun(t)' /\ loop'[t] \in is_running'
    BY <1>1 DEF StartRun, Goto, InRun, IInv, TypeOK
  <2> QED
    BY <2>1, <2>2 DEF RunnerKnown, Control!Begin, Asked
<1>2. ASSUME NEW t \in Thread, StartReturn(t) PROVE Control!End(t)
  <2>1. InRun(t) /\ loop[t] \notin is_running
    BY <1>2 DEF StartReturn, InRun
  <2>2. \A u \in Thread : ~InRun(u)'
    BY <1>2 DEF StartReturn, Goto, InRun, IInv, TypeOK, LockHeld, HoldsRun
  <2> QED
    BY <2>1, <2>2, NoThreadAssumption DEF RunnerKnown, Control!End, Asked
<1>3. ASSUME NEW t \in Thread,
             \/ StartCheckRunning(t) \/ StartCheckName(t) \/ StartLook(t)
             \/ StartCreate(t) \/ StartClear(t) \/ StartLock(t)
             \/ StartExit(t)
      PROVE  Control!Ask \/ UNCHANGED Control!vars
  BY <1>3, SameRunner
     DEF StartCheckRunning, StartCheckName, StartLook, StartCreate, StartClear,
         StartLock, StartExit, Refuse, Goto, InRun, IInv, TypeOK, loops
<1>4. ASSUME NEW t \in Thread,
             Stop(t) \/ ReconnectCall(t) \/ Reconnect(t)
      PROVE  Control!Ask \/ UNCHANGED Control!vars
  BY <1>4, SameRunner
     DEF Stop, StopFlag, StopQuit, StopWaitCall, StopWait, ReconnectCall,
         Reconnect, Quit, Goto, InRun, IInv, TypeOK, loops
<1>5. ASSUME NEW t \in Thread, HandleName(t) \/ HandlerStop(t)
      PROVE  Control!Ask \/ UNCHANGED Control!vars
  BY <1>5, SameRunner DEF HandleName, HandlerStop, AfterNews, Quit, InRun
<1>6. ASSUME NEW e \in {"lost", "owned"}, BusNews(e)
      PROVE  Control!Ask \/ UNCHANGED Control!vars
  BY <1>6, SameRunner DEF BusNews, loops, InRun
<1>7. ASSUME UNCHANGED vars PROVE Control!Ask \/ UNCHANGED Control!vars
  <2>1. pc' = pc /\ loop' = loop /\ is_running' = is_running
    BY <1>7 DEF vars, loops
  <2> QED
    BY <2>1, SameRunner DEF InRun
<1> QED
  BY <1>1, <1>2, <1>3, <1>4, <1>5, <1>6, <1>7 DEF Next, Start, Control!Next

\* The server implements the safety part of RunControl: one run at a time
\* although the test for a running server comes before the lock, and none that
\* ends unless it was asked to, by stop() or by the loss of the name.
THEOREM RunsControlled ==
  Spec => Control!Init /\ [][Control!Next]_(Control!vars)
<1>1. Init => Control!Init
  BY DEF Init, Control!Init, Runner, Asked
<1>2. RunnerKnown /\ IInv /\ RunnerKnown' /\ [Next]_vars
        => [Control!Next]_(Control!vars)
  BY ControlStep
<1>3. QED
  BY <1>1, <1>2, Invariance, RunnerFound, PTL DEF Spec

\* A thread that is in a place leaves it by the actions of that place.
LEMMA Leaves ==
  ASSUME IInv, Next, NEW t \in Thread
  PROVE  /\ pc[t] = "wait" /\ pc'[t] = "idle" => StopWait(t)
         /\ pc[t] = "exit" /\ pc'[t] = "idle" => StartExit(t)
<1>1. ASSUME NEW e \in {"lost", "owned"}, BusNews(e) PROVE pc'[t] = pc[t]
  BY <1>1 DEF BusNews
<1>2. ASSUME NEW u \in Thread,
             \/ Start(u) \/ Stop(u) \/ ReconnectCall(u) \/ Reconnect(u)
             \/ HandleName(u) \/ HandlerStop(u)
      PROVE  \/ pc'[t] = pc[t]
             \/ pc[t] \notin {"wait", "exit"}
             \/ pc[t] = "wait" /\ StopWait(t)
             \/ pc[t] = "exit" /\ StartExit(t)
  BY <1>2 DEF Start, StartCheckRunning, StartCheckName, StartLook, StartCreate,
              StartClear, StartLock, StartRun, StartReturn, StartExit, Refuse,
              Stop, StopFlag, StopQuit, StopWaitCall, StopWait, ReconnectCall,
              Reconnect, HandleName, HandlerStop, Goto, IInv, TypeOK
<1> QED
  BY <1>1, <1>2 DEF Next

\* stop_wait and stop_sync return only when no run is under way.
THEOREM WaitersWait == Spec => WaitsForRun
<1>1. ASSUME IInv, [Next]_vars
      PROVE  [\A t \in Thread :
                pc[t] = "wait" /\ pc'[t] = "idle" =>
                  \A u \in Thread : pc[u] \notin {"run", "running", "exit"}]_vars
  <2>1. ASSUME Next, NEW t \in Thread, pc[t] = "wait", pc'[t] = "idle"
        PROVE  \A u \in Thread : pc[u] \notin {"run", "running", "exit"}
    BY <1>1, <2>1, Leaves, NoThreadAssumption
       DEF StopWait, IInv, LockHeld, HoldsRun
  <2> QED
    BY <1>1, <2>1
<1>2. QED
  BY <1>1, Invariance, PTL DEF Spec, WaitsForRun

\* A start() whose run was stopped returns normally, whatever becomes of the
\* name, unless another start() has cleared stop_requested.
THEOREM StoppedRunsReturn == Spec => StoppedReturns
<1>1. ASSUME IInv, [Next]_vars
      PROVE  [\A t \in Thread :
                pc[t] = "exit" /\ pc'[t] = "idle" /\ run.stopped /\ ~run.cleared
                  => result' = "returned"]_vars
  <2>1. ASSUME Next, NEW t \in Thread, pc[t] = "exit", pc'[t] = "idle",
               run.stopped, ~run.cleared
        PROVE  result' = "returned"
    BY <1>1, <2>1, Leaves DEF StartExit, Outcome, IInv, StopNoted
  <2> QED
    BY <1>1, <2>1
<1>2. QED
  BY <1>1, Invariance, PTL DEF Spec, StoppedReturns
=============================================================================
