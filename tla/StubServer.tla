----------------------------- MODULE StubServer -----------------------------
(***************************************************************************)
(* Running the stub server (server_stub.cpp), the back end without a bus:  *)
(* start() waits on a condition variable until stop() clears `running'.    *)
(*                                                                         *)
(* What is done under the mutex state_change is one step, since nobody     *)
(* waits for anything else while holding it; cv.wait releases it, and a    *)
(* thread that wakes, for whatever reason, needs it again.                 *)
(*                                                                         *)
(* An operator marked "mutant" is a wrong variant of the one after it,     *)
(* kept to show that a property notices the difference.                    *)
(***************************************************************************)
CONSTANTS Thread, NoThread

ASSUME NoThreadAssumption == NoThread \notin Thread

VARIABLES
  running,    \* internal::running
  run_lock,   \* the thread that holds internal::run_lock
  pc          \* where each thread is

vars == <<running, run_lock, pc>>

\* The types, and that run_lock is held for the length of a run, by its thread.
TypeOK ==
  /\ running \in BOOLEAN
  /\ run_lock \in Thread \cup {NoThread}
  /\ pc \in [Thread -> {"idle", "start", "locked", "waiting", "woken", "exit",
                        "stop", "stop_sync", "notify", "notify_sync", "wait"}]
  /\ \A t \in Thread :
       run_lock = t <=> pc[t] \in {"locked", "waiting", "woken", "exit"}

Init ==
  /\ running = FALSE
  /\ run_lock = NoThread
  /\ pc = [t \in Thread |-> "idle"]

Goto(t, from, to) == pc[t] = from /\ pc' = [pc EXCEPT ![t] = to]

-----------------------------------------------------------------------------
\* A thread calls one of the functions.
Call(t) ==
  /\ \E to \in {"start", "stop", "stop_sync", "wait"} : Goto(t, "idle", to)
  /\ UNCHANGED <<running, run_lock>>

\* start(): run_lock is held for the whole run.
StartUnlocked(t) ==                                                \* mutant
  /\ Goto(t, "start", "locked")
  /\ run_lock' = t
  /\ UNCHANGED running

StartLock(t) ==
  /\ Goto(t, "start", "locked")
  /\ run_lock = NoThread
  /\ run_lock' = t
  /\ UNCHANGED running

StartWait(t) ==
  /\ Goto(t, "locked", "waiting")
  /\ running' = TRUE
  /\ UNCHANGED run_lock

\* cv.wait may return without a notification.
SpuriousWake(t) ==
  /\ Goto(t, "waiting", "woken")
  /\ UNCHANGED <<running, run_lock>>

\* The loop's test, under state_change again.
Woken(t) ==
  /\ Goto(t, "woken", IF running THEN "waiting" ELSE "exit")
  /\ UNCHANGED <<running, run_lock>>

StartExit(t) ==
  /\ Goto(t, "exit", "idle")
  /\ run_lock' = NoThread
  /\ UNCHANGED running

\* stop(): the flag first, under state_change, the notification after it.
StopFlagLast(t) ==                                                 \* mutant
  /\ \/ Goto(t, "stop", "idle") \/ Goto(t, "stop_sync", "wait")
  /\ running' = FALSE
  /\ UNCHANGED run_lock

StopFlag(t) ==
  /\ \/ Goto(t, "stop", "notify") \/ Goto(t, "stop_sync", "notify_sync")
  /\ running' = FALSE
  /\ UNCHANGED run_lock

\* What notify_all leaves of a thread's place.
NotNotified(u) == pc[u]                                            \* mutant
Notified(u) == IF pc[u] = "waiting" THEN "woken" ELSE pc[u]

StopNotify(t) ==
  /\ pc[t] \in {"notify", "notify_sync"}
  /\ pc' = [u \in Thread |-> IF u # t THEN Notified(u)
                             ELSE IF pc[t] = "notify" THEN "idle" ELSE "wait"]
  /\ UNCHANGED <<running, run_lock>>

\* stop_wait()
StopNoWait(t) ==                                                   \* mutant
  /\ Goto(t, "wait", "idle")
  /\ UNCHANGED <<running, run_lock>>

StopWait(t) ==
  /\ Goto(t, "wait", "idle")
  /\ run_lock = NoThread
  /\ UNCHANGED <<running, run_lock>>

Next ==
  \E t \in Thread :
    \/ Call(t)
    \/ StartLock(t) \/ StartWait(t) \/ SpuriousWake(t) \/ Woken(t)
    \/ StartExit(t)
    \/ StopFlag(t) \/ StopNotify(t) \/ StopWait(t)

Spec == Init /\ [][Next]_vars

\* A thread that nothing holds up goes on: after it was woken, in stop(), and
\* at the end of its run.  Nothing wakes a thread but a notification.
Fairness ==
  \A t \in Thread : WF_vars(Woken(t) \/ StartExit(t)) /\ WF_vars(StopNotify(t))

FairSpec == Spec /\ Fairness

-----------------------------------------------------------------------------
(***************************************************************************)
(* Properties.                                                             *)
(***************************************************************************)
InRun(t) == pc[t] \in {"waiting", "woken"}

Runner ==
  IF \E t \in Thread : InRun(t) THEN CHOOSE t \in Thread : InRun(t)
                                ELSE NoThread

Asked == Runner # NoThread /\ ~running

Control == INSTANCE RunControl WITH runner <- Runner, asked <- Asked

\* The stub implements RunControl: one run at a time, and each ends when, and
\* only when, it is asked to; no wake-up is lost between the test of the flag
\* and the wait, whoever starts and stops in between.
RunsUnderControl == Control!Spec

\* A run that was asked to end and still waits is notified: the thread that
\* cleared the flag, or another one, is between that and its notify_all.
WakeUpComes ==
  \A t \in Thread :
    pc[t] = "waiting" /\ ~running =>
      \E u \in Thread : pc[u] \in {"notify", "notify_sync"}

\* stop_wait and stop_sync return only when no run is under way.
WaitsForRun ==
  [][\A t \in Thread :
       pc[t] = "wait" /\ pc'[t] = "idle" =>
         \A u \in Thread :
           pc[u] \notin {"locked", "waiting", "woken", "exit"}]_vars
=============================================================================
