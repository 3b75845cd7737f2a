----------------------------- MODULE ServerRun ------------------------------
(***************************************************************************)
(* Running the D-Bus server: start, stop, stop_wait, stop_sync, reconnect  *)
(* and running, and the handlers for the bus name (server_gdbus.cpp).      *)
(*                                                                         *)
(* Any thread may call any of these at any time.  What they share is kept  *)
(* in atomics and read and written one by one; run_lock is held for the    *)
(* length of a run.  GLib's main loop is modelled from its use: a loop is  *)
(* made to run by g_main_loop_run, g_main_loop_quit clears the flag that   *)
(* keeps it running and does nothing to a loop that does not run yet.      *)
(* Handlers are run by the thread inside g_main_loop_run.                  *)
(*                                                                         *)
(* Left out: a handler that calls stop_sync, stop_wait or (after a stop)   *)
(* reconnect, which waits for the run_lock of its own thread for ever; and *)
(* a connection that is closed, which reconnect goes on using after it has *)
(* given it up.                                                            *)
(*                                                                         *)
(* An operator marked "mutant" is a wrong variant of the one after it,     *)
(* kept to show that a property notices the difference.                    *)
(***************************************************************************)
CONSTANTS Thread, NoThread, NoLoop

ASSUME NoThreadAssumption == NoThread \notin Thread
ASSUME NoLoopAssumption == NoLoop \notin Thread

VARIABLES
  pc,              \* where each thread is
  owns_name,       \* "waiting", "lost" or "owned"
  event,           \* news about the name that no loop has handled yet
  main_loop,       \* the current loop, named by the thread that made it
  is_running,      \* the loops whose is_running flag is set
  loop,            \* the loop a thread in g_main_loop_run was given
  stop_requested,
  run_lock,        \* the thread that holds it
  result,          \* how the last start() that ended did so
  run,             \* history of the present run, see NewRun
  two_loops        \* history: a loop was made when there was one

bus == <<owns_name, event>>
loops == <<main_loop, is_running, loop>>
hist == <<run, two_loops>>
vars == <<pc, bus, loops, stop_requested, run_lock, result, hist>>

-----------------------------------------------------------------------------
\* lost: the name was lost in this run; stopped: stop() was called in it, and
\* cleared: another start() has cleared stop_requested after that.
NewRun == [lost |-> FALSE, stopped |-> FALSE, cleared |-> FALSE]

TypeOK ==
  /\ pc \in [Thread -> {"idle", "check", "look", "create", "clear", "lock",
                        "run", "running", "exit",
                        "quit", "quit_sync", "wait", "reown"}]
  /\ owns_name \in {"waiting", "lost", "owned"}
  /\ event \in {"none", "lost", "owned"}
  /\ main_loop \in Thread \cup {NoLoop}
  /\ is_running \subseteq Thread
  /\ loop \in [Thread -> Thread \cup {NoLoop}]
  /\ stop_requested \in BOOLEAN
  /\ run_lock \in Thread \cup {NoThread}
  /\ result \in {"none", "returned", "running", "lost"}
  /\ run \in [lost : BOOLEAN, stopped : BOOLEAN, cleared : BOOLEAN]
  /\ two_loops \in BOOLEAN

\* After the constructor: the name has been asked for.
Init ==
  /\ pc = [t \in Thread |-> "idle"]
  /\ owns_name = "waiting"
  /\ event = "none"
  /\ main_loop = NoLoop
  /\ is_running = {}
  /\ loop = [t \in Thread |-> NoLoop]
  /\ stop_requested = FALSE
  /\ run_lock = NoThread
  /\ result = "none"
  /\ run = NewRun
  /\ two_loops = FALSE

-----------------------------------------------------------------------------
Goto(t, l) == pc' = [pc EXCEPT ![t] = l]

\* server::running
Running == main_loop \in is_running

\* start() throws.
Refuse(t, why) ==
  /\ Goto(t, "idle")
  /\ result' = why

\* start(), one shared access after the other.
StartCheckRunning(t) ==
  /\ pc[t] = "idle"
  /\ IF Running THEN Refuse(t, "running")
                ELSE Goto(t, "check") /\ UNCHANGED result
  /\ UNCHANGED <<bus, loops, stop_requested, run_lock, hist>>

StartCheckName(t) ==
  /\ pc[t] = "check"
  /\ IF owns_name = "lost" THEN Refuse(t, "lost")
                           ELSE Goto(t, "look") /\ UNCHANGED result
  /\ UNCHANGED <<bus, loops, stop_requested, run_lock, hist>>

\* Whether a loop has to be made is found out before it is made, so that two
\* threads may both make one.
StartLookNowhere(t) ==                                             \* mutant
  /\ pc[t] = "look"
  /\ Goto(t, "clear")
  /\ UNCHANGED <<bus, loops, stop_requested, run_lock, result, hist>>

StartLook(t) ==
  /\ pc[t] = "look"
  /\ Goto(t, IF main_loop = NoLoop THEN "create" ELSE "clear")
  /\ UNCHANGED <<bus, loops, stop_requested, run_lock, result, hist>>

StartCreate(t) ==
  /\ pc[t] = "create"
  /\ main_loop' = t
  /\ two_loops' = (main_loop # NoLoop)
  /\ Goto(t, "clear")
  /\ UNCHANGED <<bus, is_running, loop, stop_requested, run_lock, result, run>>

StartClear(t) ==
  /\ pc[t] = "clear"
  /\ stop_requested' = FALSE
  /\ run' = [run EXCEPT !.cleared = run.stopped]
  /\ Goto(t, "lock")
  /\ UNCHANGED <<bus, loops, run_lock, result, two_loops>>

StartUnlocked(t) ==                                                \* mutant
  /\ pc[t] = "lock"
  /\ run_lock' = t
  /\ Goto(t, "run")
  /\ UNCHANGED <<bus, loops, stop_requested, result, hist>>

StartLock(t) ==
  /\ pc[t] = "lock"
  /\ run_lock = NoThread
  /\ run_lock' = t
  /\ Goto(t, "run")
  /\ UNCHANGED <<bus, loops, stop_requested, result, hist>>

\* g_main_loop_run begins.
StartRun(t) ==
  /\ pc[t] = "run"
  /\ loop' = [loop EXCEPT ![t] = main_loop]
  /\ is_running' = is_running \cup {main_loop}
  /\ run' = NewRun
  /\ Goto(t, "running")
  /\ UNCHANGED <<bus, main_loop, stop_requested, run_lock, result,
                 two_loops>>

\* g_main_loop_run returns once its loop has been told to quit.
StartReturn(t) ==
  /\ pc[t] = "running"
  /\ loop[t] \notin is_running
  /\ loop' = [loop EXCEPT ![t] = NoLoop]
  /\ Goto(t, "exit")
  /\ UNCHANGED <<bus, main_loop, is_running, stop_requested, run_lock,
                 result, hist>>

\* The test after the run: !owns_name is true of NAME_WAITING only.
OutcomeIgnoresStop ==                                              \* mutant
  IF owns_name = "waiting" THEN "lost" ELSE "returned"

Outcome ==
  IF owns_name = "waiting" /\ ~stop_requested THEN "lost" ELSE "returned"

StartExit(t) ==
  /\ pc[t] = "exit"
  /\ result' = Outcome
  /\ run_lock' = NoThread
  /\ run' = NewRun
  /\ Goto(t, "idle")
  /\ UNCHANGED <<bus, loops, stop_requested, two_loops>>

-----------------------------------------------------------------------------
\* g_main_loop_quit
Quit == is_running \ {main_loop}

\* The loop that runs was stopped: part of the history only.
NoteStop ==
  IF run_lock = NoThread
    THEN run ELSE [run EXCEPT !.stopped = TRUE, !.cleared = FALSE]

\* stop() of another thread, in two steps; stop_sync() goes on to wait.
StopFlag(t, next) ==
  /\ pc[t] = "idle"
  /\ stop_requested' = TRUE
  /\ run' = NoteStop
  /\ Goto(t, next)
  /\ UNCHANGED <<bus, loops, run_lock, result, two_loops>>

StopQuit(t) ==
  /\ pc[t] \in {"quit", "quit_sync"}
  /\ is_running' = Quit
  /\ Goto(t, IF pc[t] = "quit" THEN "idle" ELSE "wait")
  /\ UNCHANGED <<bus, main_loop, loop, stop_requested, run_lock, result,
                 hist>>

StopWaitCall(t) ==
  /\ pc[t] = "idle"
  /\ Goto(t, "wait")
  /\ UNCHANGED <<bus, loops, stop_requested, run_lock, result, hist>>

\* stop_wait: run_lock is taken and released.
StopNoWait(t) ==                                                   \* mutant
  /\ pc[t] = "wait"
  /\ Goto(t, "idle")
  /\ UNCHANGED <<bus, loops, stop_requested, run_lock, result, hist>>

StopWait(t) ==
  /\ pc[t] = "wait"
  /\ run_lock = NoThread
  /\ Goto(t, "idle")
  /\ UNCHANGED <<bus, loops, stop_requested, run_lock, result, hist>>

\* reconnect(), on a connection that is open.
ReconnectCall(t) ==
  /\ pc[t] = "idle" /\ ~Running
  /\ Goto(t, "reown")
  /\ UNCHANGED <<bus, loops, stop_requested, run_lock, result, hist>>

Reconnect(t) ==
  /\ pc[t] = "reown"
  /\ run_lock = NoThread
  /\ owns_name' = IF owns_name = "lost" THEN "waiting" ELSE owns_name
  /\ Goto(t, "idle")
  /\ UNCHANGED <<event, loops, stop_requested, run_lock, result, hist>>

-----------------------------------------------------------------------------
\* The bus gives the name to the process or takes it away.
BusNews(e) ==
  /\ event = "none" /\ owns_name # e
  /\ event' = e
  /\ UNCHANGED <<pc, owns_name, loops, stop_requested, run_lock, result, hist>>

\* name_acquired_handler and name_lost_handler, in the thread that runs.
AfterNewsGoOn == is_running                                        \* mutant
AfterNews == IF event = "lost" THEN Quit ELSE is_running

HandleName(t) ==
  /\ pc[t] = "running" /\ loop[t] \in is_running
  /\ event # "none"
  /\ owns_name' = event
  /\ event' = "none"
  /\ is_running' = AfterNews
  /\ run' = [run EXCEPT !.lost = @ \/ event = "lost"]
  /\ UNCHANGED <<pc, main_loop, loop, stop_requested, run_lock, result,
                 two_loops>>

\* A method handler calls stop().
HandlerStop(t) ==
  /\ pc[t] = "running" /\ loop[t] \in is_running
  /\ stop_requested' = TRUE
  /\ is_running' = Quit
  /\ run' = NoteStop
  /\ UNCHANGED <<pc, bus, main_loop, loop, run_lock, result, two_loops>>

-----------------------------------------------------------------------------
Start(t) ==
  \/ StartCheckRunning(t) \/ StartCheckName(t) \/ StartLook(t)
  \/ StartCreate(t) \/ StartClear(t) \/ StartLock(t)
  \/ StartRun(t) \/ StartReturn(t) \/ StartExit(t)

Stop(t) ==
  \/ StopFlag(t, "quit") \/ StopFlag(t, "quit_sync") \/ StopQuit(t)
  \/ StopWaitCall(t) \/ StopWait(t)

Next ==
  \/ \E t \in Thread : \/ Start(t) \/ Stop(t)
                       \/ ReconnectCall(t) \/ Reconnect(t)
                       \/ HandleName(t) \/ HandlerStop(t)
  \/ \E e \in {"lost", "owned"} : BusNews(e)

Spec == Init /\ [][Next]_vars

\* g_main_loop_run returns once it was told to, and the thread in it goes on.
Fairness == \A t \in Thread : WF_vars(StartReturn(t)) /\ WF_vars(StartExit(t))

FairSpec == Spec /\ Fairness

-----------------------------------------------------------------------------
(***************************************************************************)
(* Properties.                                                             *)
(***************************************************************************)
Runner ==
  IF \E t \in Thread : pc[t] = "running"
    THEN CHOOSE t \in Thread : pc[t] = "running" ELSE NoThread

Asked == Runner # NoThread /\ loop[Runner] \notin is_running

Control == INSTANCE RunControl WITH runner <- Runner, asked <- Asked

\* The server implements RunControl: never two runs at a time although the
\* test for a running server comes long before the lock, no run that ends by
\* itself, and none that goes on once it was asked to end.
RunsUnderControl == Control!Spec

\* When the bus name is lost in a run, the run ends, unless two first calls of
\* start() have made a loop each.
NameLossEndsRun ==
  \A t \in Thread :
    pc[t] = "running" /\ run.lost /\ ~two_loops
      ~> pc[t] # "running"

\* What makes it end: the loop that the handler of the name quits, which is the
\* current one, is the one that runs, and nothing sets its flag again.
NameLossStops ==
  \A t \in Thread :
    pc[t] = "running" /\ run.lost /\ ~two_loops => loop[t] \notin is_running

\* stop_wait and stop_sync return only when no run is under way, up to the
\* point where start() has decided what to return.
WaitsForRun ==
  [][\A t \in Thread :
       pc[t] = "wait" /\ pc'[t] = "idle" =>
         \A u \in Thread : pc[u] \notin {"run", "running", "exit"}]_vars

\* A start() whose run was stopped by stop() returns normally, also when the
\* bus has not answered yet, unless another start() has cleared
\* stop_requested since.
StoppedReturns ==
  [][\A t \in Thread :
       pc[t] = "exit" /\ pc'[t] = "idle" /\ run.stopped /\ ~run.cleared =>
         result' = "returned"]_vars

\* server_gdbus.cpp:1054-1055, throw connection_lost("dbus name lost"): a run
\* that nobody stopped and in which the name was lost ends in that exception.
LostRunThrows ==
  [][\A t \in Thread :
       pc[t] = "exit" /\ pc'[t] = "idle" /\ run.lost /\ ~run.stopped =>
         result' = "lost"]_vars
=============================================================================
