----------------------------- MODULE RunControl -----------------------------
(***************************************************************************)
(* What server::start, stop and stop_wait (server.h) promise whatever the  *)
(* back end: at most one thread runs the server at a time, its run ends    *)
(* only after somebody asked for that, and then it does end.               *)
(*                                                                         *)
(* It says nothing of a stop that comes when no run is under way: neither  *)
(* back end remembers one.                                                 *)
(***************************************************************************)
CONSTANTS
  Thread,
  NoThread    \* not a thread: nobody runs the server

VARIABLES
  runner,   \* the thread whose start() runs the server
  asked     \* that run has been asked to end

vars == <<runner, asked>>

Init == runner = NoThread /\ asked = FALSE

Begin(t) ==
  /\ runner = NoThread
  /\ runner' = t /\ asked' = FALSE

Ask ==
  /\ runner # NoThread
  /\ asked' = TRUE
  /\ UNCHANGED runner

End(t) ==
  /\ runner = t /\ asked
  /\ runner' = NoThread /\ asked' = FALSE

Next == Ask \/ \E t \in Thread : Begin(t) \/ End(t)

Spec == Init /\ [][Next]_vars /\ WF_vars(\E t \in Thread : End(t))
=============================================================================
