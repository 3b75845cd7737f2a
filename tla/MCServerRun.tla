---------------------------- MODULE MCServerRun -----------------------------
(***************************************************************************)
(* Instance of ServerRun for TLC: the threads bound it.                    *)
(***************************************************************************)
EXTENDS ServerRun
=============================================================================
