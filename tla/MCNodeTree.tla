----------------------------- MODULE MCNodeTree -----------------------------
(***************************************************************************)
(* Instance of NodeTree for TLC.  A node object is created at most once,   *)
(* so Node bounds the number of creations; everything else is finite then. *)
(***************************************************************************)
EXTENDS NodeTree
=============================================================================
