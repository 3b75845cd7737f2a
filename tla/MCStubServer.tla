---------------------------- MODULE MCStubServer ----------------------------
(***************************************************************************)
(* Instance of StubServer for TLC: the threads bound it.                   *)
(***************************************************************************)
EXTENDS StubServer
=============================================================================
