---------------------------- MODULE MCIPCServer ----------------------------
(***************************************************************************)
(* Small instances of IPCServer for TLC.                                   *)
(***************************************************************************)
EXTENDS IPCServer
=============================================================================
