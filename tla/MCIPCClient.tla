---------------------------- MODULE MCIPCClient ----------------------------
(***************************************************************************)
(* Small instances of IPCClient for TLC.                                   *)
(***************************************************************************)
EXTENDS IPCClient
=============================================================================
