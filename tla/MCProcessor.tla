---------------------------- MODULE MCProcessor ----------------------------
(***************************************************************************)
(* Small instances of Processor for TLC.                                   *)
(***************************************************************************)
EXTENDS Processor
=============================================================================
