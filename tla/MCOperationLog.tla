---------------------------- MODULE MCOperationLog ----------------------------
(***************************************************************************)
(* Instances of OperationLog for TLC.                                      *)
(***************************************************************************)
EXTENDS OperationLog
===============================================================================
