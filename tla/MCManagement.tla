----------------------------- MODULE MCManagement -----------------------------
(***************************************************************************)
(* An instance of Management for TLC: one thread of each kind.             *)
(***************************************************************************)
EXTENDS Management

CONSTANTS b1, e1, d1

WorkerFirst == <<e1, b1, d1>>
===============================================================================
