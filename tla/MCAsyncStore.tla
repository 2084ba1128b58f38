----------------------------- MODULE MCAsyncStore -----------------------------
(***************************************************************************)
(* Instances of AsyncStore for TLC.                                        *)
(***************************************************************************)
EXTENDS AsyncStore
===============================================================================
