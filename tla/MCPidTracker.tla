----------------------------- MODULE MCPidTracker -----------------------------
(***************************************************************************)
(* Instances of PidTracker for TLC.                                        *)
(***************************************************************************)
EXTENDS PidTracker, TLC

\* The workers of a pool, and the queues, are interchangeable.
Symmetry ==
    Permutations(Adders) \union Permutations(Waiters \ Loaders)
        \union Permutations(Queues)
===============================================================================
