--------------------------- MODULE MCQueueRegistry ---------------------------
(***************************************************************************)
(* Instances of QueueRegistry for TLC.                                     *)
(***************************************************************************)
EXTENDS QueueRegistry, TLC

CONSTANTS m1

OneMessage == {m1}
InSecondFile == [m \in {m1} |-> 1]

\* Queue names and threads are interchangeable.
Symmetry == Permutations(Queues) \union Permutations(Threads)
===============================================================================
