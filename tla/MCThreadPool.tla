----------------------------- MODULE MCThreadPool -----------------------------
(***************************************************************************)
(* Instances of ThreadPool for TLC.                                        *)
(***************************************************************************)
EXTENDS ThreadPool

CONSTANTS t1, t2
TwoTasks == {t1, t2}
TwoPriorities == [t \in {t1, t2} |-> IF t = t1 THEN 0 ELSE 1]

\* Each scheduling and each shutdown policy once; the store uses the first pair.
ThreePolicies ==
    {<<"fifo", "wait_for_all_tasks">>, <<"prio", "wait_for_active_tasks">>,
     <<"lifo", "immediately">>}
===============================================================================
