------------------------------- MODULE PidRecord -------------------------------
(***************************************************************************)
(* mainRecord of lib/PidTracker.cpp: what addPid does to lastPid and       *)
(* gapPidSet for one id.                                                   *)
(***************************************************************************)
EXTENDS Integers

CONSTANT HalfInt    \* 2^31 in the code: ids are subtracted and cast to int

\* static_cast<int>(a - b) for two 64-bit ids.
IntDiff(a, b) ==
    LET m == (a - b) % (2 * HalfInt)
    IN  IF m < HalfInt THEN m ELSE m - 2 * HalfInt

Max2(a, b) == IF a > b THEN a ELSE b

\* Mutant: the gap loop goes one id too far.
EndOfRunPast(last, gap) ==
    1 + CHOOSE n \in {last} \union gap :
            n >= last /\ (\A i \in (last + 1)..n : i \in gap) /\ n + 1 \notin gap

(***************************************************************************)
(* The loop that takes ids out of the gap set in ascending order for as    *)
(* long as they are at most one above lastPid: it ends on the last id of   *)
(* the unbroken run that starts after `last'.                              *)
(***************************************************************************)
EndOfRun(last, gap) ==
    CHOOSE n \in {last} \union gap :
        /\ n >= last
        /\ \A i \in (last + 1)..n : i \in gap
        /\ n + 1 \notin gap

\* The section of addPid under pidMutex: lastPid, gapPidSet and `updated' after it.
AddPid(last, gap, pid) ==
    IF IntDiff(pid, last) > 1
    THEN [last |-> last, gap |-> IF pid > last THEN gap \union {pid} ELSE gap,
          updated |-> FALSE]
    ELSE LET end == EndOfRun(Max2(pid, last), gap)
         IN  [last |-> end, gap |-> {i \in gap : i > end}, updated |-> TRUE]
===============================================================================
