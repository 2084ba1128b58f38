------------------------------- MODULE TaskPool -------------------------------
(***************************************************************************)
(* What a pool of lib/ext/boost/threadpool promises its users, without     *)
(* workers, counters or conditions: a task that was scheduled is started   *)
(* at most once, in the order of the scheduling policy, unless clear()     *)
(* drops it; wait() returns when no more tasks than its threshold are      *)
(* pending or running.                                                     *)
(***************************************************************************)
EXTENDS Scheduler, FiniteSets

CONSTANTS
    Callers,        \* threads that call wait()
    Limits          \* thresholds they pass

VARIABLES
    order,      \* the scheduling policy: "fifo", "lifo" or "prio"
    pending,    \* scheduled and not started, in the order of the container
    running,    \* started and not ended
    over,       \* ended, by returning or by throwing
    dropped,    \* removed by clear()
    waiting     \* threshold each caller waits for and whether for a time, or NoLimit

pool == <<order, pending, running, over, dropped, waiting>>

NoLimit == [most |-> -1, timed |-> FALSE]

Init ==
    /\ order \in Orders
    /\ pending = <<>> /\ running = {} /\ over = {} /\ dropped = {}
    /\ waiting = [c \in Callers |-> NoLimit]

Submit(t) ==
    /\ t \notin Contents(pending) \union running \union over \union dropped
    /\ pending' = Pushed(order, pending, t)
    /\ UNCHANGED <<order, running, over, dropped, waiting>>

Start ==
    \E i \in Tops(order, pending) :
        /\ running' = running \union {pending[i]}
        /\ pending' = Popped(pending, i)
        /\ UNCHANGED <<order, over, dropped, waiting>>

End(t) ==
    /\ t \in running
    /\ running' = running \ {t} /\ over' = over \union {t}
    /\ UNCHANGED <<order, pending, dropped, waiting>>

Clear ==
    /\ dropped' = dropped \union Contents(pending) /\ pending' = <<>>
    /\ UNCHANGED <<order, running, over, waiting>>

Await(c, n, timed) ==
    /\ waiting[c] = NoLimit
    /\ waiting' = [waiting EXCEPT ![c] = [most |-> n, timed |-> timed]]
    /\ UNCHANGED <<order, pending, running, over, dropped>>

Leave(c) ==
    /\ waiting[c] # NoLimit
    /\ waiting' = [waiting EXCEPT ![c] = NoLimit]
    /\ UNCHANGED <<order, pending, running, over, dropped>>

Return(c) == Leave(c) /\ Len(pending) + Cardinality(running) <= waiting[c].most

GiveUp(c) == Leave(c) /\ waiting[c].timed

Next ==
    \/ \E t \in Tasks : Submit(t) \/ End(t)
    \/ Start
    \/ Clear
    \/ \E c \in Callers : Return(c) \/ GiveUp(c) \/ \E n \in Limits, timed \in BOOLEAN : Await(c, n, timed)

Spec == Init /\ [][Next]_pool
===============================================================================
