------------------------------ MODULE Scheduler ------------------------------
(***************************************************************************)
(* The three scheduling policies of                                        *)
(* lib/ext/boost/threadpool/scheduling_policies.hpp.  The container is a   *)
(* sequence; Tops gives the positions that top() and pop() may mean (a     *)
(* priority queue leaves the choice among equal priorities open).          *)
(***************************************************************************)
EXTENDS Integers, Sequences

CONSTANTS
    Tasks,      \* the tasks, each scheduled once
    Priority    \* their priorities, for the prio_scheduler

ASSUME PriorityAssumption == Priority \in [Tasks -> Nat]

Orders == {"fifo", "lifo", "prio"}

FifoPush(q, t) == Append(q, t)
LifoPush(q, t) == <<t>> \o q
PrioPush(q, t) == Append(q, t)

FrontTop(q) == {1} \cap DOMAIN q
PrioTop(q) == {i \in DOMAIN q : \A j \in DOMAIN q : Priority[q[j]] <= Priority[q[i]]}

Pushed(order, q, t) ==
    CASE order = "fifo" -> FifoPush(q, t)
      [] order = "lifo" -> LifoPush(q, t)
      [] order = "prio" -> PrioPush(q, t)

Tops(order, q) == IF order = "prio" THEN PrioTop(q) ELSE FrontTop(q)

Popped(q, i) == SubSeq(q, 1, i - 1) \o SubSeq(q, i + 1, Len(q))

Contents(q) == {q[i] : i \in DOMAIN q}
===============================================================================
