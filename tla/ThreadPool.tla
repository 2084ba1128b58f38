------------------------------ MODULE ThreadPool ------------------------------
(***************************************************************************)
(* lib/ext/boost/threadpool: pool_core, worker_thread and the policies.    *)
(*                                                                         *)
(* Everything a thread does while it holds m_monitor is one step; a wait   *)
(* on a condition ends the step and the return from it, when the thread    *)
(* holds the monitor again, begins another.  A worker on the way to the    *)
(* monitor after a notification is "woken".  Only join() keeps the         *)
(* monitor while it blocks.                                                *)
(*                                                                         *)
(* The owner is the thread that destroys the last copy of the pool, which  *)
(* runs the shutdown policy: by then nobody else is inside a call, except  *)
(* tasks, which may schedule others.  Callers are threads in wait().  A    *)
(* task may throw, and a thread may fail to be created.                    *)
(***************************************************************************)
EXTENDS Scheduler, FiniteSets

CONSTANTS
    MaxThreads,     \* bound: threads created, each of which is a worker once
    Callers,        \* threads that call wait()
    Limits,         \* thresholds they pass
    Sizes,          \* sizes passed to the constructor and to resize()
    Policies        \* pairs of a scheduling and a shutdown policy

Workers == 1..MaxThreads
Endings == {"wait_for_all_tasks", "wait_for_active_tasks", "immediately"}

ASSUME PoolAssumptions ==
    /\ MaxThreads \in Nat
    /\ Limits \subseteq Nat /\ Sizes \subseteq Nat
    /\ Policies \subseteq Orders \X Endings
    /\ "owner" \notin Callers

VARIABLES
    order, ending,  \* the scheduling and the shutdown policy
    queue,          \* m_scheduler
    count,          \* m_worker_count
    target,         \* m_target_worker_count
    active,         \* m_active_worker_count
    terminating,    \* m_terminate_all_workers
    terminated,     \* m_terminated_workers
    worker,         \* what each worker is doing
    task,           \* the task a running worker executes
    owner,          \* where the owner is in the shutdown policy
    idle,           \* who waits for m_worker_idle_or_terminated_event
    limit,          \* task_threshold of the callers, and whether they wait for a time
    fresh, over     \* tasks not scheduled yet, tasks that were executed

policies == <<order, ending>>
counters == <<count, target, active>>
closing == <<terminating, terminated>>
vars == <<policies, queue, counters, closing, worker, task, owner, idle, limit,
          fresh, over>>

WorkerStates ==
    {"unborn", "fetch", "asleep", "woken", "run", "leaving", "dying", "ended", "gone"}
OwnerStates == {"using", "clear", "wait", "terminate", "drain", "join", "done"}
IdleStates == {"out", "asleep", "woken"}
Clients == Callers \union {"owner"}
NoTask == "none"
NoLimit == [most |-> -1, timed |-> FALSE]

WorkersIn(states) == {w \in Workers : worker[w] \in states}

-----------------------------------------------------------------------------
\* Constructor: the pool is resized; fewer threads than asked for may exist.
Init ==
    /\ \E p \in Policies : order = p[1] /\ ending = p[2]
    /\ queue = <<>>
    /\ target \in Sizes
    /\ \E n \in 0..target \cap 0..MaxThreads :
        /\ worker = [w \in Workers |-> IF w <= n THEN "fetch" ELSE "unborn"]
        /\ count = n /\ active = n
    /\ terminating = FALSE /\ terminated = {}
    /\ task = [w \in Workers |-> NoTask]
    /\ owner = "using"
    /\ idle = [c \in Clients |-> "out"]
    /\ limit = [c \in Callers |-> NoLimit]
    /\ fresh = Tasks /\ over = {}

MonitorFree == owner # "join"

\* notify_all and notify_one on the two conditions.
Notified(w) == IF w = "asleep" THEN "woken" ELSE w
NotifyIdle == idle' = [c \in Clients |-> Notified(idle[c])]
WakeAllWorkers == worker' = [w \in Workers |-> Notified(worker[w])]
WakeOneWorker ==
    \/ \E w \in WorkersIn({"asleep"}) : worker' = [worker EXCEPT ![w] = "woken"]
    \/ WorkersIn({"asleep"}) = {} /\ UNCHANGED worker

-----------------------------------------------------------------------------
(***************************************************************************)
(* The users.                                                              *)
(***************************************************************************)

\* Mutant: the task is queued and nobody is told.
ScheduleSilently(t) ==
    /\ MonitorFree
    /\ owner = "using" \/ WorkersIn({"run"}) # {}
    /\ t \in fresh
    /\ queue' = Pushed(order, queue, t)
    /\ fresh' = fresh \ {t}
    /\ UNCHANGED <<policies, counters, closing, worker, task, owner, idle, limit, over>>

Schedule(t) ==
    /\ MonitorFree
    /\ owner = "using" \/ WorkersIn({"run"}) # {}
    /\ t \in fresh
    /\ queue' = Pushed(order, queue, t)
    /\ WakeOneWorker
    /\ fresh' = fresh \ {t}
    /\ UNCHANGED <<policies, counters, closing, task, owner, idle, limit, over>>

Clear ==
    /\ owner = "using"
    /\ queue' = <<>>
    /\ UNCHANGED <<policies, counters, closing, worker, task, owner, idle, limit,
                   fresh, over>>

\* Mutant: wait() looks at the pending tasks only.
MayReturnWhenEmpty(n) == Len(queue) <= n

MayReturn(n) == IF n = 0 THEN active = 0 /\ queue = <<>> ELSE active + Len(queue) <= n

BeginWait(c, n, timed) ==
    /\ owner = "using"
    /\ idle[c] = "out"
    /\ ~ MayReturn(n)
    /\ idle' = [idle EXCEPT ![c] = "asleep"]
    /\ limit' = [limit EXCEPT ![c] = [most |-> n, timed |-> timed]]
    /\ UNCHANGED <<policies, queue, counters, closing, worker, task, owner, fresh, over>>

Retest(c) ==
    /\ idle[c] = "woken"
    /\ IF MayReturn(limit[c].most)
       THEN /\ idle' = [idle EXCEPT ![c] = "out"]
            /\ limit' = [limit EXCEPT ![c] = NoLimit]
       ELSE /\ idle' = [idle EXCEPT ![c] = "asleep"]
            /\ UNCHANGED limit
    /\ UNCHANGED <<policies, queue, counters, closing, worker, task, owner, fresh, over>>

TimeOut(c) ==
    /\ limit[c].timed /\ idle[c] = "asleep"
    /\ idle' = [idle EXCEPT ![c] = "out"]
    /\ limit' = [limit EXCEPT ![c] = NoLimit]
    /\ UNCHANGED <<policies, queue, counters, closing, worker, task, owner, fresh, over>>

-----------------------------------------------------------------------------
(***************************************************************************)
(* resize(): workers are created one after the other until the target is   *)
(* reached or a thread cannot be created; or all are woken to shrink.      *)
(* worker0 and count0 are the workers and their number before the call.    *)
(***************************************************************************)

Shrink(worker0) == worker' = [w \in Workers |-> Notified(worker0[w])]

Grow(worker0, count0, active0) ==
    \E last \in 0..MaxThreads :
        LET born == {w \in 1..last : worker0[w] = "unborn"} IN
        /\ Cardinality(born) <= target' - count0
        /\ worker' = [w \in Workers |-> IF w \in born THEN "fetch" ELSE worker0[w]]
        /\ count' = count0 + Cardinality(born)
        /\ active' = active0 + Cardinality(born)

Resize(n) ==
    /\ owner = "using"
    /\ target' = n
    /\ \/ count <= n /\ Grow(worker, count, active)
       \/ count > n /\ Shrink(worker) /\ UNCHANGED <<count, active>>
    /\ UNCHANGED <<policies, queue, closing, task, owner, idle, limit, fresh, over>>

-----------------------------------------------------------------------------
(***************************************************************************)
(* A worker: run() calls execute_task() until it returns false.            *)
(***************************************************************************)

\* The loop of execute_task, with active0 workers active before it.
FetchLoop(w, active0) ==
    \/ /\ queue = <<>> /\ count > target
       /\ worker' = [worker EXCEPT ![w] = "leaving"]
       /\ active' = active0
       /\ UNCHANGED <<queue, task, idle>>
    \/ /\ queue = <<>> /\ count <= target
       /\ worker' = [worker EXCEPT ![w] = "asleep"]
       /\ active' = active0 - 1
       /\ NotifyIdle
       /\ UNCHANGED <<queue, task>>
    \/ \E i \in Tops(order, queue) :
       /\ worker' = [worker EXCEPT ![w] = "run"]
       /\ task' = [task EXCEPT ![w] = queue[i]]
       /\ queue' = Popped(queue, i)
       /\ active' = active0
       /\ UNCHANGED idle

\* execute_task from its beginning.
Fetch(w) ==
    /\ MonitorFree
    /\ worker[w] = "fetch"
    /\ \/ /\ count > target
          /\ worker' = [worker EXCEPT ![w] = "leaving"]
          /\ UNCHANGED <<queue, active, task, idle>>
       \/ count <= target /\ FetchLoop(w, active)
    /\ UNCHANGED <<policies, count, target, closing, owner, limit, fresh, over>>

\* execute_task after the wait.
Wake(w) ==
    /\ MonitorFree
    /\ worker[w] = "woken"
    /\ FetchLoop(w, active + 1)
    /\ UNCHANGED <<policies, count, target, closing, owner, limit, fresh, over>>

\* A condition may wake a thread by itself.
Spurious(w) ==
    /\ worker[w] = "asleep"
    /\ worker' = [worker EXCEPT ![w] = "woken"]
    /\ UNCHANGED <<policies, queue, counters, closing, task, owner, idle, limit,
                   fresh, over>>

EndTask(w, next) ==
    /\ worker[w] = "run"
    /\ worker' = [worker EXCEPT ![w] = next]
    /\ over' = over \union {task[w]}
    /\ task' = [task EXCEPT ![w] = NoTask]
    /\ UNCHANGED <<policies, queue, counters, closing, owner, idle, limit, fresh>>

Execute(w) == EndTask(w, "fetch")
Throw(w) == EndTask(w, "dying")

\* static_size asks for one worker more than are left.
SizeAfterDeath(left) == left + 1

\* The scope guard of run() when a task threw; the size policy makes a new worker.
WorkerDied(w) ==
    /\ MonitorFree
    /\ worker[w] = "dying"
    /\ NotifyIdle
    /\ \/ /\ terminating
          /\ terminated' = terminated \union {w}
          /\ worker' = [worker EXCEPT ![w] = "ended"]
          /\ count' = count - 1 /\ active' = active - 1
          /\ UNCHANGED target
       \/ /\ ~ terminating
          /\ target' = SizeAfterDeath(count - 1)
          /\ Grow([worker EXCEPT ![w] = "ended"], count - 1, active - 1)
          /\ UNCHANGED terminated
    /\ UNCHANGED <<policies, queue, terminating, task, owner, limit, fresh, over>>

\* Mutant: the last worker leaves and does not tell the owner.
DestructedSilently(w) ==
    /\ MonitorFree
    /\ worker[w] = "leaving"
    /\ worker' = [worker EXCEPT ![w] = "ended"]
    /\ count' = count - 1 /\ active' = active - 1
    /\ terminated' = IF terminating THEN terminated \union {w} ELSE terminated
    /\ UNCHANGED <<policies, queue, target, terminating, task, owner, idle, limit,
                   fresh, over>>

\* Mutant: the worker that leaves stays counted as active.
DestructedActive(w) ==
    /\ MonitorFree
    /\ worker[w] = "leaving"
    /\ worker' = [worker EXCEPT ![w] = "ended"]
    /\ count' = count - 1
    /\ NotifyIdle
    /\ terminated' = IF terminating THEN terminated \union {w} ELSE terminated
    /\ UNCHANGED <<policies, queue, target, active, terminating, task, owner, limit,
                   fresh, over>>

WorkerDestructed(w) ==
    /\ MonitorFree
    /\ worker[w] = "leaving"
    /\ worker' = [worker EXCEPT ![w] = "ended"]
    /\ count' = count - 1 /\ active' = active - 1
    /\ NotifyIdle
    /\ terminated' = IF terminating THEN terminated \union {w} ELSE terminated
    /\ UNCHANGED <<policies, queue, target, terminating, task, owner, limit, fresh, over>>

\* run() returns and the thread can be joined.
ThreadEnds(w) ==
    /\ worker[w] = "ended"
    /\ worker' = [worker EXCEPT ![w] = "gone"]
    /\ UNCHANGED <<policies, queue, counters, closing, task, owner, idle, limit,
                   fresh, over>>

-----------------------------------------------------------------------------
(***************************************************************************)
(* The owner: shutdown() of the three policies.                            *)
(***************************************************************************)

OwnerGoes(from, to) == owner = from /\ owner' = to

BeginShutdown ==
    /\ \A c \in Callers : idle[c] = "out"
    /\ \/ ending = "wait_for_all_tasks" /\ OwnerGoes("using", "wait")
       \/ ending # "wait_for_all_tasks" /\ OwnerGoes("using", "clear")
    /\ UNCHANGED <<policies, queue, counters, closing, worker, task, idle, limit,
                   fresh, over>>

ShutdownClear ==
    /\ \/ ending = "wait_for_active_tasks" /\ OwnerGoes("clear", "wait")
       \/ ending = "immediately" /\ OwnerGoes("clear", "terminate")
    /\ queue' = <<>>
    /\ UNCHANGED <<policies, counters, closing, worker, task, idle, limit, fresh, over>>

ShutdownWait ==
    /\ idle["owner"] # "asleep"
    /\ \/ /\ MayReturn(0)
          /\ OwnerGoes("wait", "terminate")
          /\ idle' = [idle EXCEPT !["owner"] = "out"]
       \/ /\ ~ MayReturn(0)
          /\ OwnerGoes("wait", "wait")
          /\ idle' = [idle EXCEPT !["owner"] = "asleep"]
    /\ UNCHANGED <<policies, queue, counters, closing, worker, task, limit, fresh, over>>

\* terminate_all_workers up to its wait, or to join().
AfterDrainTest ==
    \/ active > 0 /\ owner' = "drain" /\ idle' = [idle EXCEPT !["owner"] = "asleep"]
    \/ active = 0 /\ owner' = "join" /\ idle' = [idle EXCEPT !["owner"] = "out"]

TerminateAllWorkers ==
    /\ owner = "terminate"
    /\ terminating' = TRUE
    /\ target' = 0
    /\ WakeAllWorkers
    /\ \/ ending = "immediately" /\ owner' = "done" /\ UNCHANGED idle
       \/ ending # "immediately" /\ AfterDrainTest
    /\ UNCHANGED <<policies, queue, count, active, terminated, task, limit, fresh, over>>

Drain ==
    /\ owner = "drain" /\ idle["owner"] = "woken"
    /\ AfterDrainTest
    /\ UNCHANGED <<policies, queue, counters, closing, worker, task, limit, fresh, over>>

\* The monitor is held until all of m_terminated_workers are gone.
Join ==
    /\ OwnerGoes("join", "done")
    /\ terminated \subseteq WorkersIn({"gone"})
    /\ terminated' = {}
    /\ UNCHANGED <<policies, queue, counters, terminating, worker, task, idle, limit,
                   fresh, over>>

-----------------------------------------------------------------------------
WorkerStep(w) ==
    Fetch(w) \/ Wake(w) \/ Execute(w) \/ WorkerDied(w) \/ WorkerDestructed(w) \/ ThreadEnds(w)

OwnerStep ==
    ShutdownClear \/ ShutdownWait \/ TerminateAllWorkers \/ Drain \/ Join

Next ==
    \/ \E t \in Tasks : Schedule(t)
    \/ Clear
    \/ \E n \in Sizes : Resize(n)
    \/ \E c \in Callers :
        \/ Retest(c) \/ TimeOut(c)
        \/ \E n \in Limits, timed \in BOOLEAN : BeginWait(c, n, timed)
    \/ \E w \in Workers : WorkerStep(w) \/ Throw(w) \/ Spurious(w)
    \/ BeginShutdown
    \/ OwnerStep

Spec == Init /\ [][Next]_vars

(***************************************************************************)
(* Threads that are not blocked run; a task ends (it may also throw, but   *)
(* that a task ends is up to the task).  Nobody must schedule, clear,      *)
(* resize or shut down.                                                    *)
(***************************************************************************)
FairSpec ==
    /\ Spec
    /\ \A w \in Workers : WF_vars(WorkerStep(w))
    /\ \A c \in Callers : WF_vars(Retest(c))
    /\ WF_vars(OwnerStep)

-----------------------------------------------------------------------------
TypeOK ==
    /\ order \in Orders /\ ending \in Endings
    /\ queue \in Seq(Tasks)
    /\ count \in Nat /\ target \in Nat /\ active \in Nat
    /\ terminating \in BOOLEAN /\ terminated \subseteq Workers
    /\ worker \in [Workers -> WorkerStates]
    /\ task \in [Workers -> Tasks \union {NoTask}]
    /\ owner \in OwnerStates
    /\ idle \in [Clients -> IdleStates]
    /\ limit \in [Callers -> [most : Limits, timed : BOOLEAN] \union {NoLimit}]
    /\ fresh \subseteq Tasks /\ over \subseteq Tasks

(***************************************************************************)
(* The counters that wait() and terminate_all_workers() rely on are exact  *)
(* whatever was interrupted, thrown or resized: m_worker_count is the      *)
(* number of threads that still take part, m_active_worker_count those of  *)
(* them that are not waiting for a task.                                   *)
(***************************************************************************)
CountersExact ==
    /\ count = Cardinality(WorkersIn({"fetch", "asleep", "woken", "run", "leaving", "dying"}))
    /\ active = Cardinality(WorkersIn({"fetch", "run", "leaving", "dying"}))

(***************************************************************************)
(* No wake-up is lost although schedule() notifies only one worker and a   *)
(* busy one may take the task first: while a worker sleeps there are at    *)
(* least as many workers on their way to the queue as tasks in it, and no  *)
(* worker sleeps that resize() or terminate_all_workers() wants to go.     *)
(***************************************************************************)
NoneStranded ==
    WorkersIn({"asleep"}) # {} =>
        /\ Len(queue) <= Cardinality(WorkersIn({"fetch", "woken"}))
        /\ count <= target

\* The tasks that are being executed, and those that clear() removed.
Executing == {task[w] : w \in WorkersIn({"run"})}
Cleared == Tasks \ (fresh \union over \union Contents(queue) \union Executing)

(***************************************************************************)
(* The pool is a TaskPool: no task is lost, doubled or started out of      *)
(* order, and wait() returns only when what it promises holds.             *)
(***************************************************************************)
Promise == INSTANCE TaskPool WITH
    pending <- queue, running <- Executing, dropped <- Cleared, waiting <- limit

ImplementsTaskPool == Promise!Spec

(***************************************************************************)
(* A scheduled task does not stay in the queue for ever while the pool     *)
(* has workers, also when tasks throw and workers leave.                   *)
(***************************************************************************)
TasksAreTaken ==
    \A t \in Tasks : t \in Contents(queue) ~> (t \notin Contents(queue) \/ count = 0)

(***************************************************************************)
(* shutdown() returns under each of the policies, unless tasks are pending *)
(* in a pool that has no workers: then its wait() blocks.                  *)
(***************************************************************************)
ShutdownEnds ==
    owner # "using" ~> (owner = "done" \/ (count = 0 /\ ~ terminating))
===============================================================================
