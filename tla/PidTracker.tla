------------------------------ MODULE PidTracker ------------------------------
(***************************************************************************)
(* The tracker of persistence ids (lib/PidTracker.cpp) together with the   *)
(* threads of BdbStoreProvider that call it during one run of the broker.  *)
(*                                                                         *)
(* A message is put in the database by an enqueue worker, and deleted by a *)
(* dequeue worker, some time after the broker asked for it.  The tracker   *)
(* is what keeps the deletion of a message behind its insertion: an        *)
(* enqueue worker reports each insertion with addPid, a dequeue worker     *)
(* blocks in waitForPid until the insertion has been reported.  lastPid is *)
(* the highest id below which every id has been reported, gapPidSet holds  *)
(* the ids reported out of order; a message enqueued on a second queue     *)
(* keeps its id and is tracked by dupMap instead.                          *)
(*                                                                         *)
(* An operation <<p, q>> is message p on queue q.  Each mutex is held for  *)
(* one step, except where a waiter tests `stopped' and then goes back to   *)
(* its condition: those two steps are separate because stop() takes        *)
(* neither mutex.                                                          *)
(***************************************************************************)
EXTENDS PidRecord, FiniteSets

CONSTANTS
    Queues,     \* the queues
    MaxPid,     \* bound: the number of ids the sequence issues
    MaxDup,     \* bound: ids 1..MaxDup are enqueued on a further queue
    Adders,     \* the workers of enqueuePool, which run store()
    Waiters,    \* the threads that call waitForPid: the workers of dequeuePool
    Loaders,    \* and, among the Waiters, the broker's threads in loadContent()
    MaxTries,   \* wake-ups after which waitForPid gives up (100 in the code)
    Smart,      \* the option enable_smart_async
    MayStop     \* whether finalizeMe may be called

ASSUME Assumptions ==
    /\ MaxPid \in Nat /\ MaxDup \in Nat
    /\ MaxTries \in Nat
    /\ HalfInt \in Nat /\ MaxPid < HalfInt
    /\ Smart \in BOOLEAN
    /\ MayStop \in BOOLEAN
    /\ Loaders \subseteq Waiters

Pids == 1..MaxPid
Ops == Pids \X Queues

VARIABLES
    lastPid, gapPidSet,     \* mainRecord
    dupMap, pendMap,        \* QMMap, as sets of <<pid, queue>>
    stopped,
    nextId,                 \* messageIdSequence
    enqPool, deqPool,       \* tasks scheduled and not taken by a worker
    adderPc, adderOp,       \* the workers of enqueuePool
    waiterPc, waiterOp,     \* the workers of dequeuePool
    tries,                  \* try_count of each waiter
    finalPc,                \* progress of finalizeMe
    db,                     \* the messages in the database
    enqueued, dequeued      \* what the broker asked for so far

tracker == <<lastPid, gapPidSet, dupMap, pendMap, stopped>>
adders == <<adderPc, adderOp>>
waiters == <<waiterPc, waiterOp, tries>>
broker == <<nextId, enqueued, dequeued>>
vars == <<tracker, adders, waiters, broker, enqPool, deqPool, finalPc, db>>

NoOp == <<0, 0>>

AdderPcs == {"idle", "put", "addDup", "notifyDup", "addMain", "notifyMain"}
WaiterPcs == {"idle", "dupTest", "dupWait", "dupWoken", "dupRetest",
              "mainTest", "mainWait", "mainWoken", "mainRetest",
              "again", "passed"}
FinalPcs == {"running", "notifyMain", "notifyDup", "clear", "wait", "done"}

Init ==
    /\ lastPid = 0 /\ gapPidSet = {}
    /\ dupMap = {} /\ pendMap = {}
    /\ stopped = FALSE
    /\ nextId = 1
    /\ enqPool = {} /\ deqPool = {}
    /\ adderPc = [t \in Adders |-> "idle"] /\ adderOp = [t \in Adders |-> NoOp]
    /\ waiterPc = [t \in Waiters |-> "idle"] /\ waiterOp = [t \in Waiters |-> NoOp]
    /\ tries = [t \in Waiters |-> 0]
    /\ finalPc = "running"
    /\ db = {}
    /\ enqueued = {} /\ dequeued = {}

(***************************************************************************)
(* A waiter that has tested `stopped' and not yet gone back to its         *)
(* condition still holds the mutex of that condition.                      *)
(***************************************************************************)
DupMutexFree == \A t \in Waiters : waiterPc[t] # "dupRetest"
PidMutexFree == \A t \in Waiters : waiterPc[t] # "mainRetest"

\* notify_all on a condition variable.
WakeAll(from, to) ==
    waiterPc' = [t \in Waiters |-> IF waiterPc[t] = from THEN to ELSE waiterPc[t]]

-----------------------------------------------------------------------------
(***************************************************************************)
(* The broker's calls.                                                     *)
(***************************************************************************)

\* What both forms of enqueue do once the message has an id.
Schedule(op) ==
    /\ pendMap' = IF Smart THEN pendMap \union {op} ELSE pendMap
    /\ enqPool' = enqPool \union {op}
    /\ enqueued' = enqueued \union {op}

\* enqueue of a message that has no persistence id yet.
EnqueueNew(q) ==
    /\ finalPc = "running"
    /\ nextId <= MaxPid
    /\ nextId' = nextId + 1
    /\ Schedule(<<nextId, q>>)
    /\ UNCHANGED <<lastPid, gapPidSet, dupMap, stopped, adders, waiters,
                   dequeued, deqPool, finalPc, db>>

\* enqueue of a message that is, or was, on another queue: addDuplicate.
EnqueueAgain(p, q) ==
    /\ finalPc = "running"
    /\ DupMutexFree
    /\ p < nextId /\ p <= MaxDup
    /\ <<p, q>> \notin enqueued
    /\ dupMap' = dupMap \union {<<p, q>>}
    /\ Schedule(<<p, q>>)
    /\ UNCHANGED <<nextId, lastPid, gapPidSet, stopped, adders, waiters,
                   dequeued, deqPool, finalPc, db>>

\* dequeue: dequeueCheck drops both operations when the store has not begun.
Dequeue(op) ==
    /\ finalPc = "running"
    /\ op \in enqueued \ dequeued
    /\ dequeued' = dequeued \union {op}
    /\ pendMap' = pendMap \ {op}
    /\ deqPool' = IF op \in pendMap THEN deqPool ELSE deqPool \union {op}
    /\ UNCHANGED <<nextId, lastPid, gapPidSet, dupMap, stopped, adders, waiters,
                   enqueued, enqPool, finalPc, db>>

-----------------------------------------------------------------------------
(***************************************************************************)
(* store() on a worker of enqueuePool: enqueueCheck, the insertion, and    *)
(* addPid in its critical sections and notifications.                      *)
(***************************************************************************)

AdderGoto(t, pc) == adderPc' = [adderPc EXCEPT ![t] = pc] /\ UNCHANGED adderOp
AdderReturn(t) ==
    /\ adderPc' = [adderPc EXCEPT ![t] = "idle"]
    /\ adderOp' = [adderOp EXCEPT ![t] = NoOp]

\* Mutant: store() goes ahead although a dequeue got there first.
TakeStoreUnchecked(t, op) ==
    /\ adderPc[t] = "idle"
    /\ op \in enqPool
    /\ enqPool' = enqPool \ {op}
    /\ adderOp' = [adderOp EXCEPT ![t] = op]
    /\ adderPc' = [adderPc EXCEPT ![t] = "put"]
    /\ pendMap' = pendMap \ {op}
    /\ UNCHANGED <<lastPid, gapPidSet, dupMap, stopped, waiters, broker,
                   deqPool, finalPc, db>>

\* enqueueCheck: the store is skipped when a dequeue got here first.
TakeStore(t, op) ==
    /\ adderPc[t] = "idle"
    /\ op \in enqPool
    /\ enqPool' = enqPool \ {op}
    /\ adderOp' = [adderOp EXCEPT ![t] = op]
    /\ adderPc' = [adderPc EXCEPT ![t] =
                      IF Smart /\ op \notin pendMap THEN "addDup" ELSE "put"]
    /\ pendMap' = pendMap \ {op}
    /\ UNCHANGED <<lastPid, gapPidSet, dupMap, stopped, waiters, broker,
                   deqPool, finalPc, db>>

Put(t) ==
    /\ adderPc[t] = "put"
    /\ db' = db \union {adderOp[t]}
    /\ AdderGoto(t, "addDup")
    /\ UNCHANGED <<tracker, waiters, broker, enqPool, deqPool, finalPc>>

\* addPid, the section under dupMutex.
AddDup(t) ==
    /\ adderPc[t] = "addDup"
    /\ DupMutexFree
    /\ dupMap' = dupMap \ {adderOp[t]}
    /\ AdderGoto(t, IF adderOp[t] \in dupMap THEN "notifyDup" ELSE "addMain")
    /\ UNCHANGED <<lastPid, gapPidSet, pendMap, stopped, waiters,
                   broker, enqPool, deqPool, finalPc, db>>

NotifyDup(t) ==
    /\ adderPc[t] = "notifyDup"
    /\ WakeAll("dupWait", "dupWoken")
    /\ AdderGoto(t, "notifyMain")
    /\ UNCHANGED <<tracker, waiterOp, tries, broker, enqPool, deqPool,
                   finalPc, db>>

\* Mutant: raising lastPid does not set `updated'.
AddMainQuiet(t) ==
    LET new == AddPid(lastPid, gapPidSet, adderOp[t][1])
    IN  /\ adderPc[t] = "addMain"
        /\ PidMutexFree
        /\ lastPid' = new.last /\ gapPidSet' = new.gap
        /\ AdderReturn(t)
        /\ UNCHANGED <<dupMap, pendMap, stopped, waiters, broker,
                       enqPool, deqPool, finalPc, db>>

\* addPid, the section under pidMutex.
AddMain(t) ==
    LET new == AddPid(lastPid, gapPidSet, adderOp[t][1])
    IN  /\ adderPc[t] = "addMain"
        /\ PidMutexFree
        /\ lastPid' = new.last /\ gapPidSet' = new.gap
        /\ IF new.updated THEN AdderGoto(t, "notifyMain") ELSE AdderReturn(t)
        /\ UNCHANGED <<dupMap, pendMap, stopped, waiters, broker,
                       enqPool, deqPool, finalPc, db>>

NotifyMain(t) ==
    /\ adderPc[t] = "notifyMain"
    /\ WakeAll("mainWait", "mainWoken")
    /\ AdderReturn(t)
    /\ UNCHANGED <<tracker, waiterOp, tries, broker, enqPool, deqPool,
                   finalPc, db>>

-----------------------------------------------------------------------------
(***************************************************************************)
(* waitForPid and its two callers: async_dequeue() on a worker of          *)
(* dequeuePool, and loadContent() on a thread of the broker.               *)
(***************************************************************************)

WaiterGoto(t, pc) == waiterPc' = [waiterPc EXCEPT ![t] = pc] /\ UNCHANGED waiterOp
WaiterReturn(t) ==
    /\ waiterPc' = [waiterPc EXCEPT ![t] = "idle"]
    /\ waiterOp' = [waiterOp EXCEPT ![t] = NoOp]
    /\ tries' = [tries EXCEPT ![t] = 0]

TakeDequeue(t, op) ==
    /\ t \notin Loaders
    /\ waiterPc[t] = "idle"
    /\ op \in deqPool
    /\ deqPool' = deqPool \ {op}
    /\ waiterOp' = [waiterOp EXCEPT ![t] = op]
    /\ waiterPc' = [waiterPc EXCEPT ![t] = "dupTest"]
    /\ UNCHANGED <<tracker, adders, tries, broker, enqPool, finalPc, db>>

\* loadContent of a message that is on a queue.
BeginLoad(t, op) ==
    /\ t \in Loaders
    /\ finalPc = "running"
    /\ waiterPc[t] = "idle"
    /\ op \in enqueued \ dequeued
    /\ waiterOp' = [waiterOp EXCEPT ![t] = op]
    /\ waiterPc' = [waiterPc EXCEPT ![t] = "dupTest"]
    /\ UNCHANGED <<tracker, adders, tries, broker, enqPool, deqPool, finalPc, db>>

\* The test of the first loop, on entry or after a wake-up.
DupTest(t) ==
    /\ \/ waiterPc[t] = "dupTest" /\ DupMutexFree
       \/ waiterPc[t] = "dupRetest"
    /\ WaiterGoto(t, IF waiterOp[t] \in dupMap THEN "dupWait" ELSE "mainTest")
    /\ UNCHANGED <<tracker, adders, tries, broker, enqPool, deqPool,
                   finalPc, db>>

MainTest(t) ==
    /\ \/ waiterPc[t] = "mainTest" /\ PidMutexFree
       \/ waiterPc[t] = "mainRetest"
    /\ WaiterGoto(t, IF waiterOp[t][1] > lastPid THEN "mainWait" ELSE "passed")
    /\ UNCHANGED <<tracker, adders, tries, broker, enqPool, deqPool,
                   finalPc, db>>

\* Mutant: a waiter woken by stop() goes on as if its message were there.
AfterWaitPasses(t, retest) ==
    /\ \/ stopped /\ WaiterGoto(t, "passed") /\ UNCHANGED tries
       \/ /\ ~stopped
          /\ tries' = [tries EXCEPT ![t] = @ + 1]
          /\ WaiterGoto(t, IF tries[t] + 1 > MaxTries THEN "again" ELSE retest)
    /\ UNCHANGED <<tracker, adders, broker, enqPool, deqPool, finalPc, db>>

\* What a waiter does with its mutex back: leave on stop or after MaxTries.
AfterWait(t, retest) ==
    /\ \/ stopped /\ WaiterReturn(t)
       \/ /\ ~stopped
          /\ tries' = [tries EXCEPT ![t] = @ + 1]
          /\ WaiterGoto(t, IF tries[t] + 1 > MaxTries THEN "again" ELSE retest)
    /\ UNCHANGED <<tracker, adders, broker, enqPool, deqPool, finalPc, db>>

DupWoken(t) == waiterPc[t] = "dupWoken" /\ DupMutexFree /\ AfterWait(t, "dupRetest")
MainWoken(t) == waiterPc[t] = "mainWoken" /\ PidMutexFree /\ AfterWait(t, "mainRetest")

\* boost::condition_variable::wait may return without a notification.
Spurious(t) ==
    /\ \/ waiterPc[t] = "dupWait" /\ WaiterGoto(t, "dupWoken")
       \/ waiterPc[t] = "mainWait" /\ WaiterGoto(t, "mainWoken")
    /\ UNCHANGED <<tracker, adders, tries, broker, enqPool, deqPool,
                   finalPc, db>>

\* Mutant: async_dequeue treats -1 like -2.
RescheduleDropped(t) ==
    /\ t \notin Loaders
    /\ waiterPc[t] = "again"
    /\ WaiterReturn(t)
    /\ UNCHANGED <<tracker, adders, broker, enqPool, deqPool, finalPc, db>>

\* After -1 async_dequeue puts its task back in the pool ...
Reschedule(t) ==
    /\ t \notin Loaders
    /\ waiterPc[t] = "again"
    /\ deqPool' = deqPool \union {waiterOp[t]}
    /\ WaiterReturn(t)
    /\ UNCHANGED <<tracker, adders, broker, enqPool, finalPc, db>>

\* ... and loadContent calls waitForPid again.
LoadRetry(t) ==
    /\ t \in Loaders
    /\ waiterPc[t] = "again"
    /\ tries' = [tries EXCEPT ![t] = 0]
    /\ WaiterGoto(t, "dupTest")
    /\ UNCHANGED <<tracker, adders, broker, enqPool, deqPool, finalPc, db>>

\* dequeue_data.
Remove(t) ==
    /\ t \notin Loaders
    /\ waiterPc[t] = "passed"
    /\ db' = db \ {waiterOp[t]}
    /\ WaiterReturn(t)
    /\ UNCHANGED <<tracker, adders, broker, enqPool, deqPool, finalPc>>

\* loadMsgContent.
Load(t) ==
    /\ t \in Loaders
    /\ waiterPc[t] = "passed"
    /\ WaiterReturn(t)
    /\ UNCHANGED <<tracker, adders, broker, enqPool, deqPool, finalPc, db>>

-----------------------------------------------------------------------------
(***************************************************************************)
(* finalizeMe(): stop() sets the flag and notifies both conditions, then   *)
(* the two pools are cleared and waited for.                               *)
(***************************************************************************)

FinalStep(from, to) ==
    /\ finalPc = from
    /\ finalPc' = to
    /\ UNCHANGED <<lastPid, gapPidSet, dupMap, pendMap, adders, waiterOp, tries,
                   broker, db>>

SetStopped ==
    /\ MayStop
    /\ stopped' = TRUE
    /\ FinalStep("running", "notifyMain")
    /\ UNCHANGED <<waiterPc, enqPool, deqPool>>

StopNotifyMain ==
    /\ WakeAll("mainWait", "mainWoken")
    /\ FinalStep("notifyMain", "notifyDup")
    /\ UNCHANGED <<stopped, enqPool, deqPool>>

StopNotifyDup ==
    /\ WakeAll("dupWait", "dupWoken")
    /\ FinalStep("notifyDup", "clear")
    /\ UNCHANGED <<stopped, enqPool, deqPool>>

ClearPools ==
    /\ enqPool' = {} /\ deqPool' = {}
    /\ FinalStep("clear", "wait")
    /\ UNCHANGED <<stopped, waiterPc>>

PoolsIdle ==
    /\ enqPool = {} /\ deqPool = {}
    /\ \A t \in Adders : adderPc[t] = "idle"
    /\ \A t \in Waiters \ Loaders : waiterPc[t] = "idle"

WaitPools ==
    /\ PoolsIdle
    /\ FinalStep("wait", "done")
    /\ UNCHANGED <<stopped, waiterPc, enqPool, deqPool>>

FinalProgress == StopNotifyMain \/ StopNotifyDup \/ ClearPools \/ WaitPools
Finalize == SetStopped \/ FinalProgress

-----------------------------------------------------------------------------
Broker ==
    \/ \E q \in Queues : EnqueueNew(q)
    \/ \E p \in Pids, q \in Queues : EnqueueAgain(p, q)
    \/ \E op \in Ops : Dequeue(op)

AdderStep(t) ==
    \/ \E op \in Ops : TakeStore(t, op)
    \/ Put(t) \/ AddDup(t) \/ NotifyDup(t) \/ AddMain(t) \/ NotifyMain(t)

\* The steps of a call of waitForPid and what follows it.
WaiterProgress(t) ==
    \/ DupTest(t) \/ DupWoken(t)
    \/ MainTest(t) \/ MainWoken(t)
    \/ Reschedule(t) \/ Remove(t)
    \/ LoadRetry(t) \/ Load(t)

WaiterStep(t) ==
    \/ \E op \in Ops : TakeDequeue(t, op) \/ BeginLoad(t, op)
    \/ WaiterProgress(t)
    \/ Spurious(t)

Next ==
    \/ Broker
    \/ \E t \in Adders : AdderStep(t)
    \/ \E t \in Waiters : WaiterStep(t)
    \/ Finalize

Spec == Init /\ [][Next]_vars

(***************************************************************************)
(* The operating system runs every thread that can run, and a thread that  *)
(* keeps asking for a mutex which is free again and again gets it: strong  *)
(* fairness, because a waiter holds the mutex while it retests.  The       *)
(* pool's queue is first-in first-out, so a task is taken in the end as    *)
(* long as workers keep coming back.  The broker owes nothing, and no      *)
(* wake-up without a notification may be relied on.                        *)
(***************************************************************************)
Fairness ==
    /\ \A t \in Adders : SF_vars(AdderStep(t))
    /\ \A t \in Waiters : SF_vars(WaiterProgress(t))
    /\ \A op \in Ops : SF_vars(\E t \in Waiters : TakeDequeue(t, op))
    /\ WF_vars(FinalProgress)

FairSpec == Spec /\ Fairness

-----------------------------------------------------------------------------
TypeOK ==
    /\ lastPid \in 0..MaxPid
    /\ gapPidSet \subseteq Pids
    /\ dupMap \subseteq Ops /\ pendMap \subseteq Ops
    /\ stopped \in BOOLEAN
    /\ nextId \in 1..(MaxPid + 1)
    /\ enqPool \subseteq Ops /\ deqPool \subseteq Ops
    /\ adderPc \in [Adders -> AdderPcs]
    /\ adderOp \in [Adders -> Ops \union {NoOp}]
    /\ waiterPc \in [Waiters -> WaiterPcs]
    /\ waiterOp \in [Waiters -> Ops \union {NoOp}]
    /\ tries \in [Waiters -> Nat]
    /\ finalPc \in FinalPcs
    /\ db \subseteq Ops
    /\ enqueued \subseteq Ops /\ dequeued \subseteq enqueued

(***************************************************************************)
(* A thread that has come through waitForPid finds its message in the      *)
(* database: the deletion by async_dequeue never overtakes the insertion,  *)
(* and loadContent of a message not dequeued meanwhile never misses it,    *)
(* whatever the order in which the workers report the ids of new and of    *)
(* duplicate messages (waitForPid, addPid, addDuplicate).                  *)
(***************************************************************************)
WaitFindsMessage ==
    \A t \in Waiters :
        (waiterPc[t] = "passed" /\ ~(t \in Loaders /\ waiterOp[t] \in dequeued))
            => waiterOp[t] \in db

(***************************************************************************)
(* Whenever both pools have run dry and no shutdown has begun, the         *)
(* database holds exactly the messages enqueued and not dequeued: with     *)
(* smart async on, enqueueCheck and dequeueCheck cancel both halves of a   *)
(* pair or neither.                                                        *)
(***************************************************************************)
QuiescentExact ==
    (finalPc = "running" /\ PoolsIdle) => db = enqueued \ dequeued

(***************************************************************************)
(* A waiter asleep on either condition whose message has been reported is  *)
(* about to be woken: the worker that reported it has still to notify.  No *)
(* wake-up is lost between the test in waitForPid and the notification in  *)
(* addPid, which happens outside the mutex.                                *)
(***************************************************************************)
NoLostWakeup ==
    \A t \in Waiters :
        /\ (waiterPc[t] = "mainWait" /\ waiterOp[t][1] <= lastPid)
              => \E a \in Adders : adderPc[a] = "notifyMain"
        /\ (waiterPc[t] = "dupWait" /\ waiterOp[t] \notin dupMap)
              => \E a \in Adders : adderPc[a] = "notifyDup"

(***************************************************************************)
(* Every dequeue the broker asks for is carried out in the end: the        *)
(* message is out of the database for good and no worker is about to put   *)
(* it back (the broker's requests are bounded, so there is a last one).    *)
(***************************************************************************)
Gone(op) ==
    /\ op \notin db \union enqPool
    /\ \A t \in Adders : adderPc[t] = "put" => adderOp[t] # op

DequeueCompletes == <>[](\A op \in dequeued : Gone(op))

(***************************************************************************)
(* Once begun, finalizeMe comes to its end.                                *)
(***************************************************************************)
FinalizeCompletes == (finalPc # "running") ~> (finalPc = "done")

-----------------------------------------------------------------------------
(***************************************************************************)
(* The inductive invariant behind WaitFindsMessage and QuiescentExact.     *)
(***************************************************************************)

\* The store of op has not reached its insertion (or its decision to skip).
Unstored(op) ==
    \/ op \in enqPool
    \/ \E a \in Adders : adderPc[a] = "put" /\ adderOp[a] = op

\* The deletion of op is scheduled or in the hands of a dequeue worker.
Deleting(op) ==
    \/ op \in deqPool
    \/ \E t \in Waiters \ Loaders : waiterOp[t] = op

\* The store of op is over, and op is gone only if nobody will look for it.
Settled(op) ==
    /\ ~Unstored(op)
    /\ op \in db \/ (op \in dequeued /\ ~Deleting(op))

\* op is the enqueue that addPid will report, or is reporting, in mainRecord.
Reporting(op) ==
    \/ op \in enqPool \ dupMap
    \/ \E a \in Adders :
          /\ adderOp[a] = op
          /\ \/ adderPc[a] \in {"put", "addDup"} /\ op \notin dupMap
             \/ adderPc[a] = "addMain"

\* Every task is in one place, and ids in use are ids issued.
Ownership ==
    /\ \A op \in enqueued : op[1] < nextId
    /\ lastPid < nextId /\ \A p \in gapPidSet : p < nextId
    /\ dupMap \subseteq enqueued /\ db \subseteq enqueued
    /\ enqPool \subseteq enqueued /\ deqPool \subseteq dequeued
    /\ \A a \in Adders :
          /\ adderPc[a] = "idle" <=> adderOp[a] = NoOp
          /\ adderOp[a] # NoOp => adderOp[a] \in enqueued \ enqPool
    /\ \A a, b \in Adders : adderOp[a] = adderOp[b] => a = b \/ adderOp[a] = NoOp
    /\ \A t \in Waiters :
          /\ waiterPc[t] = "idle" <=> waiterOp[t] = NoOp
          /\ waiterOp[t] # NoOp => waiterOp[t] \in enqueued
    /\ \A t \in Waiters \ Loaders :
          waiterOp[t] # NoOp => waiterOp[t] \in dequeued \ deqPool
    /\ \A t, u \in Waiters \ Loaders :
          waiterOp[t] = waiterOp[u] => t = u \/ waiterOp[t] = NoOp

\* enqueueCheck and dequeueCheck let exactly one of the two sides through.
Pending ==
    /\ pendMap \subseteq enqueued \ dequeued
    /\ ~Smart => pendMap = {}
    /\ Smart => \A op \in enqPool :
          IF op \in dequeued THEN ~Deleting(op) ELSE op \in pendMap

\* What a waiter has learnt by the time it leaves each loop of waitForPid.
Waited(t) ==
    /\ waiterPc[t] \in {"mainTest", "mainWait", "mainWoken", "mainRetest", "passed"}
          => waiterOp[t] \notin dupMap
    /\ waiterPc[t] = "passed" => waiterOp[t][1] <= lastPid

\* What lastPid, gapPidSet and dupMap say of the operations reported.
Reported ==
    /\ \A a \in Adders : adderPc[a] \notin {"idle", "put"} => Settled(adderOp[a])
    /\ \A op \in enqueued \ dupMap :
          (op[1] <= lastPid \/ op[1] \in gapPidSet) => Settled(op)
    /\ \A op, other \in enqueued :
          (Reporting(op) /\ other[1] = op[1] /\ other # op /\ other \notin dupMap)
              => Settled(other)
    /\ \A t \in Waiters : Waited(t)

\* Until finalizeMe is called no task is dropped.
Running ==
    finalPc = "running" =>
        /\ ~stopped
        /\ pendMap \subseteq enqPool
        /\ \A op \in db : ~Unstored(op)
        /\ \A op \in enqueued : Unstored(op) \/ Settled(op)
        /\ \A op \in dequeued :
              /\ op \in db => Deleting(op)
              /\ Unstored(op) => Deleting(op) \/ (Smart /\ op \in enqPool)

Inv == TypeOK /\ Ownership /\ Pending /\ Reported /\ Running
===============================================================================
