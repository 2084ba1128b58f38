------------------------------ MODULE AsyncStore ------------------------------
(***************************************************************************)
(* The path of a message through lib/BdbStoreProvider.cpp, over crashes    *)
(* and recoveries: enqueue and dequeue log an operation and hand it to a   *)
(* pool, store and async_dequeue carry it out on the database and log its  *)
(* completion, and recoverMessages rebuilds the broker's queues from the   *)
(* database and the two logs.                                              *)
(*                                                                         *)
(* A message is a number of Msgs; its operation <<p, q>> on queue q bears  *)
(* the persistence id p the store gave it, and after a recovery an id may  *)
(* be given again.  Each log is the set of its operations started and not  *)
(* completed, the contract that OperationLog is about; waitForPid is a     *)
(* guard and addPid one step, as PidTracker justifies.                     *)
(***************************************************************************)
EXTENDS PidRecord, Sequences, FiniteSetsExt

CONSTANTS
    MaxMsgs,        \* bound: messages the broker creates
    Queues,         \* persistence ids of the queues
    TransientMsgs,  \* the messages that are not persistent
    FanoutMsgs,     \* the messages enqueued on more than one queue
    Threads,        \* broker threads that may be in enqueue at a time
    Workers,        \* workers of enqueuePool
    FirstMax,       \* log entries looked up in the database (10 in the code)
    Smart,          \* the option enable_smart_async
    MaxCrashes      \* bound: crashes of the process

ASSUME Assumptions ==
    /\ MaxMsgs \in Nat /\ MaxMsgs < HalfInt /\ HalfInt \in Nat
    /\ Queues \subseteq Nat /\ Queues # {} /\ IsFiniteSet(Queues)
    /\ Threads \in Nat /\ Workers \in Nat /\ FirstMax \in Nat
    /\ Smart \in BOOLEAN
    /\ MaxCrashes \in Nat

Msgs == 1..MaxMsgs
NoMsg == 0
Ops == Msgs \X Queues       \* no id exceeds the number of messages
Pairs == Msgs \X Queues     \* <<m, q>>: message m on queue q

VARIABLES
    nextId,                     \* messageIdSequence
    lastPid, gapPidSet,         \* the tracker
    dupMap, pendMap,
    entering, leaving,          \* broker threads inside enqueue and dequeue
    enqPool, storing,           \* store() tasks in the pool, and on a worker
    deleting,                   \* async_dequeue() tasks
    pid, onQueue,               \* the broker: ids of messages, copies on queues
    db, enqLog, deqLog,         \* on disk: the messages and the pending operations
    mode, todo,                 \* the phase of recoverMessages, the queues it has left
    adset, aeset,               \* what it read from the logs
    discard,                    \* transientList and acceptedList of the journals
    closing,                    \* completions decodeAndRecoverMsg has still to log
    highestRid, localLastPid,
    stage,                      \* history: how far <<m, q>> has come
    victims,                    \* history: dropped for a dequeue of another message
    overtaken, reopened, interrupted, unlogged,     \* history: see Escaped
    crashes

ids == <<nextId, lastPid, gapPidSet, dupMap, pendMap>>
tasks == <<entering, leaving, enqPool, storing, deleting>>
broker == <<pid, onQueue>>
disk == <<db, enqLog, deqLog>>
recovery == <<todo, adset, aeset, discard, closing, highestRid, localLastPid>>
escapes == <<overtaken, reopened, interrupted, unlogged>>
vars == <<ids, tasks, broker, disk, mode, recovery, stage, victims, escapes, crashes>>

Stages == {"none", "sent", "acked", "asked", "done"}
Fresh == {m \in Msgs : \A q \in Queues : stage[<<m, q>>] = "none"}
Unasked == {w \in Pairs : stage[w] \in {"sent", "acked"}}
Pair(r) == <<r.msg, r.op[2]>>
OpsOf(R) == {r.op : r \in R}
On(R, q) == {r \in R : r.op[2] = q}
Persistent(R) == {r \in R : r.msg \notin TransientMsgs}
Without(R, O) == {r \in R : r.op \notin O}

Init ==
    /\ nextId = 1 /\ lastPid = 0 /\ gapPidSet = {}
    /\ dupMap = {} /\ pendMap = {}
    /\ entering = {} /\ leaving = {} /\ enqPool = <<>> /\ storing = {} /\ deleting = {}
    /\ pid = [m \in Msgs |-> 0] /\ onQueue = [w \in Pairs |-> 0]
    /\ db = {} /\ enqLog = {} /\ deqLog = {}
    /\ mode = "up" /\ todo = {}
    /\ adset = {} /\ aeset = {} /\ discard = {} /\ closing = <<>>
    /\ highestRid = 0 /\ localLastPid = 0
    /\ stage = [w \in Pairs |-> "none"]
    /\ victims = {} /\ overtaken = {} /\ reopened = {} /\ interrupted = {} /\ unlogged = {}
    /\ crashes = 0

-----------------------------------------------------------------------------
(***************************************************************************)
(* enqueue: an id, the start in the log, the task in the pool.             *)
(***************************************************************************)

EnqueueBegin(m, q, id) ==
    /\ mode = "up"
    /\ Cardinality(entering) < Threads
    /\ stage[<<m, q>>] = "none"
    /\ stage' = [stage EXCEPT ![<<m, q>>] = "sent"]
    /\ entering' = entering \union {[op |-> <<id, q>>, msg |-> m, at |-> "log"]}
    /\ UNCHANGED <<lastPid, gapPidSet, pendMap, leaving, enqPool, storing, deleting,
                   onQueue, disk, mode, recovery, victims, escapes, crashes>>

\* Messages are created in the order of their numbers.
EnqueueNew(m, q) ==
    /\ m \in Fresh /\ \A n \in Fresh : m <= n
    /\ nextId' = nextId + 1
    /\ pid' = [pid EXCEPT ![m] = nextId]
    /\ EnqueueBegin(m, q, nextId)
    /\ UNCHANGED dupMap

\* A message that has an id already: addDuplicate.
EnqueueAgain(m, q) ==
    /\ m \in FanoutMsgs
    /\ pid[m] # 0
    /\ dupMap' = dupMap \union {<<pid[m], q>>}
    /\ EnqueueBegin(m, q, pid[m])
    /\ UNCHANGED <<nextId, pid>>

EnqueueLog(e) ==
    /\ e \in entering /\ e.at = "log"
    /\ enqLog' = enqLog \union {[op |-> e.op, msg |-> e.msg]}
    /\ entering' = (entering \ {e}) \union {[e EXCEPT !.at = "schedule"]}
    /\ UNCHANGED <<ids, leaving, enqPool, storing, deleting, broker, db, deqLog, mode,
                   recovery, stage, victims, escapes, crashes>>

\* The broker is told, and puts the message on the queue.
EnqueueSchedule(e) ==
    /\ e \in entering /\ e.at = "schedule"
    /\ entering' = entering \ {e}
    /\ pendMap' = IF Smart THEN pendMap \union {e.op} ELSE pendMap
    /\ enqPool' = Append(enqPool, [op |-> e.op, msg |-> e.msg])
    /\ stage' = [stage EXCEPT ![Pair(e)] = "acked"]
    /\ onQueue' = [onQueue EXCEPT ![Pair(e)] = @ + 1]
    /\ UNCHANGED <<nextId, lastPid, gapPidSet, dupMap, leaving, storing, deleting, pid,
                   disk, mode, recovery, victims, escapes, crashes>>

-----------------------------------------------------------------------------
(***************************************************************************)
(* dequeue: dequeueCheck, then the start in the log and the task, or the   *)
(* completion of the enqueue that will not take place.                     *)
(***************************************************************************)

DequeueBegin(w) ==
    LET op == <<pid[w[1]], w[2]>>
    IN  /\ mode = "up"
        /\ onQueue[w] > 0
        /\ onQueue' = [onQueue EXCEPT ![w] = @ - 1]
        /\ stage' = [stage EXCEPT ![w] = IF @ = "done" THEN @ ELSE "asked"]
        /\ pendMap' = pendMap \ {op}
        /\ leaving' = leaving \union
              {[op |-> op, msg |-> w[1], exec |-> ~(Smart /\ op \in pendMap)]}
        /\ UNCHANGED <<nextId, lastPid, gapPidSet, dupMap, entering, enqPool, storing,
                       deleting, pid, disk, mode, recovery, victims, escapes, crashes>>

LogDequeueStart(op) == deqLog' = deqLog \union {op}
LogDequeueComplete(op) == deqLog' = deqLog \ {op}

\* Mutant: the start of the dequeue is not logged.
DequeueEndUnlogged(d) ==
    /\ d \in leaving
    /\ leaving' = leaving \ {d}
    /\ stage' = [stage EXCEPT ![Pair(d)] = "done"]
    /\ deleting' = deleting \union {[op |-> d.op, msg |-> d.msg, at |-> "wait"]}
    /\ UNCHANGED <<ids, entering, enqPool, storing, broker, disk, mode, recovery,
                   victims, escapes, crashes>>

DequeueEnd(d) ==
    /\ d \in leaving
    /\ leaving' = leaving \ {d}
    /\ stage' = [stage EXCEPT ![Pair(d)] = "done"]
    /\ IF d.exec
       THEN /\ LogDequeueStart(d.op)
            /\ deleting' = deleting \union {[op |-> d.op, msg |-> d.msg, at |-> "wait"]}
            /\ UNCHANGED enqLog
       ELSE /\ enqLog' = Without(enqLog, {d.op})
            /\ UNCHANGED <<deqLog, deleting>>
    /\ UNCHANGED <<ids, entering, enqPool, storing, broker, db, mode, recovery,
                   victims, escapes, crashes>>

-----------------------------------------------------------------------------
(***************************************************************************)
(* store(): enqueueCheck, the insertion, the completion, addPid.           *)
(***************************************************************************)

StoreGoto(t, at) == storing' = (storing \ {t}) \union {[t EXCEPT !.at = at]}

\* Mutant: the completion is logged when the worker takes the task.
TakeStoreLogsFirst ==
    /\ enqPool # <<>>
    /\ Cardinality(storing) < Workers
    /\ LET t == Head(enqPool)
       IN  /\ storing' = storing \union {[op |-> t.op, msg |-> t.msg, at |-> "put"]}
           /\ pendMap' = pendMap \ {t.op}
           /\ enqLog' = Without(enqLog, {t.op})
    /\ enqPool' = Tail(enqPool)
    /\ UNCHANGED <<nextId, lastPid, gapPidSet, dupMap, entering, leaving, deleting, broker,
                   db, deqLog, mode, recovery, stage, victims, escapes, crashes>>

\* Mutant: the answer of enqueueCheck is ignored.
TakeStoreUnchecked ==
    /\ enqPool # <<>>
    /\ Cardinality(storing) < Workers
    /\ LET t == Head(enqPool)
       IN  /\ storing' = storing \union {[op |-> t.op, msg |-> t.msg, at |-> "put"]}
           /\ pendMap' = pendMap \ {t.op}
    /\ enqPool' = Tail(enqPool)
    /\ UNCHANGED <<nextId, lastPid, gapPidSet, dupMap, entering, leaving, deleting, broker,
                   disk, mode, recovery, stage, victims, escapes, crashes>>

TakeStore ==
    /\ enqPool # <<>>
    /\ Cardinality(storing) < Workers
    /\ LET t == Head(enqPool)
           toExec == Smart => t.op \in pendMap
       IN  /\ storing' = storing \union
                 {[op |-> t.op, msg |-> t.msg, at |-> IF toExec THEN "put" ELSE "log"]}
           /\ pendMap' = pendMap \ {t.op}
    /\ enqPool' = Tail(enqPool)
    /\ UNCHANGED <<nextId, lastPid, gapPidSet, dupMap, entering, leaving, deleting, broker,
                   disk, mode, recovery, stage, victims, escapes, crashes>>

\* enqueue_data: DB_NOOVERWRITE, a key that is there keeps its value.
Put(t) ==
    /\ t \in storing /\ t.at = "put"
    /\ db' = IF t.op \in OpsOf(db) THEN db ELSE db \union {[op |-> t.op, msg |-> t.msg]}
    /\ StoreGoto(t, "log")
    /\ UNCHANGED <<ids, entering, leaving, enqPool, deleting, broker, enqLog, deqLog, mode,
                   recovery, stage, victims, escapes, crashes>>

\* Mutant: the completion is logged for the message on every queue.
StoreLogAllQueues(t) ==
    /\ t \in storing /\ t.at = "log"
    /\ enqLog' = {e \in enqLog : e.op[1] # t.op[1]}
    /\ StoreGoto(t, "add")
    /\ UNCHANGED <<ids, entering, leaving, enqPool, deleting, broker, db, deqLog, mode,
                   recovery, stage, victims, escapes, crashes>>

StoreLog(t) ==
    /\ t \in storing /\ t.at = "log"
    /\ enqLog' = Without(enqLog, {t.op})
    /\ StoreGoto(t, "add")
    /\ UNCHANGED <<ids, entering, leaving, enqPool, deleting, broker, db, deqLog, mode,
                   recovery, stage, victims, escapes, crashes>>

\* Mutant: an id that is reported out of order is not kept.
StoreAddNoGap(t) ==
    /\ t \in storing /\ t.at = "add"
    /\ storing' = storing \ {t}
    /\ dupMap' = dupMap \ {t.op}
    /\ IF t.op \in dupMap
       THEN UNCHANGED lastPid
       ELSE lastPid' = AddPid(lastPid, gapPidSet, t.op[1]).last
    /\ UNCHANGED <<nextId, gapPidSet, pendMap, entering, leaving, enqPool, deleting, broker,
                   disk, mode, recovery, stage, victims, escapes, crashes>>

StoreAdd(t) ==
    /\ t \in storing /\ t.at = "add"
    /\ storing' = storing \ {t}
    /\ dupMap' = dupMap \ {t.op}
    /\ IF t.op \in dupMap
       THEN UNCHANGED <<lastPid, gapPidSet>>
       ELSE LET new == AddPid(lastPid, gapPidSet, t.op[1])
            IN  lastPid' = new.last /\ gapPidSet' = new.gap
    /\ UNCHANGED <<nextId, pendMap, entering, leaving, enqPool, deleting, broker, disk,
                   mode, recovery, stage, victims, escapes, crashes>>

-----------------------------------------------------------------------------
(***************************************************************************)
(* async_dequeue(): past waitForPid the deletion, then the completion.     *)
(***************************************************************************)

RemoveMsg(d) ==
    LET gone == {r \in db : r.op = d.op}
    IN  /\ d \in deleting /\ d.at = "wait"
        /\ d.op \notin dupMap /\ d.op[1] <= lastPid
        /\ db' = db \ gone
        /\ deleting' = (deleting \ {d}) \union {[d EXCEPT !.at = "log"]}
        /\ victims' = victims \union {Pair(r) : r \in {g \in gone : Pair(g) \in Unasked}}
        /\ overtaken' = overtaken \union
              {Pair(e) : e \in {e \in enqLog : e.op = d.op /\ Pair(e) \notin Unasked}}
        /\ UNCHANGED <<ids, entering, leaving, enqPool, storing, broker, enqLog, deqLog,
                       mode, recovery, stage, reopened, interrupted, unlogged, crashes>>

\* Mutant: the completion is logged for the message on every queue.
RemoveLogAllQueues(d) ==
    /\ d \in deleting /\ d.at = "log"
    /\ deqLog' = {op \in deqLog : op[1] # d.op[1]}
    /\ deleting' = deleting \ {d}
    /\ UNCHANGED <<ids, entering, leaving, enqPool, storing, broker, db, enqLog, mode,
                   recovery, stage, victims, escapes, crashes>>

\* Mutant: the completion is not logged.
RemoveLogForgets(d) ==
    /\ d \in deleting /\ d.at = "log"
    /\ deleting' = deleting \ {d}
    /\ UNCHANGED <<ids, entering, leaving, enqPool, storing, broker, disk, mode,
                   recovery, stage, victims, escapes, crashes>>

RemoveLog(d) ==
    /\ d \in deleting /\ d.at = "log"
    /\ LogDequeueComplete(d.op)
    /\ deleting' = deleting \ {d}
    /\ unlogged' = unlogged \union
          {Pair(o) : o \in {o \in deleting \ {d} : o.op = d.op /\ o.msg # NoMsg}}
    /\ UNCHANGED <<ids, entering, leaving, enqPool, storing, broker, db, enqLog, mode,
                   recovery, stage, victims, overtaken, reopened, interrupted, crashes>>

-----------------------------------------------------------------------------
(***************************************************************************)
(* A crash of the process, and recoverMessages in the next one.            *)
(***************************************************************************)

\* Dequeued messages that the next recovery finds in the database and takes
\* for messages still on their queue, because recovery has, or will have,
\* logged their dequeue as complete without deleting them.
Reopening == {Pair(r) : r \in {r \in db : r \in enqLog /\ r.op \in deqLog}}
Interrupting == {Pair(r) : r \in {r \in db : r.op \in discard}}

Crash ==
    /\ crashes < MaxCrashes
    /\ crashes' = crashes + 1
    /\ mode' = "read" /\ todo' = {}
    /\ nextId' = 1 /\ lastPid' = 0 /\ gapPidSet' = {} /\ dupMap' = {} /\ pendMap' = {}
    /\ entering' = {} /\ leaving' = {} /\ enqPool' = <<>> /\ storing' = {}
    /\ deleting' = {}
    /\ pid' = [m \in Msgs |-> 0] /\ onQueue' = [w \in Pairs |-> 0]
    /\ adset' = {} /\ aeset' = {} /\ discard' = {} /\ closing' = <<>>
    /\ highestRid' = 0 /\ localLastPid' = 0
    /\ reopened' = reopened \union Reopening
    /\ interrupted' = interrupted \union Interrupting
    /\ UNCHANGED <<disk, stage, victims, overtaken, unlogged>>

ReadLogs ==
    /\ mode = "read"
    /\ mode' = "recover" /\ todo' = Queues
    /\ adset' = deqLog /\ aeset' = enqLog
    /\ UNCHANGED <<ids, tasks, broker, disk, discard, closing, highestRid, localLastPid,
                   stage, victims, escapes, crashes>>

\* Pending enqueues whose dequeue is pending too, on whichever queue.
Useless == {e \in aeset : e.op \in adset}

\* The entries of q that are looked up in the database: FirstMax of them, the
\* smallest ids first.
Checked(q) ==
    LET mine == On(Persistent(aeset \ Useless), q)
    IN  {e \in mine : Cardinality({f \in mine : f.op[1] < e.op[1]}) < FirstMax}

\* Mutant: no entry is looked up.
AlreadyEnqueuedNever(q) == {}

AlreadyEnqueued(q) == {e \in Checked(q) : e.op \in OpsOf(db)}

\* Pending enqueues that are not recovered because the message is transient.
Transients == {e \in aeset \ Useless : e.msg \in TransientMsgs}

\* Pending enqueues of q that are added to the messages found in its journal.
FromLog(q) == On(Persistent(aeset \ Useless), q) \ AlreadyEnqueued(q)

\* Mutant: one more than the highest id.
MaxIdPast(R) == 1 + Max({0} \union {r.op[1] : r \in R})

MaxId(R) == Max({0} \union {r.op[1] : r \in R})

\* RFC 1982 comparison of 64-bit ids, which is that of numbers below 2^63.
Later(a, b) == Max({a, b})

\* The loop of recoverMessages over the queues.
NextQueue(q) ==
    /\ mode = "recover" /\ closing = <<>>
    /\ q \in todo
    /\ todo' = todo \ {q}

\* register_as_transient and register_as_accepted.
RegisterDiscards(transient, accepted) ==
    discard' = discard \union OpsOf(transient) \union OpsOf(accepted)

\* The mass completions at the end of decodeAndRecoverMsg.
Completions(accepted) ==
    << [log |-> "enq", ops |-> OpsOf(Transients)],
       [log |-> "deq", ops |-> OpsOf(accepted)],
       [log |-> "enq", ops |-> OpsOf(Useless)],
       [log |-> "deq", ops |-> OpsOf(Useless)] >>

\* decodeAndRecoverMsg for one queue.  What it logs at its end is in `closing'.
RecoverQueue(q) ==
    LET present == AlreadyEnqueued(q)
        fromLog == FromLog(q)
        fromDb == On(Persistent(db), q)
        accepted == {r \in fromDb : r.op \in adset \ OpsOf(Useless)}
        copies(w) == Cardinality({r \in fromDb \ accepted : Pair(r) = w})
                        + Cardinality({e \in fromLog : Pair(e) = w})
    IN  /\ NextQueue(q)
        /\ aeset' = aeset \ (Useless \union Transients \union present)
        /\ adset' = adset \ (OpsOf(Useless) \union OpsOf(accepted))
        /\ enqLog' = Without(enqLog, OpsOf(present))
        /\ closing' = Completions(accepted)
        /\ RegisterDiscards(On(db, q) \ fromDb, accepted)
        /\ localLastPid' = Later(localLastPid, MaxId(fromDb))
        /\ highestRid' = Later(highestRid, MaxId(fromDb \union fromLog))
        /\ onQueue' = [w \in Pairs |-> onQueue[w] + copies(w)]
        /\ pid' = [m \in Msgs |->
                      IF \E r \in (fromDb \ accepted) \union fromLog : r.msg = m
                      THEN (CHOOSE r \in fromDb \union fromLog : r.msg = m).op[1]
                      ELSE pid[m]]
        /\ victims' = victims \union
              {Pair(r) : r \in {r \in Persistent(Useless) \union accepted : Pair(r) \in Unasked}}
        /\ UNCHANGED <<ids, tasks, db, deqLog, mode, stage, escapes, crashes>>

\* log_mass_enqueue_complete and log_mass_dequeue_complete.
LogMass ==
    /\ closing # <<>>
    /\ closing' = Tail(closing)
    /\ LET c == Head(closing)
       IN  /\ enqLog' = IF c.log = "enq" THEN Without(enqLog, c.ops) ELSE enqLog
           /\ deqLog' = IF c.log = "deq" THEN deqLog \ c.ops ELSE deqLog
    /\ UNCHANGED <<ids, tasks, broker, db, mode, todo, adset, aeset, discard, highestRid,
                   localLastPid, stage, victims, escapes, crashes>>

\* All queues are done, and the journals discard what was registered.
Discarding == mode = "recover" /\ todo = {} /\ closing = <<>>

\* discard_transient_message and discard_accepted_message, one deletion.
Discard(op) ==
    /\ Discarding
    /\ op \in discard
    /\ db' = Without(db, {op})
    /\ discard' = discard \ {op}
    /\ UNCHANGED <<ids, tasks, broker, enqLog, deqLog, mode, todo, adset, aeset, closing,
                   highestRid, localLastPid, stage, victims, escapes, crashes>>

\* The rest of recoverMessages: ids start above what was found, the tracker
\* at the highest id in the database, and the pending operations are resumed.
Resurrect ==
    LET left == aeset \ Useless
        before(r, s) == \/ r.op[2] < s.op[2]
                        \/ r.op[2] = s.op[2] /\ r.op[1] < s.op[1]
        n == Cardinality(left)
    IN  /\ Discarding /\ discard = {}
        /\ mode' = "up"
        /\ nextId' = highestRid + 1
        /\ lastPid' = localLastPid /\ gapPidSet' = {}
        /\ pendMap' = IF Smart THEN OpsOf(left) ELSE {}
        /\ \E s \in [1..n -> left] :
              /\ Range(s) = left /\ \A i, j \in 1..n : i < j => before(s[i], s[j])
              /\ enqPool' = s
        /\ deleting' = {[op |-> op, msg |-> NoMsg, at |-> "wait"] :
                           op \in adset \ OpsOf(Useless)}
        /\ enqLog' = Without(enqLog, OpsOf(Useless))
        /\ deqLog' = deqLog \ OpsOf(Useless)
        /\ adset' = {} /\ aeset' = {}
        /\ UNCHANGED <<dupMap, entering, leaving, storing, broker, db, todo, discard,
                       closing, highestRid, localLastPid, stage, victims, escapes, crashes>>

-----------------------------------------------------------------------------
Broker ==
    \/ \E m \in Msgs, q \in Queues : EnqueueNew(m, q) \/ EnqueueAgain(m, q)
    \/ \E w \in Pairs : DequeueBegin(w)

\* What a call or a task that has begun goes on to do.
Progress ==
    \/ \E e \in entering : EnqueueLog(e) \/ EnqueueSchedule(e)
    \/ \E d \in leaving : DequeueEnd(d)
    \/ TakeStore
    \/ \E t \in storing : Put(t) \/ StoreLog(t) \/ StoreAdd(t)
    \/ \E d \in deleting : RemoveMsg(d) \/ RemoveLog(d)

Recover ==
    \/ ReadLogs \/ LogMass \/ Resurrect
    \/ \E q \in Queues : RecoverQueue(q)
    \/ \E op \in discard : Discard(op)

Next == Broker \/ Progress \/ Recover \/ Crash

Spec == Init /\ [][Next]_vars

(***************************************************************************)
(* Calls that have begun, pool tasks and the recovery go on for as long as *)
(* one of them can: every such step uses up part of a finite amount of     *)
(* work, so weak fairness of their disjunction starves nobody.             *)
(***************************************************************************)
FairSpec == Spec /\ WF_vars(Progress \/ Recover)

-----------------------------------------------------------------------------
Tasks == [op : Ops, msg : Msgs]

TypeOK ==
    /\ nextId \in 1..(MaxMsgs + 1) /\ lastPid \in 0..MaxMsgs /\ gapPidSet \subseteq Msgs
    /\ dupMap \subseteq Ops /\ pendMap \subseteq Ops
    /\ entering \subseteq [op : Ops, msg : Msgs, at : {"log", "schedule"}]
    /\ leaving \subseteq [op : Ops, msg : Msgs, exec : BOOLEAN]
    /\ enqPool \in Seq(Tasks)
    /\ storing \subseteq [op : Ops, msg : Msgs, at : {"put", "log", "add"}]
    /\ deleting \subseteq [op : Ops, msg : Msgs \union {NoMsg}, at : {"wait", "log"}]
    /\ pid \in [Msgs -> 0..MaxMsgs] /\ onQueue \in [Pairs -> Nat]
    /\ db \subseteq Tasks /\ enqLog \subseteq Tasks /\ deqLog \subseteq Ops
    /\ mode \in {"up", "read", "recover"} /\ todo \subseteq Queues
    /\ adset \subseteq Ops /\ aeset \subseteq Tasks /\ discard \subseteq Ops
    /\ closing \in Seq([log : {"enq", "deq"}, ops : SUBSET Ops])
    /\ highestRid \in 0..MaxMsgs /\ localLastPid \in 0..MaxMsgs
    /\ stage \in [Pairs -> Stages]
    /\ UNION {victims, overtaken, reopened, interrupted, unlogged} \subseteq Pairs
    /\ crashes \in 0..MaxCrashes

Copies(w) == {r \in db \union enqLog : Pair(r) = w}

(***************************************************************************)
(* A persistent message whose enqueue has returned and whose dequeue was   *)
(* not asked for is on its queue whenever the broker is up, and is in the  *)
(* database or in the enqueue log, over any number of crashes at any       *)
(* point: enqueue logs before it returns, store inserts before it logs the *)
(* completion, recoverMessages drops nothing.  The exception is `victims': *)
(* a message dropped by a dequeue of an earlier message with the same id.  *)
(***************************************************************************)
NoLoss ==
    mode = "up" =>
        \A w \in Pairs :
            (stage[w] = "acked" /\ w[1] \notin TransientMsgs /\ w \notin victims)
                => onQueue[w] > 0 /\ Copies(w) # {}

(***************************************************************************)
(* The four ways a message whose dequeue has returned comes back: its      *)
(* deletion went before its insertion (overtaken); a crash found both its  *)
(* operations pending and the message already inserted (reopened);         *)
(* recovery crashed after logging the dequeue as complete and before       *)
(* deleting the message (interrupted); the dequeue of an earlier message   *)
(* with the same id and queue, resumed after a crash, logged its           *)
(* completion while this deletion was pending, which closed both           *)
(* (unlogged).                                                             *)
(***************************************************************************)
Escaped == overtaken \union reopened \union interrupted \union unlogged

(***************************************************************************)
(* Apart from those, no message comes back after its dequeue returned,     *)
(* whatever the crashes: dequeue logs before it returns, async_dequeue     *)
(* deletes before it logs the completion.                                  *)
(***************************************************************************)
NotRedelivered ==
    \A w \in Pairs : (stage[w] = "done" /\ onQueue[w] > 0) => w \in Escaped

(***************************************************************************)
(* A message is never on a queue twice after a recovery, although it may   *)
(* be found both in the database and in the log: looking up FirstMax       *)
(* entries is enough when that many stores cannot be under way.            *)
(***************************************************************************)
OnceOnQueue == \A w \in Pairs : onQueue[w] <= 1

Idle ==
    /\ mode = "up"
    /\ UNION {entering, leaving, storing, deleting} = {} /\ enqPool = <<>>

(***************************************************************************)
(* When every task has run, also the resumed ones, nothing is pending in   *)
(* either log and the database holds exactly the messages on the queues,   *)
(* victims and escaped messages aside.                                     *)
(***************************************************************************)
IdleExact ==
    Idle =>
        /\ enqLog = {} /\ deqLog = {}
        /\ \A w \in Pairs \ (victims \union Escaped) :
              (onQueue[w] > 0) = (\E r \in db : Pair(r) = w)

(***************************************************************************)
(* No message is dropped because of a dequeue it was not the subject of    *)
(* (messageIdSequence.reset, and the dequeues recoverMessages resumes).    *)
(***************************************************************************)
NoVictims == victims = {}

\* An id at or below n that no task will report: recovery left it out.
Unreported(n) ==
    \E id \in Msgs :
        /\ lastPid < id /\ id <= n
        /\ id \notin gapPidSet
        /\ \A t \in entering \union Range(enqPool) \union storing : t.op[1] # id

(***************************************************************************)
(* Every message whose dequeue returned is in the end out of the database, *)
(* unless it escaped, or a recovery has left a gap below its id: then      *)
(* waitForPid waits for an id nobody will report.                          *)
(***************************************************************************)
DequeueDeletes ==
    <>[](\A r \in db : stage[Pair(r)] = "done" =>
            \/ Pair(r) \in Escaped
            \/ crashes > 0 /\ Unreported(r.op[1]))
===============================================================================
