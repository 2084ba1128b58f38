---------------------------- MODULE StoreInvariant ----------------------------
(***************************************************************************)
(* The invariants of AsyncStore, for any messages, queues, threads,        *)
(* workers and crashes, each on top of the ones before: StoreInv, that     *)
(* nothing is lost; TaskInv, what the calls, the tasks and the logs have   *)
(* to do with each other; OnceInv and CountInv, that a message is on its   *)
(* queue once; Gone, that a dequeued one stays away; and IdleInv, what the *)
(* queues and the database have to do with each other.                     *)
(***************************************************************************)
EXTENDS AsyncStore

Scheduled == {enqPool[i] : i \in DOMAIN enqPool}
Working == entering \union Scheduled \union storing
Recs == db \union enqLog \union aeset \union Working \union leaving

\* Who says which message bears which id: records, tasks, calls and the broker.
Claims ==
    {<<r.op[1], r.msg>> : r \in Recs} \union {<<pid[m], m>> : m \in {n \in Msgs : pid[n] # 0}}

\* No two messages bear one id, and no id is given that is still in use.
Named ==
    /\ \A c, d \in Claims : c[1] = d[1] <=> c[2] = d[2]
    /\ \A c \in Claims : c[1] \in Msgs /\ c[2] \in Msgs \ Fresh /\ c[1] <= c[2]
    /\ mode = "up" =>
        /\ \A c \in Claims : pid[c[2]] # 0 /\ c[1] < nextId
        /\ \A m \in Fresh : nextId <= m

\* Messages are created in order, and what is known of one was sent.
Sent ==
    /\ \A m \in Fresh, n \in Msgs \ Fresh : n < m
    /\ \A r \in Recs : stage[Pair(r)] # "none"
    /\ \A w \in Pairs : onQueue[w] > 0 => pid[w[1]] # 0 /\ stage[w] # "none"

\* Only a process that is up has calls and tasks, only recovery its sets.
Phases ==
    /\ mode # "up" => Working = {} /\ leaving = {} /\ deleting = {} /\ enqPool = <<>>
    /\ mode # "recover" => aeset = {} /\ discard = {} /\ closing = <<>>
    /\ mode = "read" => highestRid = 0 /\ \A m \in Msgs : pid[m] = 0

\* The persistent messages that were not asked for and not dropped.
Owed == {w \in Unasked : w[1] \notin TransientMsgs /\ w \notin victims}

\* What is in the database, and what is there or in the log.
Stores == {Pair(r) : r \in db}
Covered == {Pair(r) : r \in db \union enqLog}

Kept ==
    \A w \in Owed : stage[w] = "acked" =>
        /\ w \in Covered
        /\ mode = "up" \/ (mode = "recover" /\ w[2] \notin todo) => onQueue[w] > 0

\* Calls: one enqueue of a message on a queue, which is not on it meanwhile.
Entered ==
    /\ \A e \in entering :
        /\ stage[Pair(e)] = "sent" /\ onQueue[Pair(e)] = 0
        /\ e.at = "schedule" /\ Pair(e) \in Owed => Pair(e) \in Covered
        /\ e.op \notin OpsOf(Scheduled)
    /\ \A e, f \in entering : Pair(e) = Pair(f) => e = f
    /\ \A d \in leaving : stage[Pair(d)] \in {"asked", "done"}

\* Tasks: what a store() is past inserting is in the database.
Stored ==
    /\ \A t \in storing : t.at # "put" /\ Pair(t) \in Owed => Pair(t) \in Stores
    /\ \A i, j \in DOMAIN enqPool : enqPool[i].op = enqPool[j].op => i = j
    /\ Smart => \A t \in Scheduled : t.op \in pendMap \/ Pair(t) \notin Owed

\* Recovery: what it has dropped, and what it has still to log or to delete.
Recovering ==
    mode = "recover" =>
        /\ \A r \in enqLog :
            /\ r \in aeset \/ \E i \in DOMAIN closing : closing[i].log = "enq" /\ r.op \in closing[i].ops
            /\ Pair(r) \in Owed => r \in aeset \/ Pair(r) \in Stores
            /\ \A i \in DOMAIN closing : closing[i].log = "enq" /\ r.op \in closing[i].ops =>
                   Pair(r) \notin Owed
        /\ \A r \in db : r.op \in discard => Pair(r) \notin Owed
        /\ todo # Queues => Useless = {} /\ Transients = {}

\* Recovery has found the ids of the queues it is done with.
Found ==
    mode = "recover" =>
        /\ \A r \in db : r.op[2] \notin todo =>
            r.op \in discard \/ (pid[r.msg] # 0 /\ r.op[1] <= highestRid)
        /\ \A r \in aeset : r.op[2] \notin todo => pid[r.msg] # 0 /\ r.op[1] <= highestRid
        /\ \A m \in Msgs : pid[m] <= highestRid
        /\ \A m \in Fresh : highestRid < m

StoreInv ==
    TypeOK /\ Named /\ Sent /\ Phases /\ Kept /\ Entered /\ Stored /\ Recovering /\ Found

\* Every record, task and call there is now repeats one there was before.
Moved == \A r \in Recs' : \E s \in Recs : s.op = r.op /\ s.msg = r.msg

SameNone == \A w \in Pairs : stage'[w] = "none" <=> stage[w] = "none"

-----------------------------------------------------------------------------
(***************************************************************************)
(* One task for each operation.                                            *)
(***************************************************************************)
Entry(t) == [op |-> t.op, msg |-> t.msg]

\* The tasks that will still insert their message, and the calls with them.
Inserting == {t \in Scheduled : Smart => t.op \in pendMap} \union {t \in storing : t.at = "put"}
ToPut == {e \in entering : e.at = "schedule"} \union Inserting

\* The calls and tasks that have still to log the completion of their enqueue.
Closers == {e \in entering : e.at = "schedule"} \union Scheduled \union {t \in storing : t.at # "add"}

\* One task for an operation, and enqueueCheck knows of those in the pool only.
Unique ==
    /\ \A s, t \in storing : s.op = t.op => s = t
    /\ \A t \in storing : \A x \in Scheduled \union entering : x.op # t.op
    /\ \A o \in pendMap : \E t \in Scheduled : t.op = o

\* What will be inserted is in the log, and what was called off is not inserted.
Logged == \A t \in ToPut : Entry(t) \in enqLog
CalledOff == \A d \in leaving : d.exec \/ \A t \in ToPut \union entering : t.op # d.op

\* A pending operation has a task that completes it.
Owned ==
    mode = "up" =>
        /\ \A e \in enqLog : \E t \in Closers : t.op = e.op
        /\ \A o \in deqLog : \E d \in deleting : d.op = o

\* Recovery: what it holds in memory against the logs, and the queues it has left.
Reread ==
    mode = "recover" =>
        /\ aeset \subseteq enqLog
        /\ \A i \in DOMAIN closing : closing[i].log = "enq" => \A e \in aeset : e.op \notin closing[i].ops
        /\ \A o \in deqLog : o \in adset \/ \E i \in DOMAIN closing : closing[i].log = "deq" /\ o \in closing[i].ops
        /\ \A o \in discard : o[2] \notin todo
        /\ \A w \in Pairs : w[2] \in todo => onQueue[w] = 0

TaskInv == Unique /\ Logged /\ CalledOff /\ Owned /\ Reread

\* Of calls, tasks and records, an operation tells message and queue, before and after a step.
SameOps == \A r, s \in Recs : r.op = s.op <=> Pair(r) = Pair(s)

\* What decodeAndRecoverMsg finds in the journal of q, drops of it for a dequeue, and puts back.
FromDb(q) == On(Persistent(db), q)

Accepted(q) == {r \in FromDb(q) : r.op \in adset \ OpsOf(Useless)}

Restoring(q) == (FromDb(q) \ Accepted(q)) \union FromLog(q)

PutBack(q, w) == Cardinality({r \in FromDb(q) \ Accepted(q) : Pair(r) = w})
                   + Cardinality({e \in FromLog(q) : Pair(e) = w})

-----------------------------------------------------------------------------
(***************************************************************************)
(* Once on its queue.  A message that is still to be inserted is not in    *)
(* the database; one that leaves its queue is not on it any more, and is   *)
(* not in the database either if its enqueue was called off; a pending     *)
(* enqueue that recovery has added to its queue was not found there.  The  *)
(* step that can break this is decodeAndRecoverMsg's: it adds a pending    *)
(* enqueue that it has not looked up.                                      *)
(***************************************************************************)
Waiting == Scheduled \union entering \union {t \in storing : t.at = "put"}

NotYet == \A t \in Waiting : \A r \in db : r.op # t.op

TakenOff == \A d \in leaving : onQueue[Pair(d)] = 0 /\ (d.exec \/ \A r \in db : r.op # d.op)

Missing == mode = "recover" => \A e \in aeset : e.op[2] \notin todo => \A r \in db : r.op # e.op

OnceInv == OnceOnQueue /\ NotYet /\ TakenOff /\ Missing

\* No pending enqueue that is added to queue q is in the database.
LookedUp(q) == \A e \in FromLog(q) : \A r \in db : r.op # e.op

-----------------------------------------------------------------------------
(***************************************************************************)
(* How many entries of a queue with smaller ids the enqueue log can hold   *)
(* beside one whose message is in the database.  An entry that comes into  *)
(* the pool behind another one of its queue with a greater id was in       *)
(* enqueue when that one was scheduled: there are fewer of these than      *)
(* threads, and fewer of those on a worker than workers.                   *)
(***************************************************************************)
Late(r, R) == {s \in R : s.op[2] = r.op[2] /\ s.op[1] < r.op[1]}

Entries(X) == {Entry(x) : x \in X}

Behind(i) == Entries(entering) \union {enqPool[j] : j \in {k \in DOMAIN enqPool : k > i}}

Counted ==
    /\ IsFiniteSet(entering) /\ Cardinality(entering) <= Threads
    /\ IsFiniteSet(storing) /\ Cardinality(storing) <= Workers

Overtakers ==
    /\ \A i \in DOMAIN enqPool : Cardinality(Late(enqPool[i], Behind(i))) < Threads
    /\ \A t \in storing : Cardinality(Late(t, Behind(0))) < Threads

FewLate ==
    mode # "up" =>
        \A e \in enqLog : (\E r \in db : r.op = e.op) => Cardinality(Late(e, enqLog)) < FirstMax

CountInv == Counted /\ Overtakers /\ FewLate

\* No message is on two queues, and there are not more threads and workers than entries are looked up.
LookupSuffices == FanoutMsgs = {} /\ Threads # 0 /\ Threads + Workers <= FirstMax + 1

-----------------------------------------------------------------------------
(***************************************************************************)
(* Dequeued for good.  While the broker runs, a message whose dequeue has  *)
(* returned is on no queue, and where the database or the enqueue log      *)
(* still hold it, its dequeue is in the log and its deletion under way.    *)
(* What is left of it then tells recovery not to put it back, and keeps    *)
(* telling it until it is deleted.                                         *)
(***************************************************************************)
Pursued(r) == \E d \in deleting : d.at = "wait" /\ d.op = r.op /\ d.msg = r.msg

GoneUp(w) ==
    /\ onQueue[w] = 0
    /\ \A r \in db \union enqLog : Pair(r) = w => r.op \in deqLog /\ Pursued(r)

GoneRead(w) ==
    /\ \A r \in db : Pair(r) = w => r.op \in deqLog /\ r \notin enqLog
    /\ \A e \in enqLog : Pair(e) = w => e.op \in deqLog

\* A record of the database that is still to be found, or is to be discarded.
GoneRecord(r) ==
    \/ r.op \in discard
    \/ /\ r.op[2] \in todo /\ r.op \in deqLog /\ r.op \in adset /\ r \notin enqLog
       /\ \A i \in DOMAIN closing : closing[i].log = "deq" => r.op \notin closing[i].ops

\* An entry of the enqueue log: its completion is logged before that of its dequeue.
GoneEntry(e) ==
    /\ e.op \in deqLog
    /\ e \in aeset => e.op \in adset
    /\ \A i \in DOMAIN closing : closing[i].log = "deq" /\ e.op \in closing[i].ops =>
          \E j \in DOMAIN closing : j < i /\ closing[j].log = "enq" /\ e.op \in closing[j].ops

GoneRecover(w) ==
    /\ onQueue[w] = 0
    /\ \A r \in db : Pair(r) = w => GoneRecord(r)
    /\ \A e \in enqLog : Pair(e) = w => GoneEntry(e)

Settled(w) == stage[w] = "done" /\ w \notin Escaped

Gone ==
    \A w \in Pairs : Settled(w) =>
        /\ mode = "up" => GoneUp(w)
        /\ mode = "read" => GoneRead(w)
        /\ mode = "recover" => GoneRecover(w)

-----------------------------------------------------------------------------
(***************************************************************************)
(* The queues against the database.  While the broker runs, what is in the *)
(* database or will be inserted is on its queue, or is being dequeued, or  *)
(* is under deletion; and what is on a queue is in the database or will be *)
(* inserted.  An operation under deletion is that of a dequeued message,   *)
(* or one that recovery resumed: then a message with its id that is on the *)
(* queue was enqueued after recovery and not asked for.                    *)
(***************************************************************************)
Leaves(r) == \E d \in leaving : d.exec /\ Pair(d) = Pair(r)

Aside == victims \union Escaped

Held ==
    mode = "up" => \A r \in db \union Inserting :
        onQueue[Pair(r)] > 0 \/ Leaves(r) \/ Pursued(r) \/ Pair(r) \in Aside

Backed ==
    mode = "up" => \A w \in Pairs \ Aside : onQueue[w] > 0 =>
        \E r \in db \union Inserting : Pair(r) = w

Strangers ==
    \A d \in deleting :
        /\ d.msg = NoMsg /\ d.at = "wait" =>
              \A w \in Pairs : onQueue[w] > 0 /\ <<pid[w[1]], w[2]>> = d.op => w \in Unasked
        /\ d.msg # NoMsg => pid[d.msg] = d.op[1] /\ stage[Pair(d)] = "done"

\* Recovery: the queues it is done with, against what it keeps.
Restored ==
    mode = "recover" =>
        /\ \A r \in db : r.op[2] \notin todo => r.op \in discard \/ onQueue[Pair(r)] > 0
        /\ \A e \in aeset : e.op[2] \notin todo => onQueue[Pair(e)] > 0
        /\ \A w \in Pairs : onQueue[w] > 0 =>
              \E r \in db \union aeset : Pair(r) = w /\ r.op \notin discard \union adset

IdleInv == Held /\ Backed /\ Strangers /\ Restored
===============================================================================
