------------------------------ MODULE StoreGone -------------------------------
(***************************************************************************)
(* Proofs about AsyncStore beyond StoreOnce: Gone, that a dequeue which    *)
(* returned is in the database or in the logs, and NotRedelivered, which   *)
(* follows; IdleInv, that what is on a queue is in the database or about to *)
(* be, and the other way round, and IdleExact, which follows.              *)
(***************************************************************************)
EXTENDS StoreOnce

\* Before recovery reads the logs no message is on a queue.
LEMMA ReadEmpty ==
    ASSUME StoreInv, mode = "read", NEW w \in Pairs
    PROVE  onQueue[w] = 0
<1>1. \A m \in Msgs : pid[m] = 0
  BY Zenon DEF StoreInv, Phases
<1>2. w[1] \in Msgs
  BY DEF Pairs
<1>3. ~(onQueue[w] > 0)
  BY <1>1, <1>2, Zenon DEF StoreInv, Sent
<1>4. onQueue[w] \in Nat
  BY Zenon DEF StoreInv, TypeOK
<1> QED
  BY <1>3, <1>4

\* At the start no message was dequeued.
LEMMA InitGone ==
    ASSUME Init
    PROVE  Gone
<1>1. stage = [w \in Pairs |-> "none"]
  BY Zenon DEF Init
<1>2. "none" # "done"
  OBVIOUS
<1> QED
  BY <1>1, <1>2, Zenon DEF Gone, Settled

\* Each step of the store and the broker.
LEMMA GoneStep ==
    ASSUME StoreInv, TaskInv, OnceInv, Gone, [Next]_vars
    PROVE  Gone'
\* A step that leaves the broker running, and a message that was settled before it.
<1>GoneFrame.
    ASSUME NEW w \in Pairs, GoneUp(w), onQueue'[w] = onQueue[w],
           \A r \in db' \union enqLog' : Pair(r) = w => r \in db \union enqLog,
           \A o \in deqLog : o \in deqLog', deleting \subseteq deleting'
    PROVE  GoneUp(w)'
  <2> USE <1>GoneFrame
  <2>1. ASSUME NEW r \in db' \union enqLog', Pair(r) = w PROVE r.op \in deqLog' /\ Pursued(r)'
    <3>1. r.op \in deqLog /\ Pursued(r)
      BY <2>1, Zenon DEF GoneUp
    <3> QED
      BY <3>1, Zenon DEF Pursued
  <2> QED
    BY <2>1, Zenon DEF GoneUp, Pair

\* A call of enqueue is for a message that was not dequeued.
<1>EnqueueGone.
    ASSUME NEW e, NEW m \in Msgs, NEW q \in Queues, NEW id,
           EnqueueBegin(m, q, id) \/ (e \in entering /\ (EnqueueLog(e) \/ EnqueueSchedule(e)))
    PROVE  Gone'
  <2> USE <1>EnqueueGone
  <2>1. TypeOK /\ Phases /\ Entered
    BY Zenon DEF StoreInv
  <2>2. PICK v \in Pairs : /\ stage' = stage \/ (stage'[v] # "done" /\ \A w \in Pairs : w # v => stage'[w] = stage[w])
                           /\ \A w \in Pairs : w # v => onQueue'[w] = onQueue[w]
                           /\ stage[v] # "done" /\ (e \in entering => Pair(e) = v \/ db' \union enqLog' = db \union enqLog)
                           /\ \A r \in db' \union enqLog' : Pair(r) = v \/ r \in db \union enqLog
    <3>1. stage \in [Pairs -> Stages] /\ onQueue \in [Pairs -> Nat]
      BY <2>1, Zenon DEF TypeOK
    <3>2. CASE EnqueueBegin(m, q, id)
      <4>1. PICK v : v = <<m, q>>
        BY Zenon
      <4>2. v \in Pairs
        BY <4>1, Zenon DEF Pairs
      <4>3. /\ stage' = [stage EXCEPT ![v] = "sent"] /\ onQueue' = onQueue /\ UNCHANGED disk /\ stage[v] = "none"
        BY <3>2, <4>1, Zenon DEF EnqueueBegin
      <4>4. "sent" # "done" /\ "none" # "done"
        OBVIOUS
      <4>5. stage'[v] = "sent" /\ \A w \in Pairs : w # v => stage'[w] = stage[w]
        BY <3>1, <4>2, <4>3, Zenon
      <4>6. db' \union enqLog' = db \union enqLog
        BY <4>3, Zenon DEF disk
      <4> QED
        BY <4>2, <4>3, <4>4, <4>5, <4>6, Zenon
    <3>3. CASE e \in entering /\ EnqueueLog(e)
      <4>1. /\ stage' = stage /\ onQueue' = onQueue /\ db' = db /\ enqLog' = enqLog \union {Entry(e)}
        BY <3>3, Zenon DEF EnqueueLog, Entry, broker
      <4>2. Pair(Entry(e)) = Pair(e) /\ "sent" # "done"
        BY DEF Entry, Pair
      <4>3. Pair(e) \in Pairs /\ stage[Pair(e)] = "sent"
        BY <2>1, <3>3, RecsTyped, Zenon DEF Recs, Working, Entered
      <4> QED
        BY <4>1, <4>2, <4>3, Zenon
    <3>4. CASE e \in entering /\ EnqueueSchedule(e)
      <4>1. Pair(e) \in Pairs /\ stage[Pair(e)] = "sent" /\ "sent" # "done" /\ "acked" # "done"
        <5>1. Pair(e) \in Pairs /\ stage[Pair(e)] = "sent"
          BY <2>1, <3>4, RecsTyped, Zenon DEF Recs, Working, Entered
        <5> QED
          BY <5>1
      <4>2. /\ stage' = [stage EXCEPT ![Pair(e)] = "acked"] /\ onQueue' = [onQueue EXCEPT ![Pair(e)] = @ + 1]
            /\ UNCHANGED disk
        BY <3>4, Zenon DEF EnqueueSchedule
      <4>3. /\ stage'[Pair(e)] = "acked" /\ \A w \in Pairs : w # Pair(e) => stage'[w] = stage[w] /\ onQueue'[w] = onQueue[w]
        BY <3>1, <4>1, <4>2, Zenon
      <4>4. db' \union enqLog' = db \union enqLog
        BY <4>2, Zenon DEF disk
      <4> QED
        BY <4>1, <4>3, <4>4, Zenon
    <3> QED
      BY <3>2, <3>3, <3>4, Zenon
  <2>3. mode = "up" /\ UNCHANGED <<mode, deqLog, deleting, escapes>>
    BY <2>1, Zenon DEF EnqueueBegin, EnqueueLog, EnqueueSchedule, Phases, Working, disk
  <2>4. mode # "read" /\ mode # "recover"
    BY <2>3
  <2>5. ASSUME NEW w \in Pairs, Settled(w)' PROVE GoneUp(w)'
    <3>1. w # v /\ Settled(w)
      BY <2>2, <2>3, <2>5, Zenon DEF Settled, Escaped, escapes
    <3>2. GoneUp(w)
      BY <2>3, <3>1, Zenon DEF Gone
    <3>3. onQueue'[w] = onQueue[w]
      BY <2>2, <3>1, Zenon
    <3>4. \A r \in db' \union enqLog' : Pair(r) = w => r \in db \union enqLog
      BY <2>2, <3>1, Zenon
    <3>5. (\A o \in deqLog : o \in deqLog') /\ deleting \subseteq deleting'
      BY <2>3, Zenon
    <3> QED
      BY <3>2, <3>3, <3>4, <3>5, <1>GoneFrame, Zenon
  <2> QED
    BY <2>3, <2>4, <2>5, Zenon DEF Gone

\* A message that is asked for is on its queue, and so was not settled.
<1>DequeueBeginGone.
    ASSUME NEW v \in Pairs, DequeueBegin(v)
    PROVE  Gone'
  <2> USE <1>DequeueBeginGone
  <2>1. TypeOK
    BY Zenon DEF StoreInv
  <2>2. /\ mode = "up" /\ onQueue[v] > 0 /\ onQueue' = [onQueue EXCEPT ![v] = @ - 1]
        /\ stage' = [stage EXCEPT ![v] = IF @ = "done" THEN @ ELSE "asked"]
        /\ UNCHANGED <<mode, disk, deleting, escapes>>
    BY Zenon DEF DequeueBegin
  <2>3. mode # "read" /\ mode # "recover" /\ "asked" # "done"
    BY <2>2
  <2>4. \A w \in Pairs : w # v => stage'[w] = stage[w] /\ onQueue'[w] = onQueue[w]
    BY <2>1, <2>2, Zenon DEF TypeOK
  <2>5. stage'[v] = "done" => stage[v] = "done"
    <3>1. stage'[v] = IF stage[v] = "done" THEN stage[v] ELSE "asked"
      BY <2>1, <2>2, Zenon DEF TypeOK
    <3> QED
      BY <3>1
  <2>6. ASSUME NEW w \in Pairs, Settled(w)' PROVE GoneUp(w)'
    <3>1. Settled(w)
      BY <2>2, <2>4, <2>5, <2>6, Zenon DEF Settled, Escaped, escapes
    <3>2. GoneUp(w)
      BY <2>2, <3>1, Zenon DEF Gone
    <3>3. w # v
      <4>1. onQueue[w] = 0
        BY <3>2, Zenon DEF GoneUp
      <4> QED
        BY <2>2, <4>1
    <3>4. onQueue'[w] = onQueue[w]
      BY <2>4, <3>3, Zenon
    <3> QED
      BY <2>2, <3>2, <3>4, <1>GoneFrame, Zenon DEF disk
  <2> QED
    BY <2>2, <2>3, <2>6, Zenon DEF Gone

\* The end of dequeue: what is left of the message is logged as dequeued and
\* its deletion scheduled, or, where its enqueue was called off, nothing is left.
<1>DequeueEndGone.
    ASSUME NEW d \in leaving, DequeueEnd(d)
    PROVE  Gone'
  <2> USE <1>DequeueEndGone
  <2>1. TypeOK /\ Named /\ Phases /\ TakenOff
    BY Zenon DEF StoreInv, OnceInv
  <2>2. /\ stage' = [stage EXCEPT ![Pair(d)] = "done"]
        /\ UNCHANGED <<onQueue, db, mode, escapes>>
        /\ d.exec => /\ deqLog' = deqLog \union {d.op} /\ enqLog' = enqLog
                     /\ deleting' = deleting \union {[op |-> d.op, msg |-> d.msg, at |-> "wait"]}
        /\ ~d.exec => enqLog' = Without(enqLog, {d.op}) /\ UNCHANGED <<deqLog, deleting>>
    BY Zenon DEF DequeueEnd, LogDequeueStart, broker
  <2>3. mode = "up"
    BY <2>1, Zenon DEF Phases
  <2>4. mode # "read" /\ mode # "recover"
    BY <2>3
  <2>5. (\A o \in deqLog : o \in deqLog') /\ deleting \subseteq deleting' /\ enqLog' \subseteq enqLog
    BY <2>2, Zenon DEF Without
  <2>6. ASSUME NEW w \in Pairs, Settled(w)', w # Pair(d) PROVE GoneUp(w)'
    <3>1. Settled(w)
      BY <2>1, <2>2, <2>6, Zenon DEF Settled, Escaped, escapes, TypeOK
    <3>2. GoneUp(w)
      BY <2>3, <3>1, Zenon DEF Gone
    <3>3. \A r \in db' \union enqLog' : Pair(r) = w => r \in db \union enqLog
      BY <2>2, <2>5, Zenon
    <3> QED
      BY <2>2, <2>5, <3>2, <3>3, <1>GoneFrame, Zenon
  <2>7. ASSUME NEW r \in db' \union enqLog', Pair(r) = Pair(d) PROVE r.op \in deqLog' /\ Pursued(r)'
    <3>1. r \in db \union enqLog
      BY <2>2, <2>5, Zenon
    <3>2. r.op = d.op /\ r.msg = d.msg
      <4>1. SameOps
        BY <2>1, SameOpsNow, Zenon
      <4>2. r.op = d.op
        BY <2>7, <3>1, <4>1, Zenon DEF SameOps, Recs
      <4> QED
        BY <2>7, <4>2 DEF Pair
    <3>3. CASE d.exec
      <4>1. PICK c : c = [op |-> d.op, msg |-> d.msg, at |-> "wait"]
        BY Zenon
      <4>2. c.op = r.op /\ c.msg = r.msg /\ c.at = "wait"
        BY <3>2, <4>1
      <4>3. c \in deleting' /\ r.op \in deqLog'
        BY <2>2, <3>2, <3>3, <4>1, Zenon
      <4> QED
        BY <4>2, <4>3, Zenon DEF Pursued
    <3>4. CASE ~d.exec
      <4>1. r \notin db
        BY <2>1, <3>2, <3>4, Zenon DEF TakenOff
      <4>2. r \notin enqLog'
        BY <2>2, <3>2, <3>4, Zenon DEF Without
      <4> QED
        BY <2>2, <4>1, <4>2, Zenon
    <3> QED
      BY <3>3, <3>4, Zenon
  <2>8. GoneUp(Pair(d))'
    <3>1. onQueue'[Pair(d)] = 0
      BY <2>1, <2>2, Zenon DEF TakenOff
    <3>2. Pair(d)' = Pair(d)
      BY Zenon DEF Pair
    <3> QED
      BY <2>7, <3>1, <3>2, Zenon DEF GoneUp, Pair
  <2> QED
    <3>1. ASSUME NEW w \in Pairs, Settled(w)' PROVE GoneUp(w)'
      BY <2>6, <2>8, <3>1, Zenon
    <3> QED
      BY <2>2, <2>3, <2>4, <3>1, Zenon DEF Gone

\* The steps of a task that stores: what it inserts is in the log already.
<1>StoreGoneUp.
    ASSUME NEW t, TakeStore \/ (t \in storing /\ (Put(t) \/ StoreLog(t) \/ StoreAdd(t)))
    PROVE  Gone'
  <2> USE <1>StoreGoneUp
  <2>1. TypeOK /\ Phases /\ Logged
    BY Zenon DEF StoreInv, TaskInv
  <2>2. mode = "up"
    <3>1. CASE TakeStore
      BY <2>1, <3>1, Zenon DEF TakeStore, Phases
    <3>2. CASE t \in storing
      BY <2>1, <3>2, Zenon DEF Phases, Working
    <3> QED
      BY <3>1, <3>2, Zenon
  <2>3. UNCHANGED <<mode, stage, onQueue, deqLog, deleting, escapes>>
    BY Zenon DEF TakeStore, Put, StoreLog, StoreAdd, broker, disk
  <2>4. mode # "read" /\ mode # "recover"
    BY <2>2
  <2>5. \A r \in db' \union enqLog' : r \in db \union enqLog
    <3>1. CASE TakeStore \/ StoreAdd(t)
      BY <3>1, Zenon DEF TakeStore, StoreAdd, disk
    <3>2. CASE StoreLog(t)
      BY <3>2, Zenon DEF StoreLog, Without
    <3>3. CASE t \in storing /\ Put(t)
      <4>1. /\ db' = IF t.op \in OpsOf(db) THEN db ELSE db \union {Entry(t)}
            /\ enqLog' = enqLog /\ t \in ToPut
        BY <3>3, Zenon DEF Put, Entry, ToPut, Inserting
      <4>2. Entry(t) \in enqLog
        BY <2>1, <4>1, Zenon DEF Logged
      <4> QED
        BY <4>1, <4>2, Zenon
    <3> QED
      BY <3>1, <3>2, <3>3, Zenon
  <2>6. ASSUME NEW w \in Pairs, Settled(w)' PROVE GoneUp(w)'
    <3>1. Settled(w)
      BY <2>3, <2>6, Zenon DEF Settled, Escaped, escapes
    <3>2. GoneUp(w)
      BY <2>2, <3>1, Zenon DEF Gone
    <3> QED
      BY <2>3, <2>5, <3>2, <1>GoneFrame, Zenon
  <2> QED
    BY <2>2, <2>3, <2>4, <2>6, Zenon DEF Gone

\* The deletion: the message is out of the database, and where it is still in
\* the enqueue log the deletion has overtaken its insertion.
<1>RemoveMsgGone.
    ASSUME NEW d \in deleting, RemoveMsg(d)
    PROVE  Gone'
  <2> USE <1>RemoveMsgGone
  <2>1. TypeOK /\ Phases
    BY Zenon DEF StoreInv
  <2>2. /\ db' = db \ {r \in db : r.op = d.op} /\ d.at = "wait"
        /\ deleting' = (deleting \ {d}) \union {[d EXCEPT !.at = "log"]}
        /\ overtaken' = overtaken \union {Pair(e) : e \in {e \in enqLog : e.op = d.op /\ Pair(e) \notin Unasked}}
        /\ UNCHANGED <<mode, stage, onQueue, enqLog, deqLog, reopened, interrupted, unlogged>>
    BY Zenon DEF RemoveMsg, broker
  <2>3. mode = "up"
    BY <2>1, Zenon DEF Phases
  <2>4. mode # "read" /\ mode # "recover"
    BY <2>3
  <2>5. ASSUME NEW w \in Pairs, Settled(w)' PROVE GoneUp(w)'
    <3>1. Settled(w) /\ stage[w] = "done" /\ w \notin overtaken'
      BY <2>2, <2>5, Zenon DEF Settled, Escaped
    <3>2. GoneUp(w)
      BY <2>3, <3>1, Zenon DEF Gone
    <3>3. w \notin Unasked
      <4>1. stage[w] \notin {"sent", "acked"}
        BY <3>1
      <4> QED
        BY <4>1, Zenon DEF Unasked
    <3>4. ASSUME NEW r \in db' \union enqLog', Pair(r) = w PROVE r.op \in deqLog' /\ Pursued(r)'
      <4>1. r \in db \union enqLog /\ r.op # d.op
        BY <2>2, <3>1, <3>3, <3>4, Zenon
      <4>2. r.op \in deqLog /\ Pursued(r)
        BY <3>2, <3>4, <4>1, Zenon DEF GoneUp
      <4>3. PICK c \in deleting : c.at = "wait" /\ c.op = r.op /\ c.msg = r.msg
        BY <4>2, Zenon DEF Pursued
      <4>4. c \in deleting'
        BY <2>2, <4>1, <4>3, Zenon
      <4> QED
        BY <2>2, <4>2, <4>3, <4>4, Zenon DEF Pursued
    <3> QED
      BY <2>2, <3>2, <3>4, Zenon DEF GoneUp, Pair
  <2> QED
    BY <2>2, <2>3, <2>4, <2>5, Zenon DEF Gone

\* The completion of the deletion: another message under deletion by the same
\* operation is no longer protected by the log.
<1>RemoveLogGone.
    ASSUME NEW d \in deleting, RemoveLog(d)
    PROVE  Gone'
  <2> USE <1>RemoveLogGone
  <2>1. TypeOK /\ Phases
    BY Zenon DEF StoreInv
  <2>2. /\ deqLog' = deqLog \ {d.op} /\ d.at = "log" /\ deleting' = deleting \ {d}
        /\ unlogged' = unlogged \union {Pair(o) : o \in {o \in deleting \ {d} : o.op = d.op /\ o.msg # NoMsg}}
        /\ UNCHANGED <<mode, stage, onQueue, db, enqLog, overtaken, reopened, interrupted>>
    BY Zenon DEF RemoveLog, LogDequeueComplete, broker
  <2>3. mode = "up"
    BY <2>1, Zenon DEF Phases
  <2>4. mode # "read" /\ mode # "recover" /\ d.at # "wait"
    BY <2>2, <2>3
  <2>5. ASSUME NEW w \in Pairs, Settled(w)' PROVE GoneUp(w)'
    <3>1. Settled(w) /\ w \notin unlogged'
      BY <2>2, <2>5, Zenon DEF Settled, Escaped
    <3>2. GoneUp(w)
      BY <2>3, <3>1, Zenon DEF Gone
    <3>3. ASSUME NEW r \in db' \union enqLog', Pair(r) = w PROVE r.op \in deqLog' /\ Pursued(r)'
      <4>1. r \in db \union enqLog
        BY <2>2, Zenon
      <4>2. r.op \in deqLog /\ Pursued(r)
        BY <3>2, <3>3, <4>1, Zenon DEF GoneUp
      <4>3. PICK c \in deleting : c.at = "wait" /\ c.op = r.op /\ c.msg = r.msg
        BY <4>2, Zenon DEF Pursued
      <4>4. c \in deleting \ {d} /\ c \in deleting'
        BY <2>2, <2>4, <4>3, Zenon
      <4>5. c.msg # NoMsg
        <5>1. r.msg \in Msgs
          BY <2>1, <4>1, RecsTyped, Zenon DEF Recs
        <5> QED
          BY <4>3, <5>1 DEF Msgs, NoMsg
      <4>6. Pair(c) = w
        BY <3>3, <4>3 DEF Pair
      <4>7. c.op # d.op
        BY <2>2, <3>1, <4>4, <4>5, <4>6, Zenon
      <4>8. r.op \in deqLog'
        BY <2>2, <4>2, <4>3, <4>7, Zenon
      <4> QED
        BY <4>3, <4>4, <4>8, Zenon DEF Pursued
    <3> QED
      BY <2>2, <3>2, <3>3, Zenon DEF GoneUp, Pair
  <2> QED
    BY <2>2, <2>3, <2>4, <2>5, Zenon DEF Gone

\* A crash, at any time.
<1>CrashGone.
    ASSUME Crash
    PROVE  Gone'
  <2> USE <1>CrashGone
  <2>1. TypeOK
    BY Zenon DEF StoreInv
  <2>2. /\ mode' = "read" /\ UNCHANGED <<db, enqLog, deqLog, stage, overtaken, unlogged>>
        /\ reopened' = reopened \union Reopening /\ interrupted' = interrupted \union Interrupting
    BY Zenon DEF Crash, disk
  <2>3. mode' # "up" /\ mode' # "recover" /\ mode \in {"up", "read", "recover"}
    BY <2>1, <2>2 DEF TypeOK
  <2>4. ASSUME NEW w \in Pairs, Settled(w)' PROVE GoneRead(w)'
    <3>1. Settled(w) /\ w \notin Reopening /\ w \notin Interrupting
      BY <2>2, <2>4, Zenon DEF Settled, Escaped
    <3>2. CASE mode = "up"
      <4>1. \A r \in db \union enqLog : Pair(r) = w => r.op \in deqLog
        BY <3>1, <3>2, Zenon DEF Gone, GoneUp
      <4>2. \A r \in db : Pair(r) = w => r \notin enqLog
        BY <3>1, <4>1, Zenon DEF Reopening
      <4> QED
        BY <2>2, <4>1, <4>2, Zenon DEF GoneRead, Pair
    <3>3. CASE mode = "read"
      <4>1. GoneRead(w)
        BY <3>1, <3>3, Zenon DEF Gone
      <4> QED
        BY <2>2, <4>1, Zenon DEF GoneRead, Pair
    <3>4. CASE mode = "recover"
      <4>1. GoneRecover(w)
        BY <3>1, <3>4, Zenon DEF Gone
      <4>2. \A r \in db : Pair(r) = w => r.op \notin discard
        BY <3>1, Zenon DEF Interrupting
      <4>3. \A r \in db : Pair(r) = w => r.op \in deqLog /\ r \notin enqLog
        BY <4>1, <4>2, Zenon DEF GoneRecover, GoneRecord
      <4>4. \A e \in enqLog : Pair(e) = w => e.op \in deqLog
        BY <4>1, Zenon DEF GoneRecover, GoneEntry
      <4> QED
        BY <2>2, <4>3, <4>4, Zenon DEF GoneRead, Pair
    <3> QED
      BY <2>3, <3>2, <3>3, <3>4, Zenon
  <2> QED
    BY <2>3, <2>4, Zenon DEF Gone

\* Recovery reads what the logs hold.
<1>ReadLogsGone.
    ASSUME ReadLogs
    PROVE  Gone'
  <2> USE <1>ReadLogsGone
  <2>1. /\ mode = "read" /\ mode' = "recover" /\ todo' = Queues /\ adset' = deqLog /\ aeset' = enqLog
        /\ UNCHANGED <<onQueue, db, enqLog, deqLog, discard, closing, stage, escapes>>
    BY Zenon DEF ReadLogs, broker, disk
  <2>2. mode' # "up" /\ mode' # "read" /\ mode # "recover"
    BY <2>1
  <2>3. TypeOK /\ closing = <<>>
    BY <2>2, Zenon DEF StoreInv, Phases
  <2>4. DOMAIN closing' = {}
    BY <2>1, <2>3
  <2>5. ASSUME NEW w \in Pairs, Settled(w)' PROVE GoneRecover(w)'
    <3>1. Settled(w)
      BY <2>1, <2>5, Zenon DEF Settled, Escaped, escapes
    <3>2. GoneRead(w) /\ onQueue[w] = 0
      BY <2>1, <3>1, ReadEmpty, Zenon DEF Gone
    <3>3. ASSUME NEW r \in db, Pair(r) = w PROVE GoneRecord(r)'
      <4>1. r.op \in deqLog /\ r \notin enqLog
        BY <3>2, <3>3, Zenon DEF GoneRead
      <4>2. r.op[2] \in Queues
        BY <2>3, RecsTyped, Zenon DEF Recs
      <4> QED
        BY <2>1, <2>4, <4>1, <4>2, Zenon DEF GoneRecord
    <3>4. ASSUME NEW e \in enqLog, Pair(e) = w PROVE GoneEntry(e)'
      <4>1. e.op \in deqLog
        BY <3>2, <3>4, Zenon DEF GoneRead
      <4> QED
        BY <2>1, <2>4, <4>1, Zenon DEF GoneEntry
    <3> QED
      BY <2>1, <3>2, <3>3, <3>4, Zenon DEF GoneRecover, Pair
  <2> QED
    BY <2>2, <2>5, Zenon DEF Gone

\* The records of a settled message that decodeAndRecoverMsg comes across: those
\* of the database have no entry in the log, and its entries are useless.
<1>GoneFound.
    ASSUME mode = "recover", closing = <<>>, NEW w \in Pairs, GoneRecover(w)
    PROVE  /\ \A e \in enqLog : Pair(e) = w => e \in Useless
           /\ \A r \in db : Pair(r) = w /\ r.op \notin discard => r.op \in adset /\ r.op \notin OpsOf(Useless)
  <2> USE <1>GoneFound
  <2>1. TypeOK /\ Named /\ Recovering /\ Reread
    BY Zenon DEF StoreInv, TaskInv
  <2>2. DOMAIN closing = {}
    OBVIOUS
  <2>3. \A e \in enqLog : e \in aeset
    BY <2>1, <2>2, Zenon DEF Recovering
  <2>4. aeset \subseteq enqLog
    BY <2>1, Zenon DEF Reread
  <2>5. ASSUME NEW e \in enqLog, Pair(e) = w PROVE e \in Useless
    BY <2>3, <2>5, Zenon DEF GoneRecover, GoneEntry, Useless
  <2>6. ASSUME NEW r \in db, Pair(r) = w, r.op \notin discard PROVE r.op \in adset /\ r.op \notin OpsOf(Useless)
    <3>1. r.op \in adset /\ r \notin enqLog
      BY <2>6, Zenon DEF GoneRecover, GoneRecord
    <3>2. ASSUME r.op \in OpsOf(Useless) PROVE FALSE
      <4>1. PICK u \in Useless : u.op = r.op
        BY <3>2, Zenon DEF OpsOf
      <4>2. u \in aeset /\ u \in enqLog
        BY <2>4, <4>1, Zenon DEF Useless
      <4>3. Pair(u) = Pair(r)
        BY <2>1, <4>1, <4>2, SameOpsNow, Zenon DEF SameOps, Recs
      <4>4. u = r
        BY <2>1, <4>2, <4>3, SameRecord, Zenon
      <4> QED
        BY <3>1, <4>2, <4>4, Zenon
    <3> QED
      BY <3>1, <3>2, Zenon
  <2> QED
    BY <2>5, <2>6, Zenon

\* decodeAndRecoverMsg does not put a settled message back on its queue.
<1>RecoverQueueGone.
    ASSUME NEW q \in Queues, RecoverQueue(q)
    PROVE  Gone'
  <2> USE <1>RecoverQueueGone
  <2>1. TypeOK /\ Named /\ Reread
    BY Zenon DEF StoreInv, TaskInv
  <2>2. /\ mode = "recover" /\ mode' = "recover" /\ closing = <<>> /\ q \in todo /\ todo' = todo \ {q}
        /\ aeset' = aeset \ (Useless \union Transients \union AlreadyEnqueued(q))
        /\ adset' = adset \ (OpsOf(Useless) \union OpsOf(Accepted(q)))
        /\ enqLog' = Without(enqLog, OpsOf(AlreadyEnqueued(q)))
        /\ discard' = discard \union OpsOf(On(db, q) \ FromDb(q)) \union OpsOf(Accepted(q))
        /\ \A w \in Pairs : onQueue'[w] = onQueue[w] + PutBack(q, w)
        /\ UNCHANGED <<db, deqLog, stage, escapes>>
    BY RecoverQueueIs, Zenon
  <2>3. /\ DOMAIN closing' = {1, 2, 3, 4} /\ closing'[1].log = "enq"
        /\ closing'[2].log = "deq" /\ closing'[2].ops = OpsOf(Accepted(q))
        /\ closing'[3].log = "enq" /\ closing'[3].ops = OpsOf(Useless)
        /\ closing'[4].log = "deq" /\ closing'[4].ops = OpsOf(Useless)
    BY RecoverQueueIs, Zenon
  <2>4. mode' # "up" /\ mode' # "read"
    BY <2>2
  <2>5. \A i \in DOMAIN closing' : closing'[i].log = "deq" => i = 2 \/ i = 4
    BY <2>3
  <2>6. ASSUME NEW w \in Pairs, Settled(w)' PROVE GoneRecover(w)'
    <3>1. Settled(w)
      BY <2>2, <2>6, Zenon DEF Settled, Escaped, escapes
    <3>2. GoneRecover(w)
      BY <2>2, <3>1, Zenon DEF Gone
    <3>3. /\ \A e \in enqLog : Pair(e) = w => e \in Useless
          /\ \A r \in db : Pair(r) = w /\ r.op \notin discard => r.op \in adset /\ r.op \notin OpsOf(Useless)
      BY <2>2, <3>2, <1>GoneFound, Zenon
    <3>4. \A r \in db : r.op[2] = q => r.op \notin discard
      BY <2>1, <2>2, Zenon DEF Reread
    <3>5. onQueue'[w] = 0
      <4>1. ASSUME NEW r \in Restoring(q), Pair(r) = w PROVE FALSE
        <5>1. CASE r \in FromDb(q) \ Accepted(q)
          <6>1. r \in db /\ r.op[2] = q
            BY <5>1, FoundIn, Zenon
          <6>2. r.op \in adset /\ r.op \notin OpsOf(Useless)
            BY <3>3, <3>4, <4>1, <6>1, Zenon
          <6> QED
            BY <5>1, <6>2, Zenon DEF Accepted
        <5>2. CASE r \in FromLog(q)
          <6>1. r \in aeset /\ r \notin Useless
            BY <5>2, FoundIn, Zenon
          <6>2. r \in enqLog
            BY <2>1, <2>2, <6>1, Zenon DEF Reread
          <6> QED
            BY <3>3, <4>1, <6>1, <6>2, Zenon
        <5> QED
          BY <5>1, <5>2, Zenon DEF Restoring
      <4>2. PutBack(q, w) \in 0..2 /\ ~(PutBack(q, w) > 0)
        BY <2>1, <4>1, CopiesAre, Zenon
      <4>3. onQueue[w] = 0 /\ onQueue'[w] = onQueue[w] + PutBack(q, w)
        BY <2>2, <3>2, Zenon DEF GoneRecover
      <4> QED
        BY <4>2, <4>3
    <3>6. ASSUME NEW r \in db, Pair(r) = w PROVE GoneRecord(r)'
      <4>1. GoneRecord(r)
        BY <3>2, <3>6, Zenon DEF GoneRecover
      <4>2. CASE r.op \in discard
        BY <2>2, <4>2, Zenon DEF GoneRecord
      <4>3. CASE r.op \notin discard /\ r.op[2] = q
        <5>1. r.op \in adset \ OpsOf(Useless)
          BY <3>3, <3>6, <4>3, Zenon
        <5>2. r \in On(db, q)
          BY <4>3, Zenon DEF On
        <5>3. r \in Accepted(q) \/ r \in On(db, q) \ FromDb(q)
          BY <5>1, <5>2, Zenon DEF Accepted
        <5> QED
          BY <2>2, <5>3, Zenon DEF GoneRecord, OpsOf
      <4>4. CASE r.op \notin discard /\ r.op[2] # q
        <5>1. r.op \in adset /\ r.op \notin OpsOf(Useless)
          BY <3>3, <3>6, <4>4, Zenon
        <5>2. r.op \notin OpsOf(Accepted(q))
          BY <4>4, FoundIn, Zenon DEF OpsOf
        <5>3. r.op[2] \in todo /\ r.op \in deqLog /\ r \notin enqLog
          BY <4>1, <4>4, Zenon DEF GoneRecord
        <5>4. r.op[2] \in todo' /\ r.op \in adset' /\ r.op \in deqLog' /\ r \notin enqLog'
          BY <2>2, <4>4, <5>1, <5>2, <5>3, Zenon DEF Without
        <5>5. \A i \in DOMAIN closing' : closing'[i].log = "deq" => r.op \notin closing'[i].ops
          BY <2>3, <2>5, <5>1, <5>2, Zenon
        <5> QED
          BY <5>4, <5>5, Zenon DEF GoneRecord
      <4> QED
        BY <4>2, <4>3, <4>4, Zenon
    <3>7. ASSUME NEW e \in enqLog', Pair(e) = w PROVE GoneEntry(e)'
      <4>1. e \in enqLog /\ e \in Useless
        BY <2>2, <3>3, <3>7, Zenon DEF Without
      <4>2. e.op \in deqLog' /\ e \notin aeset'
        BY <2>2, <3>2, <3>7, <4>1, Zenon DEF GoneRecover, GoneEntry
      <4>3. e.op \in OpsOf(Useless) /\ e.op \notin OpsOf(Accepted(q))
        BY <4>1, Zenon DEF OpsOf, Accepted
      <4>4. 3 < 4 /\ 3 \in DOMAIN closing'
        BY <2>3
      <4>5. \A i \in DOMAIN closing' : closing'[i].log = "deq" /\ e.op \in closing'[i].ops =>
               \E j \in DOMAIN closing' : j < i /\ closing'[j].log = "enq" /\ e.op \in closing'[j].ops
        BY <2>3, <2>5, <4>3, <4>4, Zenon
      <4> QED
        BY <4>2, <4>5, Zenon DEF GoneEntry
    <3> QED
      BY <2>2, <3>5, <3>6, <3>7, Zenon DEF GoneRecover, Pair
  <2> QED
    BY <2>4, <2>6, Zenon DEF Gone

\* The mass completions: an enqueue's before that of its dequeue.
<1>LogMassGone.
    ASSUME LogMass
    PROVE  Gone'
  <2> USE <1>LogMassGone
  <2>1. TypeOK
    BY Zenon DEF StoreInv
  <2>2. /\ mode = "recover" /\ mode' = "recover" /\ 1 \in DOMAIN closing
        /\ UNCHANGED <<broker, db, todo, adset, aeset, discard, stage, escapes>>
        /\ \A r : r \in enqLog' <=> r \in enqLog /\ ~(closing[1].log = "enq" /\ r.op \in closing[1].ops)
        /\ \A o : o \in deqLog' <=> o \in deqLog /\ ~(closing[1].log = "deq" /\ o \in closing[1].ops)
    BY LogMassIs, Zenon
  <2>3. /\ \A i \in DOMAIN closing' : i + 1 \in DOMAIN closing /\ closing'[i] = closing[i + 1]
        /\ \A i \in DOMAIN closing : i = 1 \/ (i - 1 \in DOMAIN closing' /\ closing'[i - 1] = closing[i])
    BY LogMassIs, Zenon
  <2>4. mode' # "up" /\ mode' # "read"
    BY <2>2
  <2>5. ASSUME NEW w \in Pairs, Settled(w)' PROVE GoneRecover(w)'
    <3>1. Settled(w)
      BY <2>2, <2>5, Zenon DEF Settled, Escaped, escapes
    <3>2. GoneRecover(w)
      BY <2>2, <3>1, Zenon DEF Gone
    <3>3. ASSUME NEW r \in db, Pair(r) = w PROVE GoneRecord(r)'
      <4>1. GoneRecord(r)
        BY <3>2, <3>3, Zenon DEF GoneRecover
      <4>2. CASE r.op \in discard
        BY <2>2, <4>2, Zenon DEF GoneRecord
      <4>3. CASE r.op \notin discard
        <5>1. /\ r.op[2] \in todo /\ r.op \in deqLog /\ r.op \in adset /\ r \notin enqLog
              /\ \A i \in DOMAIN closing : closing[i].log = "deq" => r.op \notin closing[i].ops
          BY <4>1, <4>3, Zenon DEF GoneRecord
        <5>2. r.op \in deqLog' /\ r \notin enqLog'
          BY <2>2, <5>1, Zenon
        <5>3. \A i \in DOMAIN closing' : closing'[i].log = "deq" => r.op \notin closing'[i].ops
          BY <2>3, <5>1, Zenon
        <5> QED
          BY <2>2, <5>1, <5>2, <5>3, Zenon DEF GoneRecord
      <4> QED
        BY <4>2, <4>3, Zenon
    <3>4. ASSUME NEW e \in enqLog', Pair(e) = w PROVE GoneEntry(e)'
      <4>1. e \in enqLog /\ ~(closing[1].log = "enq" /\ e.op \in closing[1].ops)
        BY <2>2, Zenon
      <4>2. GoneEntry(e)
        BY <3>2, <3>4, <4>1, Zenon DEF GoneRecover
      <4>3. \A i \in DOMAIN closing : i \in Nat /\ i >= 1
        BY <2>1 DEF TypeOK
      <4>4. e.op \in deqLog'
        <5>1. ASSUME closing[1].log = "deq", e.op \in closing[1].ops PROVE FALSE
          <6>1. PICK j \in DOMAIN closing : j < 1
            BY <2>2, <4>2, <5>1, Zenon DEF GoneEntry
          <6> QED
            BY <4>3, <6>1
        <5> QED
          BY <2>2, <4>2, <5>1, Zenon DEF GoneEntry
      <4>5. ASSUME NEW i \in DOMAIN closing', closing'[i].log = "deq", e.op \in closing'[i].ops
            PROVE  \E j \in DOMAIN closing' : j < i /\ closing'[j].log = "enq" /\ e.op \in closing'[j].ops
        <5>1. i + 1 \in DOMAIN closing /\ closing[i + 1].log = "deq" /\ e.op \in closing[i + 1].ops
          BY <2>3, <4>5, Zenon
        <5>2. PICK j \in DOMAIN closing : j < i + 1 /\ closing[j].log = "enq" /\ e.op \in closing[j].ops
          BY <4>2, <5>1, Zenon DEF GoneEntry
        <5>3. j # 1
          BY <4>1, <5>2, Zenon
        <5>4. j - 1 \in DOMAIN closing' /\ closing'[j - 1] = closing[j]
          BY <2>3, <5>3, Zenon
        <5>5. j - 1 < i
          <6>1. j \in Nat /\ i \in Int
            <7>1. j \in Nat
              BY <4>3, Zenon
            <7>2. closing' = Tail(closing) /\ closing # <<>>
              BY Zenon DEF LogMass
            <7>3. closing \in Seq([log : {"enq", "deq"}, ops : SUBSET Ops])
              BY <2>1, Zenon DEF TypeOK
            <7>4. i \in Int
              BY <7>2, <7>3
            <7> QED
              BY <7>1, <7>4
          <6> QED
            BY <5>2, <6>1
        <5> QED
          BY <5>2, <5>4, <5>5, Zenon
      <4> QED
        BY <2>2, <4>2, <4>4, <4>5, Zenon DEF GoneEntry
    <3> QED
      BY <2>2, <3>2, <3>3, <3>4, Zenon DEF GoneRecover, Pair, broker
  <2> QED
    BY <2>4, <2>5, Zenon DEF Gone

\* A deletion at the end of recovery.
<1>DiscardGone.
    ASSUME NEW op, Discard(op)
    PROVE  Gone'
  <2> USE <1>DiscardGone
  <2>1. /\ mode = "recover" /\ mode' = "recover" /\ db' = Without(db, {op}) /\ discard' = discard \ {op}
        /\ UNCHANGED <<onQueue, enqLog, deqLog, todo, adset, aeset, closing, stage, escapes>>
    BY Zenon DEF Discard, Discarding, broker
  <2>2. mode' # "up" /\ mode' # "read"
    BY <2>1
  <2>3. ASSUME NEW w \in Pairs, Settled(w)' PROVE GoneRecover(w)'
    <3>1. Settled(w)
      BY <2>1, <2>3, Zenon DEF Settled, Escaped, escapes
    <3>2. GoneRecover(w)
      BY <2>1, <3>1, Zenon DEF Gone
    <3>3. ASSUME NEW r \in db', Pair(r) = w PROVE GoneRecord(r)'
      <4>1. r \in db /\ r.op # op
        BY <2>1, Zenon DEF Without
      <4>2. GoneRecord(r)
        BY <3>2, <3>3, <4>1, Zenon DEF GoneRecover
      <4> QED
        BY <2>1, <4>1, <4>2, Zenon DEF GoneRecord
    <3>4. ASSUME NEW e \in enqLog, Pair(e) = w PROVE GoneEntry(e)'
      <4>1. GoneEntry(e)
        BY <3>2, <3>4, Zenon DEF GoneRecover
      <4> QED
        BY <2>1, <4>1, Zenon DEF GoneEntry
    <3> QED
      BY <2>1, <3>2, <3>3, <3>4, Zenon DEF GoneRecover, Pair
  <2> QED
    BY <2>2, <2>3, Zenon DEF Gone

\* At the end of recovery nothing is left of a settled message.
<1>ResurrectGone.
    ASSUME Resurrect
    PROVE  Gone'
  <2> USE <1>ResurrectGone
  <2>1. /\ mode = "recover" /\ mode' = "up" /\ todo = {} /\ closing = <<>> /\ discard = {} /\ Useless = {}
        /\ enqLog' = aeset /\ UNCHANGED <<broker, db, stage, escapes>>
    BY ResurrectIs, Zenon
  <2>2. mode' # "read" /\ mode' # "recover"
    BY <2>1
  <2>3. aeset \subseteq enqLog
    BY <2>1, Zenon DEF TaskInv, Reread
  <2>4. ASSUME NEW w \in Pairs, Settled(w)' PROVE GoneUp(w)'
    <3>1. Settled(w)
      BY <2>1, <2>4, Zenon DEF Settled, Escaped, escapes
    <3>2. GoneRecover(w)
      BY <2>1, <3>1, Zenon DEF Gone
    <3>3. \A r \in db : Pair(r) # w
      BY <2>1, <3>2, Zenon DEF GoneRecover, GoneRecord
    <3>4. \A e \in enqLog : Pair(e) # w
      BY <2>1, <3>2, <1>GoneFound, Zenon
    <3>5. \A r \in db' \union enqLog' : Pair(r) # w
      BY <2>1, <2>3, <3>3, <3>4, Zenon
    <3> QED
      BY <2>1, <3>2, <3>5, Zenon DEF GoneUp, GoneRecover, Pair, broker
  <2> QED
    BY <2>2, <2>4, Zenon DEF Gone

\* A step that changes nothing.
<1>StutterGone.
    ASSUME UNCHANGED vars
    PROVE  Gone'
  <2> USE <1>StutterGone
  <2>1. UNCHANGED <<tasks, broker, disk, mode, recovery, stage, escapes>>
    BY Zenon DEF vars
  <2>2. ASSUME NEW w \in Pairs, Settled(w)' PROVE Settled(w)
    BY <2>1, <2>2, Zenon DEF Settled, Escaped, escapes
  <2>3. ASSUME NEW w \in Pairs, mode = "up", GoneUp(w) PROVE GoneUp(w)'
    BY <2>1, <2>3, <1>GoneFrame, Zenon DEF tasks, broker, disk
  <2>4. ASSUME NEW w \in Pairs, GoneRead(w) PROVE GoneRead(w)'
    BY <2>1, <2>4, Zenon DEF GoneRead, Pair, disk
  <2>5. ASSUME NEW r, GoneRecord(r) PROVE GoneRecord(r)'
    BY <2>1, <2>5, Zenon DEF GoneRecord, disk, recovery
  <2>6. ASSUME NEW e, GoneEntry(e) PROVE GoneEntry(e)'
    BY <2>1, <2>6, Zenon DEF GoneEntry, disk, recovery
  <2>7. ASSUME NEW w \in Pairs, GoneRecover(w) PROVE GoneRecover(w)'
    BY <2>1, <2>5, <2>6, <2>7, Zenon DEF GoneRecover, Pair, disk, broker
  <2> QED
    BY <2>1, <2>2, <2>3, <2>4, <2>7, Zenon DEF Gone

<1>1. CASE Broker
  BY <1>1, <1>EnqueueGone, <1>DequeueBeginGone, Zenon DEF Broker, EnqueueNew, EnqueueAgain
<1>2. CASE Progress
  <2>1. ASSUME NEW e \in entering, EnqueueLog(e) \/ EnqueueSchedule(e) PROVE Gone'
    <3>1. PICK m \in Msgs : m = e.msg
      BY RecsTyped, Zenon DEF StoreInv, Recs, Working
    <3>2. PICK q \in Queues : q = e.op[2]
      BY RecsTyped, Zenon DEF StoreInv, Recs, Working
    <3> QED
      BY <2>1, <1>EnqueueGone, Zenon
  <2> QED
    BY <1>2, <2>1, <1>DequeueEndGone, <1>StoreGoneUp, <1>RemoveMsgGone, <1>RemoveLogGone, Zenon DEF Progress
<1>3. CASE Recover
  BY <1>3, <1>ReadLogsGone, <1>LogMassGone, <1>ResurrectGone, <1>RecoverQueueGone, <1>DiscardGone, Zenon DEF Recover
<1>4. CASE Crash
  BY <1>4, <1>CrashGone, Zenon
<1>5. CASE UNCHANGED vars
  BY <1>5, <1>StutterGone, Zenon
<1> QED
  BY <1>1, <1>2, <1>3, <1>4, <1>5, Zenon DEF Next

\* What is settled is on no queue.
LEMMA GoneSays ==
    ASSUME StoreInv, Gone
    PROVE  NotRedelivered
<1>1. ASSUME NEW w \in Pairs, stage[w] = "done", onQueue[w] > 0, w \notin Escaped PROVE FALSE
  <2>1. Settled(w)
    BY <1>1, Zenon DEF Settled
  <2>2. mode \in {"up", "read", "recover"}
    BY Zenon DEF StoreInv, TypeOK
  <2>3. mode = "up" \/ mode = "read" \/ mode = "recover"
    BY <2>2
  <2>4. onQueue[w] = 0
    BY <2>1, <2>3, ReadEmpty, Zenon DEF Gone, GoneUp, GoneRecover
  <2> QED
    BY <1>1, <2>4
<1> QED
  BY <1>1, Zenon DEF NotRedelivered

(***************************************************************************)
(* As long as recovery puts no message on a queue twice, Gone holds.       *)
(***************************************************************************)
LEMMA GoneInvariance == Spec /\ []OnceOnQueue => []Gone
<1>1. Init => Gone
  BY InitGone, Zenon
<1>2. StoreInv /\ TaskInv /\ OnceInv /\ Gone /\ [Next]_vars => Gone'
  BY GoneStep, Zenon
<1> QED
  BY <1>1, <1>2, StoreInvariance, TasksAgree, OnceInvariance, PTL DEF Spec

(***************************************************************************)
(* For every number of messages, queues, threads and workers, and whatever *)
(* the messages routed to more than one queue: as long as no message is on *)
(* a queue twice, a message whose dequeue has returned is on no queue,     *)
(* across any number of crashes, the escaped ones aside.                   *)
(***************************************************************************)
THEOREM OnceNotRedelivered == Spec /\ []OnceOnQueue => []NotRedelivered
<1>1. StoreInv /\ Gone => NotRedelivered
  BY GoneSays, Zenon
<1> QED
  BY <1>1, StoreInvariance, GoneInvariance, PTL

(***************************************************************************)
(* Where recovery looks up every entry that may be in the database, a      *)
(* dequeued message is not redelivered (dequeue, async_dequeue, and what   *)
(* recoverMessages makes of the two logs).                                 *)
(***************************************************************************)
THEOREM DequeuedForGood == LookupSuffices => (Spec => []NotRedelivered)
<1> SUFFICES ASSUME LookupSuffices
             PROVE  Spec => []NotRedelivered
  BY Zenon
<1>1. Spec => []OnceOnQueue
  BY OnceOnItsQueue, Zenon
<1> QED
  BY <1>1, OnceNotRedelivered, PTL

\* At the start the store is empty.
LEMMA InitIdle ==
    ASSUME Init
    PROVE  IdleInv
<1>1. /\ db = {} /\ enqPool = <<>> /\ storing = {} /\ deleting = {} /\ mode = "up"
      /\ onQueue = [w \in Pairs |-> 0]
  BY Zenon DEF Init
<1>2. mode # "recover" /\ DOMAIN enqPool = {} /\ ~(0 > 0)
  BY <1>1
<1>3. Inserting = {}
  BY <1>1, <1>2, Zenon DEF Inserting, Scheduled
<1> QED
  BY <1>1, <1>2, <1>3, Zenon DEF IdleInv, Held, Backed, Strangers, Restored

\* Each step of the store and the broker.
LEMMA IdleStep ==
    ASSUME StoreInv, StoreInv', TaskInv, OnceInv, Gone, IdleInv, [Next]_vars
    PROVE  IdleInv'
\* The id of a message the broker knows is that of its records, tasks and calls.
<1>PidOf.
    ASSUME TypeOK, Named, NEW r \in Recs, pid[r.msg] # 0
    PROVE  pid[r.msg] = r.op[1] /\ <<pid[r.msg], r.op[2]>> = r.op
  <2> USE <1>PidOf
  <2>1. r.msg \in Msgs /\ r.op = <<r.op[1], r.op[2]>>
    BY RecsTyped, Zenon
  <2>2. <<r.op[1], r.msg>> \in Claims /\ <<pid[r.msg], r.msg>> \in Claims
    BY <2>1, Zenon DEF Claims
  <2>3. pid[r.msg] = r.op[1]
    BY <2>2 DEF Named
  <2> QED
    BY <2>1, <2>3, Zenon

\* While the broker runs it knows them all.
<1>PidKnown.
    ASSUME TypeOK, Named, mode = "up", NEW r \in Recs
    PROVE  pid[r.msg] # 0 /\ pid[r.msg] = r.op[1] /\ <<pid[r.msg], r.op[2]>> = r.op
  <2> USE <1>PidKnown
  <2>1. <<r.op[1], r.msg>> \in Claims
    BY Zenon DEF Claims
  <2>2. pid[r.msg] # 0
    BY <2>1 DEF Named
  <2> QED
    BY <2>2, <1>PidOf, Zenon

\* What is to be inserted is a task.
<1>InsertingWork. Inserting \subseteq Working /\ Inserting \subseteq Recs /\ Inserting \subseteq ToPut
  BY Zenon DEF Inserting, Working, Recs, ToPut

\* Of records and tasks, message and queue follow from message and operation.
<1>PairOf.
    ASSUME NEW r, NEW s, r.op = s.op, r.msg = s.msg
    PROVE  Pair(r) = Pair(s)
  BY <1>PairOf, Zenon DEF Pair

\* A step that takes no message off its queue, and neither loses nor finds one.
<1>HeldFrame.
    ASSUME Held, mode = "up", leaving \subseteq leaving', deleting \subseteq deleting', Aside \subseteq Aside',
           \A r \in db \union Inserting : onQueue[Pair(r)] > 0 => onQueue'[Pair(r)] > 0,
           \A r \in db' \union Inserting' : onQueue'[Pair(r)] > 0 \/
           \E s \in db \union Inserting : s.op = r.op /\ s.msg = r.msg
    PROVE  Held'
  <2> USE <1>HeldFrame
  <2>1. ASSUME NEW r \in db' \union Inserting'
        PROVE  onQueue'[Pair(r)] > 0 \/ Leaves(r)' \/ Pursued(r)' \/ Pair(r) \in Aside'
    <3>1. CASE onQueue'[Pair(r)] > 0
      BY <3>1, Zenon
    <3>2. CASE \E s \in db \union Inserting : s.op = r.op /\ s.msg = r.msg
      <4>1. PICK s \in db \union Inserting : s.op = r.op /\ s.msg = r.msg
        BY <3>2, Zenon
      <4>2. Pair(s) = Pair(r)
        BY <4>1, <1>PairOf, Zenon
      <4>3. onQueue[Pair(s)] > 0 \/ Leaves(s) \/ Pursued(s) \/ Pair(s) \in Aside
        BY Zenon DEF Held
      <4>4. CASE onQueue[Pair(s)] > 0
        BY <4>2, <4>4, Zenon
      <4>5. CASE Leaves(s)
        <5>1. PICK d \in leaving : d.exec /\ Pair(d) = Pair(s)
          BY <4>5, Zenon DEF Leaves
        <5>2. d \in leaving' /\ d.exec /\ Pair(d) = Pair(r)
          BY <4>2, <5>1, Zenon
        <5> QED
          BY <5>2, Zenon DEF Leaves, Pair
      <4>6. CASE Pursued(s)
        BY <4>1, <4>6, Zenon DEF Pursued
      <4>7. CASE Pair(s) \in Aside
        BY <4>2, <4>7, Zenon
      <4> QED
        BY <4>3, <4>4, <4>5, <4>6, <4>7, Zenon
    <3> QED
      BY <3>1, <3>2, Zenon
  <2> QED
    BY <2>1, Zenon DEF Held, Pair

\* A step that puts no message on its queue but with its task.
<1>BackedFrame.
    ASSUME Backed, mode = "up", Aside \subseteq Aside',
           \A w \in Pairs \ Aside' : onQueue'[w] > 0 =>
           onQueue[w] > 0 \/ \E r \in db' \union Inserting' : Pair(r) = w,
           \A r \in db \union Inserting : Pair(r) \notin Aside' /\ onQueue'[Pair(r)] > 0 =>
           \E s \in db' \union Inserting' : s.op = r.op /\ s.msg = r.msg
    PROVE  Backed'
  <2> USE <1>BackedFrame
  <2>1. ASSUME NEW w \in Pairs, w \notin Aside', onQueue'[w] > 0 PROVE \E r \in db' \union Inserting' : Pair(r) = w
    <3>1. CASE \E r \in db' \union Inserting' : Pair(r) = w
      BY <3>1, Zenon
    <3>2. CASE onQueue[w] > 0
      <4>1. PICK r \in db \union Inserting : Pair(r) = w
        BY <2>1, <3>2, Zenon DEF Backed
      <4>2. PICK s \in db' \union Inserting' : s.op = r.op /\ s.msg = r.msg
        BY <2>1, <4>1, Zenon
      <4> QED
        BY <4>1, <4>2, <1>PairOf, Zenon
    <3> QED
      BY <2>1, <3>1, <3>2, Zenon
  <2> QED
    BY <2>1, Zenon DEF Backed, Pair

\* A step that begins no deletion.
<1>StrangersFrame.
    ASSUME Strangers, mode = "up",
           \A d \in deleting' : \E c \in deleting :
           c.op = d.op /\ c.msg = d.msg /\ (d.at = "wait" => c.at = "wait"),
           \A m \in Msgs : pid[m] # 0 => pid'[m] = pid[m],
           \A w \in Pairs : stage[w] = "done" => stage'[w] = "done",
           \A w \in Pairs : onQueue'[w] > 0 => w \in Unasked' \/ (onQueue[w] > 0 /\ (w \in Unasked => w \in Unasked'))
    PROVE  Strangers'
  <2> USE <1>StrangersFrame
  <2>1. TypeOK /\ Sent
    BY Zenon DEF StoreInv
  <2>2. ASSUME NEW d \in deleting', d.msg = NoMsg, d.at = "wait", NEW w \in Pairs, onQueue'[w] > 0,
               <<pid'[w[1]], w[2]>> = d.op
        PROVE  w \in Unasked'
    <3>1. PICK c \in deleting : c.op = d.op /\ c.msg = d.msg /\ c.at = "wait"
      BY <2>2, Zenon
    <3>2. CASE w \in Unasked'
      BY <3>2, Zenon
    <3>3. CASE onQueue[w] > 0 /\ (w \in Unasked => w \in Unasked')
      <4>1. w[1] \in Msgs
        BY DEF Pairs
      <4>2. pid[w[1]] # 0
        BY <2>1, <3>3, Zenon DEF Sent
      <4>3. <<pid[w[1]], w[2]>> = c.op
        BY <2>2, <3>1, <4>1, <4>2, Zenon
      <4>4. w \in Unasked
        BY <2>2, <3>1, <3>3, <4>3, Zenon DEF Strangers
      <4> QED
        BY <3>3, <4>4, Zenon
    <3> QED
      BY <2>2, <3>2, <3>3, Zenon
  <2>3. ASSUME NEW d \in deleting', d.msg # NoMsg PROVE pid'[d.msg] = d.op[1] /\ stage'[Pair(d)] = "done"
    <3>1. PICK c \in deleting : c.op = d.op /\ c.msg = d.msg
      BY Zenon
    <3>2. pid[c.msg] = c.op[1] /\ stage[Pair(c)] = "done"
      BY <2>3, <3>1, Zenon DEF Strangers
    <3>3. c.msg \in Msgs /\ c.op[1] # 0 /\ Pair(c) \in Pairs
      <4>1. c.op \in Ops /\ c.msg \in Msgs \union {NoMsg}
        BY <2>1 DEF TypeOK
      <4>2. c.msg \in Msgs /\ c.op[1] \in Msgs /\ c.op[2] \in Queues
        BY <2>3, <3>1, <4>1 DEF Ops
      <4>3. c.op[1] # 0
        BY <4>2 DEF Msgs
      <4> QED
        BY <4>2, <4>3, Zenon DEF Pair, Pairs
    <3>4. Pair(c) = Pair(d)
      BY <3>1, <1>PairOf, Zenon
    <3>5. pid'[c.msg] = pid[c.msg] /\ stage'[Pair(c)] = "done"
      BY <3>2, <3>3, Zenon
    <3>6. pid'[d.msg] = c.op[1] /\ c.op[1] = d.op[1]
      BY <3>1, <3>2, <3>5, Zenon
    <3> QED
      BY <3>4, <3>5, <3>6, Zenon
  <2> QED
    BY <2>2, <2>3, Zenon DEF Strangers, Pair

\* A step that leaves queues, calls of dequeue and deletions alone.
<1>QuietIdle.
    ASSUME mode = "up", mode' = "up",
           UNCHANGED <<onQueue, leaving, deleting, victims, escapes>>,
           \A r \in db' \union Inserting' : \E s \in db \union Inserting : s.op = r.op /\ s.msg = r.msg,
           \A r \in db \union Inserting : \E s \in db' \union Inserting' : s.op = r.op /\ s.msg = r.msg,
           \A m \in Msgs : pid[m] # 0 => pid'[m] = pid[m],
           \A w \in Pairs : stage'[w] = stage[w] \/ (stage[w] = "none" /\ stage'[w] = "sent")
    PROVE  IdleInv'
  <2> USE <1>QuietIdle
  <2>1. Aside' = Aside
    BY Zenon DEF Aside, Escaped, escapes
  <2>2. mode' # "recover" /\ "none" # "done" /\ "sent" \in {"sent", "acked"}
    OBVIOUS
  <2>3. Held'
    BY <2>1, <1>HeldFrame, Zenon DEF IdleInv
  <2>4. Backed'
    BY <2>1, <1>BackedFrame, Zenon DEF IdleInv
  <2>5. \A w \in Pairs : stage[w] = "done" => stage'[w] = "done"
    BY <2>2, Zenon
  <2>6. \A w \in Pairs : w \in Unasked => w \in Unasked'
    BY <2>2, Zenon DEF Unasked
  <2>7. \A d \in deleting' : \E c \in deleting : c.op = d.op /\ c.msg = d.msg /\ (d.at = "wait" => c.at = "wait")
    BY Zenon
  <2>8. Strangers'
    BY <2>5, <2>6, <2>7, <1>StrangersFrame, Zenon DEF IdleInv
  <2> QED
    BY <2>2, <2>3, <2>4, <2>8, Zenon DEF IdleInv, Restored

\* A call of enqueue begins.
<1>EnqueueBeginIdle.
    ASSUME NEW m \in Msgs, NEW q \in Queues, EnqueueNew(m, q) \/ EnqueueAgain(m, q)
    PROVE  IdleInv'
  <2> USE <1>EnqueueBeginIdle
  <2>1. TypeOK /\ Named
    BY Zenon DEF StoreInv
  <2>2. PICK id : EnqueueBegin(m, q, id)
    BY Zenon DEF EnqueueNew, EnqueueAgain
  <2>3. /\ mode = "up" /\ stage[<<m, q>>] = "none" /\ stage' = [stage EXCEPT ![<<m, q>>] = "sent"]
        /\ UNCHANGED <<mode, onQueue, leaving, deleting, victims, escapes, enqPool, storing, pendMap, disk>>
    BY <2>2, Zenon DEF EnqueueBegin
  <2>4. Inserting' = Inserting /\ db' = db
    BY <2>3, Zenon DEF Inserting, Scheduled, disk
  <2>5. ASSUME NEW n \in Msgs, pid[n] # 0 PROVE pid'[n] = pid[n]
    <3>1. CASE EnqueueNew(m, q)
      <4>1. m \in Fresh /\ pid' = [pid EXCEPT ![m] = nextId]
        BY <3>1, Zenon DEF EnqueueNew
      <4>2. <<pid[n], n>> \in Claims
        BY <2>5, Zenon DEF Claims
      <4>3. n \notin Fresh
        BY <2>1, <4>2 DEF Named
      <4>4. n # m
        BY <4>1, <4>3, Zenon
      <4> QED
        BY <2>1, <4>1, <4>4, Zenon DEF TypeOK
    <3>2. CASE EnqueueAgain(m, q)
      BY <3>2, Zenon DEF EnqueueAgain
    <3> QED
      BY <3>1, <3>2, Zenon
  <2>6. \A w \in Pairs : stage'[w] = stage[w] \/ (stage[w] = "none" /\ stage'[w] = "sent")
    BY <2>1, <2>3, Zenon DEF TypeOK
  <2> QED
    BY <2>3, <2>4, <2>5, <2>6, <1>QuietIdle, Zenon

\* The steps of calls and tasks that neither schedule an insertion nor delete.
<1>StoringIdle.
    ASSUME NEW t,
           TakeStore \/ (t \in entering /\ EnqueueLog(t)) \/ (t \in storing /\ (Put(t) \/ StoreLog(t) \/ StoreAdd(t)))
    PROVE  IdleInv'
  <2> USE <1>StoringIdle
  <2>1. TypeOK /\ Phases /\ Stored /\ Unique /\ NotYet
    BY Zenon DEF StoreInv, TaskInv, OnceInv
  <2>2. mode = "up"
    <3>1. CASE TakeStore
      BY <2>1, <3>1, Zenon DEF TakeStore, Phases
    <3>2. CASE t \in storing \/ t \in entering
      BY <2>1, <3>2, Zenon DEF Phases, Working
    <3> QED
      BY <3>1, <3>2, Zenon
  <2>3. UNCHANGED <<mode, onQueue, pid, leaving, deleting, victims, escapes, stage>>
    BY Zenon DEF TakeStore, EnqueueLog, Put, StoreLog, StoreAdd, broker
  <2>4. /\ \A r \in db' \union Inserting' : \E s \in db \union Inserting : s.op = r.op /\ s.msg = r.msg
        /\ \A r \in db \union Inserting : \E s \in db' \union Inserting' : s.op = r.op /\ s.msg = r.msg
    <3>1. CASE TakeStore
      <4>1. PICK h, at, s : /\ h = Head(enqPool) /\ at = (IF Smart => h.op \in pendMap THEN "put" ELSE "log")
                            /\ s = [op |-> h.op, msg |-> h.msg, at |-> at]
        BY Zenon
      <4>2. /\ enqPool # <<>> /\ enqPool' = Tail(enqPool) /\ storing' = storing \union {s}
            /\ pendMap' = pendMap \ {h.op} /\ db' = db
        BY <3>1, <4>1, Zenon DEF TakeStore, disk
      <4>3. /\ h \in Scheduled /\ Scheduled' = Scheduled \ {h} /\ \A u \in Scheduled' : u.op # h.op
        BY <2>1, <4>1, <4>2, ScheduledTakes, Zenon
      <4>4. s.op = h.op /\ s.msg = h.msg /\ (s.at = "put" <=> (Smart => h.op \in pendMap))
        BY <4>1
      <4>5. ASSUME NEW r \in Inserting' PROVE \E x \in Inserting : x.op = r.op /\ x.msg = r.msg
        <5>1. CASE r \in Scheduled' /\ (Smart => r.op \in pendMap')
          BY <4>2, <4>3, <5>1, Zenon DEF Inserting
        <5>2. CASE r \in storing /\ r.at = "put"
          BY <5>2, Zenon DEF Inserting
        <5>3. CASE r = s /\ r.at = "put"
          <6>1. h \in Inserting
            BY <4>3, <4>4, <5>3, Zenon DEF Inserting
          <6> QED
            BY <4>4, <5>3, <6>1, Zenon
        <5> QED
          BY <4>2, <5>1, <5>2, <5>3, Zenon DEF Inserting
      <4>6. ASSUME NEW r \in Inserting PROVE \E x \in Inserting' : x.op = r.op /\ x.msg = r.msg
        <5>1. CASE r \in storing /\ r.at = "put"
          BY <4>2, <5>1, Zenon DEF Inserting
        <5>2. CASE r \in Scheduled /\ (Smart => r.op \in pendMap) /\ r # h
          BY <4>2, <4>3, <5>2, Zenon DEF Inserting
        <5>3. CASE (Smart => r.op \in pendMap) /\ r = h
          <6>1. s \in Inserting'
            BY <4>2, <4>4, <5>3, Zenon DEF Inserting
          <6> QED
            BY <4>4, <5>3, <6>1, Zenon
        <5> QED
          BY <5>1, <5>2, <5>3, Zenon DEF Inserting
      <4> QED
        BY <4>2, <4>5, <4>6, Zenon
    <3>2. CASE EnqueueLog(t)
      BY <3>2, Zenon DEF EnqueueLog, Inserting, Scheduled, ids
    <3>3. CASE t \in storing /\ (StoreLog(t) \/ StoreAdd(t))
      <4>1. /\ UNCHANGED <<enqPool, pendMap, db>> /\ t.at # "put"
            /\ \A s \in storing' : s \in storing \/ s.at # "put"
            /\ \A s \in storing : s \in storing' \/ s = t
        <5>1. CASE StoreLog(t)
          <6>1. PICK s : s = [t EXCEPT !.at = "add"]
            BY Zenon
          <6>2. s.at = "add"
            <7>1. t \in [op : Ops, msg : Msgs, at : {"put", "log", "add"}]
              BY <2>1, <3>3, Zenon DEF TypeOK
            <7> QED
              BY <6>1, <7>1
          <6>3. /\ storing' = (storing \ {t}) \union {s} /\ t.at = "log" /\ UNCHANGED <<enqPool, pendMap, db>>
            BY <5>1, <6>1, Zenon DEF StoreLog, StoreGoto, ids
          <6>4. t.at # "put" /\ s.at # "put"
            BY <6>2, <6>3
          <6> QED
            BY <6>3, <6>4, Zenon
        <5>2. CASE StoreAdd(t)
          <6>1. storing' = storing \ {t} /\ t.at = "add" /\ UNCHANGED <<enqPool, pendMap, db>>
            BY <5>2, Zenon DEF StoreAdd, disk
          <6>2. t.at # "put"
            BY <6>1
          <6> QED
            BY <6>1, <6>2, Zenon
        <5> QED
          BY <3>3, <5>1, <5>2, Zenon
      <4>2. Inserting' = Inserting
        BY <4>1, Zenon DEF Inserting, Scheduled
      <4> QED
        BY <4>1, <4>2, Zenon
    <3>4. CASE t \in storing /\ Put(t)
      <4>1. PICK s, g : s = [t EXCEPT !.at = "log"] /\ g = Entry(t)
        BY Zenon
      <4>2. /\ storing' = (storing \ {t}) \union {s} /\ t.at = "put" /\ UNCHANGED <<enqPool, pendMap>>
            /\ db' = IF t.op \in OpsOf(db) THEN db ELSE db \union {g}
        BY <3>4, <4>1, Zenon DEF Put, StoreGoto, Entry, ids
      <4>3. s.at # "put" /\ g.op = t.op /\ g.msg = t.msg
        <5>1. t \in [op : Ops, msg : Msgs, at : {"put", "log", "add"}]
          BY <2>1, <3>4, Zenon DEF TypeOK
        <5>2. s.at = "log"
          BY <4>1, <5>1
        <5> QED
          BY <4>1, <5>2 DEF Entry
      <4>4. t.op \notin OpsOf(db)
        BY <2>1, <3>4, <4>2, Zenon DEF NotYet, Waiting, OpsOf
      <4>5. db' = db \union {g}
        BY <4>2, <4>4, Zenon
      <4>6. t \in Inserting /\ \A r \in Inserting' : r \in Inserting
        BY <3>4, <4>2, <4>3, Zenon DEF Inserting, Scheduled
      <4>7. \A r \in Inserting : r = t \/ r \in Inserting'
        BY <4>2, Zenon DEF Inserting, Scheduled
      <4> QED
        BY <4>3, <4>5, <4>6, <4>7, Zenon
    <3> QED
      BY <3>1, <3>2, <3>3, <3>4, Zenon
  <2>5. mode' = "up" /\ \A m \in Msgs : pid'[m] = pid[m]
    BY <2>2, <2>3, Zenon
  <2> QED
    BY <2>2, <2>3, <2>4, <2>5, <1>QuietIdle, Zenon

\* The task is scheduled, and the broker puts the message on its queue.
<1>EnqueueScheduleIdle.
    ASSUME NEW e \in entering, EnqueueSchedule(e)
    PROVE  IdleInv'
  <2> USE <1>EnqueueScheduleIdle
  <2>1. TypeOK /\ Phases /\ Entered
    BY Zenon DEF StoreInv
  <2>2. mode = "up" /\ mode' = "up"
    BY <2>1, Zenon DEF Phases, Working, EnqueueSchedule
  <2>3. mode' # "recover"
    BY <2>2
  <2>4. PICK g : g = Entry(e)
    BY Zenon
  <2>5. /\ enqPool' = Append(enqPool, g) /\ pendMap' = (IF Smart THEN pendMap \union {e.op} ELSE pendMap)
        /\ stage' = [stage EXCEPT ![Pair(e)] = "acked"] /\ onQueue' = [onQueue EXCEPT ![Pair(e)] = @ + 1]
        /\ UNCHANGED <<leaving, storing, deleting, pid, db, victims, escapes>>
    BY <2>4, Zenon DEF EnqueueSchedule, Entry, disk
  <2>6. g \in Tasks /\ g.op = e.op /\ Pair(g) = Pair(e)
    <3>1. e.op \in Ops /\ e.msg \in Msgs
      BY <2>1 DEF TypeOK
    <3> QED
      BY <2>4, <3>1 DEF Entry, Tasks, Pair
  <2>7. Scheduled' = Scheduled \union {g}
    BY <2>1, <2>5, <2>6, ScheduledAppends, Zenon
  <2>8. \A t \in Scheduled : t.op # e.op
    BY <2>1, Zenon DEF Entered, OpsOf
  <2>9. Inserting' = Inserting \union {g}
    <3>1. \A t \in Scheduled : (Smart => t.op \in pendMap') <=> (Smart => t.op \in pendMap)
      BY <2>5, <2>8, Zenon
    <3>2. Smart => g.op \in pendMap'
      BY <2>5, <2>6, Zenon
    <3>3. ASSUME NEW t \in Inserting' PROVE t \in Inserting \union {g}
      BY <2>5, <2>7, <3>1, Zenon DEF Inserting
    <3>4. ASSUME NEW t \in Inserting \union {g} PROVE t \in Inserting'
      BY <2>5, <2>7, <3>1, <3>2, Zenon DEF Inserting
    <3> QED
      BY <3>3, <3>4, Zenon
  <2>10. /\ Pair(e) \in Pairs /\ stage[Pair(e)] = "sent" /\ onQueue'[Pair(e)] > 0 /\ stage'[Pair(e)] = "acked"
         /\ \A w \in Pairs : w # Pair(e) => onQueue'[w] = onQueue[w] /\ stage'[w] = stage[w]
    <3>1. Pair(e) \in Pairs /\ stage[Pair(e)] = "sent" /\ onQueue[Pair(e)] = 0
      BY <2>1, RecsTyped, Zenon DEF Recs, Working, Entered
    <3>2. /\ onQueue'[Pair(e)] = onQueue[Pair(e)] + 1 /\ stage'[Pair(e)] = "acked"
          /\ \A w \in Pairs : w # Pair(e) => onQueue'[w] = onQueue[w] /\ stage'[w] = stage[w]
      BY <2>1, <2>5, <3>1, Zenon DEF TypeOK
    <3>3. onQueue'[Pair(e)] > 0
      BY <3>1, <3>2
    <3> QED
      BY <3>1, <3>2, <3>3, Zenon
  <2>11. Aside' = Aside /\ "sent" # "done" /\ "acked" \in {"sent", "acked"}
    <3>1. Aside' = Aside
      BY <2>5, Zenon DEF Aside, Escaped, escapes
    <3> QED
      BY <3>1
  <2>12. Held'
    <3>1. \A r \in db \union Inserting : onQueue[Pair(r)] > 0 => onQueue'[Pair(r)] > 0
      <4>1. ASSUME NEW r \in db \union Inserting, onQueue[Pair(r)] > 0 PROVE onQueue'[Pair(r)] > 0
        <5>1. Pair(r) \in Pairs
          BY <2>1, RecsTyped, <1>InsertingWork, Zenon DEF Recs
        <5> QED
          BY <2>10, <4>1, <5>1, Zenon
      <4> QED
        BY <4>1, Zenon
    <3>2. \A r \in db' \union Inserting' : onQueue'[Pair(r)] > 0 \/
              \E s \in db \union Inserting : s.op = r.op /\ s.msg = r.msg
      BY <2>5, <2>6, <2>9, <2>10, Zenon
    <3> QED
      BY <2>2, <2>5, <2>11, <3>1, <3>2, <1>HeldFrame, Zenon DEF IdleInv
  <2>13. Backed'
    <3>1. \A w \in Pairs : onQueue'[w] > 0 => onQueue[w] > 0 \/ \E r \in db' \union Inserting' : Pair(r) = w
      BY <2>6, <2>9, <2>10, Zenon
    <3>2. \A r \in db \union Inserting : \E s \in db' \union Inserting' : s.op = r.op /\ s.msg = r.msg
      BY <2>5, <2>9, Zenon
    <3> QED
      BY <2>2, <2>11, <3>1, <3>2, <1>BackedFrame, Zenon DEF IdleInv
  <2>14. Strangers'
    <3>1. \A w \in Pairs : stage[w] = "done" => stage'[w] = "done"
      BY <2>10, <2>11, Zenon
    <3>2. \A w \in Pairs : onQueue'[w] > 0 => w \in Unasked' \/ (onQueue[w] > 0 /\ (w \in Unasked => w \in Unasked'))
      BY <2>10, <2>11, Zenon DEF Unasked
    <3>3. \A d \in deleting' : \E c \in deleting : c.op = d.op /\ c.msg = d.msg /\ (d.at = "wait" => c.at = "wait")
      BY <2>5, Zenon
    <3> QED
      BY <2>2, <2>5, <3>1, <3>2, <3>3, <1>StrangersFrame, Zenon DEF IdleInv
  <2> QED
    BY <2>3, <2>12, <2>13, <2>14, Zenon DEF IdleInv, Restored

\* A call of dequeue begins: the one copy leaves the queue, and what is in the
\* database or will be inserted is left to the call, or there is no such thing.
<1>DequeueBeginIdle.
    ASSUME NEW v \in Pairs, DequeueBegin(v)
    PROVE  IdleInv'
  <2> USE <1>DequeueBeginIdle
  <2>1. TypeOK /\ Named /\ Sent /\ Unique /\ OnceOnQueue /\ NotYet
    BY Zenon DEF StoreInv, TaskInv, OnceInv
  <2>2. PICK op, c : op = <<pid[v[1]], v[2]>> /\ c = [op |-> op, msg |-> v[1], exec |-> ~(Smart /\ op \in pendMap)]
    BY Zenon
  <2>3. /\ mode = "up" /\ mode' = "up" /\ onQueue[v] > 0 /\ onQueue' = [onQueue EXCEPT ![v] = @ - 1]
        /\ stage' = [stage EXCEPT ![v] = IF @ = "done" THEN @ ELSE "asked"]
        /\ pendMap' = pendMap \ {op} /\ leaving' = leaving \union {c}
        /\ UNCHANGED <<enqPool, storing, deleting, pid, db, victims, escapes>>
    BY <2>2, Zenon DEF DequeueBegin, disk
  <2>4. mode' # "recover"
    BY <2>3
  <2>5. /\ ~(onQueue'[v] > 0) /\ (stage[v] = "done" => stage'[v] = "done")
        /\ \A w \in Pairs : w # v => onQueue'[w] = onQueue[w] /\ stage'[w] = stage[w]
    <3>1. /\ onQueue'[v] = onQueue[v] - 1 /\ onQueue[v] \in Nat /\ onQueue[v] <= 1
          /\ stage'[v] = IF stage[v] = "done" THEN stage[v] ELSE "asked"
          /\ \A w \in Pairs : w # v => onQueue'[w] = onQueue[w] /\ stage'[w] = stage[w]
      BY <2>1, <2>3, Zenon DEF TypeOK, OnceOnQueue
    <3>2. ~(onQueue'[v] > 0)
      BY <3>1
    <3>3. stage[v] = "done" => stage'[v] = "done"
      BY <3>1
    <3> QED
      BY <3>1, <3>2, <3>3, Zenon
  <2>6. Pair(c) = v /\ c.op = op /\ c.exec = ~(Smart /\ op \in pendMap)
    <3>1. v = <<v[1], v[2]>>
      BY DEF Pairs
    <3> QED
      BY <2>2, <3>1 DEF Pair
  <2>7. ASSUME NEW r \in Recs PROVE Pair(r) = v <=> r.op = op
    <3>1. r.op = <<pid[r.msg], r.op[2]>> /\ pid[r.msg] = r.op[1] /\ r.msg \in Msgs
      BY <2>1, <2>3, <1>PidKnown, RecsTyped, Zenon
    <3>2. v[1] \in Msgs /\ v[2] \in Queues /\ v = <<v[1], v[2]>>
      BY DEF Pairs
    <3>3. ASSUME Pair(r) = v PROVE r.op = op
      <4>1. r.msg = v[1] /\ r.op[2] = v[2]
        BY <3>3 DEF Pair
      <4> QED
        BY <2>2, <3>1, <4>1, Zenon
    <3>4. ASSUME r.op = op PROVE Pair(r) = v
      <4>1. r.op[1] = pid[v[1]] /\ r.op[2] = v[2]
        BY <2>2, <3>4
      <4>2. pid[v[1]] # 0
        BY <2>1, <2>3, Zenon DEF Sent
      <4>3. <<r.op[1], r.msg>> \in Claims /\ <<pid[v[1]], v[1]>> \in Claims
        BY <3>2, <4>2, Zenon DEF Claims
      <4>4. r.msg = v[1]
        BY <2>1, <4>1, <4>3 DEF Named
      <4> QED
        BY <3>2, <4>1, <4>4, Zenon DEF Pair
    <3> QED
      BY <3>3, <3>4, Zenon
  <2>8. /\ \A r \in db \union Inserting : r \in Recs /\ Pair(r) \in Pairs
        /\ \A r \in Inserting' : r \in Inserting
        /\ \A r \in Inserting : r.op = op \/ r \in Inserting'
    <3>1. \A r \in Inserting' : r \in Inserting
      BY <2>3, Zenon DEF Inserting, Scheduled
    <3>2. \A r \in Inserting : r.op = op \/ r \in Inserting'
      BY <2>3, Zenon DEF Inserting, Scheduled
    <3> QED
      BY <2>1, <3>1, <3>2, RecsTyped, <1>InsertingWork, Zenon DEF Recs
  <2>9. Aside' = Aside
    BY <2>3, Zenon DEF Aside, Escaped, escapes
  <2>10. Held'
    <3>1. ASSUME NEW r \in db' \union Inserting', Pair(r) = v PROVE Leaves(r)'
      <4>1. r \in db \union Inserting /\ r.op = op
        BY <2>3, <2>7, <2>8, <3>1, Zenon
      <4>2. ASSUME Smart, op \in pendMap PROVE FALSE
        <5>1. PICK t \in Scheduled : t.op = op
          BY <2>1, <4>2, Zenon DEF Unique
        <5>2. r \notin db
          BY <2>1, <4>1, <5>1, Zenon DEF NotYet, Waiting
        <5>3. r \notin storing
          BY <2>1, <4>1, <5>1, Zenon DEF Unique
        <5>4. r \in Inserting' /\ r \notin storing'
          BY <2>3, <5>2, <5>3, Zenon
        <5>5. r.op \in pendMap'
          BY <4>2, <5>4, Zenon DEF Inserting
        <5> QED
          BY <2>3, <4>1, <5>5, Zenon
      <4>3. c.exec
        BY <2>6, <4>2, Zenon
      <4>4. c \in leaving' /\ Pair(c) = Pair(r)
        BY <2>3, <2>6, <3>1, Zenon
      <4> QED
        BY <4>3, <4>4, Zenon DEF Leaves, Pair
    <3>2. ASSUME NEW r \in db' \union Inserting', Pair(r) # v
          PROVE  onQueue'[Pair(r)] > 0 \/ Leaves(r)' \/ Pursued(r)' \/ Pair(r) \in Aside'
      <4>1. r \in db \union Inserting /\ Pair(r) \in Pairs
        BY <2>3, <2>8, Zenon
      <4>2. onQueue[Pair(r)] > 0 \/ Leaves(r) \/ Pursued(r) \/ Pair(r) \in Aside
        BY <2>3, <4>1, Zenon DEF IdleInv, Held
      <4>3. onQueue'[Pair(r)] = onQueue[Pair(r)]
        BY <2>5, <3>2, <4>1, Zenon
      <4>4. Leaves(r) => Leaves(r)'
        BY <2>3, Zenon DEF Leaves, Pair
      <4>5. Pursued(r) => Pursued(r)'
        BY <2>3, Zenon DEF Pursued
      <4> QED
        BY <2>9, <4>2, <4>3, <4>4, <4>5, Zenon
    <3> QED
      BY <3>1, <3>2, Zenon DEF Held, Pair
  <2>11. Backed'
    <3>1. \A w \in Pairs : onQueue'[w] > 0 => onQueue[w] > 0
      BY <2>5, Zenon
    <3>2. ASSUME NEW r \in db \union Inserting, onQueue'[Pair(r)] > 0 PROVE r \in db' \union Inserting'
      <4>1. r \in Recs /\ Pair(r) # v
        BY <2>5, <2>8, <3>2, Zenon
      <4>2. r.op # op
        BY <2>7, <4>1, Zenon
      <4> QED
        BY <2>3, <2>8, <4>2, Zenon
    <3> QED
      BY <2>3, <2>9, <3>1, <3>2, <1>BackedFrame, Zenon DEF IdleInv
  <2>12. Strangers'
    <3>1. \A w \in Pairs : stage[w] = "done" => stage'[w] = "done"
      BY <2>5, Zenon
    <3>2. \A w \in Pairs : onQueue'[w] > 0 => w \in Unasked' \/ (onQueue[w] > 0 /\ (w \in Unasked => w \in Unasked'))
      BY <2>5, Zenon DEF Unasked
    <3>3. \A d \in deleting' : \E x \in deleting : x.op = d.op /\ x.msg = d.msg /\ (d.at = "wait" => x.at = "wait")
      BY <2>3, Zenon
    <3> QED
      BY <2>3, <3>1, <3>2, <3>3, <1>StrangersFrame, Zenon DEF IdleInv
  <2> QED
    BY <2>4, <2>10, <2>11, <2>12, Zenon DEF IdleInv, Restored

\* A call of dequeue ends: what it was to see deleted is under deletion.
<1>DequeueEndIdle.
    ASSUME NEW d \in leaving, DequeueEnd(d)
    PROVE  IdleInv'
  <2> USE <1>DequeueEndIdle
  <2>1. TypeOK /\ Named /\ Phases /\ Entered
    BY Zenon DEF StoreInv
  <2>2. PICK c : c = [op |-> d.op, msg |-> d.msg, at |-> "wait"]
    BY Zenon
  <2>3. /\ leaving' = leaving \ {d} /\ stage' = [stage EXCEPT ![Pair(d)] = "done"]
        /\ UNCHANGED <<onQueue, pid, pendMap, enqPool, storing, db, mode, victims, escapes>>
        /\ d.exec => deleting' = deleting \union {c}
        /\ ~d.exec => deleting' = deleting
    BY <2>2, Zenon DEF DequeueEnd, ids, broker
  <2>4. mode = "up" /\ mode' = "up"
    BY <2>1, <2>3, Zenon DEF Phases
  <2>5. mode' # "recover"
    BY <2>4
  <2>6. d \in Recs /\ c.op = d.op /\ c.msg = d.msg /\ c.at = "wait" /\ Pair(c) = Pair(d)
    <3>1. c.op = d.op /\ c.msg = d.msg /\ c.at = "wait"
      BY <2>2
    <3> QED
      BY <3>1, <1>PairOf, Zenon DEF Recs
  <2>7. Pair(d) \in Pairs /\ d.msg \in Msgs /\ stage[Pair(d)] \in {"asked", "done"} /\ pid[d.msg] = d.op[1]
    BY <2>1, <2>4, <2>6, RecsTyped, <1>PidKnown, Zenon DEF Entered
  <2>8. Inserting' = Inserting /\ Aside' = Aside
    BY <2>3, Zenon DEF Inserting, Scheduled, Aside, Escaped, escapes
  <2>9. Held'
    <3>1. ASSUME NEW r \in db' \union Inserting'
          PROVE  onQueue'[Pair(r)] > 0 \/ Leaves(r)' \/ Pursued(r)' \/ Pair(r) \in Aside'
      <4>1. r \in db \union Inserting
        BY <2>3, <2>8, Zenon
      <4>2. onQueue[Pair(r)] > 0 \/ Leaves(r) \/ Pursued(r) \/ Pair(r) \in Aside
        BY <2>4, <4>1, Zenon DEF IdleInv, Held
      <4>3. Pursued(r) => Pursued(r)'
        BY <2>3, Zenon DEF Pursued
      <4>4. ASSUME Leaves(r) PROVE Leaves(r)' \/ Pursued(r)'
        <5>1. PICK x \in leaving : x.exec /\ Pair(x) = Pair(r)
          BY <4>4, Zenon DEF Leaves
        <5>2. CASE x # d
          <6>1. x \in leaving' /\ x.exec /\ Pair(x) = Pair(r)
            BY <2>3, <5>1, <5>2, Zenon
          <6> QED
            BY <6>1, Zenon DEF Leaves, Pair
        <5>3. CASE x = d
          <6>1. r \in Recs
            BY <4>1, <1>InsertingWork, Zenon DEF Recs
          <6>2. r.op = d.op
            BY <2>1, <2>6, <5>1, <5>3, <6>1, SameOpsNow, Zenon DEF SameOps
          <6>3. r.msg = d.msg
            BY <5>1, <5>3 DEF Pair
          <6>4. c \in deleting'
            BY <2>3, <5>1, <5>3, Zenon
          <6> QED
            BY <2>6, <6>2, <6>3, <6>4, Zenon DEF Pursued
        <5> QED
          BY <5>2, <5>3, Zenon
      <4> QED
        BY <2>3, <2>8, <4>2, <4>3, <4>4, Zenon
    <3> QED
      BY <3>1, Zenon DEF Held, Pair
  <2>10. Backed'
    BY <2>3, <2>4, <2>8, <1>BackedFrame, Zenon DEF IdleInv
  <2>11. \A w \in Pairs : (w \in Unasked => w \in Unasked') /\ (stage[w] = "done" => stage'[w] = "done")
    <3>1. \A w \in Pairs : w # Pair(d) => stage'[w] = stage[w]
      BY <2>1, <2>3, Zenon DEF TypeOK
    <3>2. stage'[Pair(d)] = "done" /\ Pair(d) \notin Unasked
      <4>1. stage[Pair(d)] \notin {"sent", "acked"}
        BY <2>7
      <4> QED
        BY <2>1, <2>3, <2>7, <4>1, Zenon DEF TypeOK, Unasked
    <3> QED
      BY <3>1, <3>2, Zenon DEF Unasked
  <2>12. ASSUME NEW x \in deleting, x.msg # NoMsg PROVE pid[x.msg] = x.op[1] /\ stage'[Pair(x)] = "done"
    <3>1. pid[x.msg] = x.op[1] /\ stage[Pair(x)] = "done"
      BY <2>12, Zenon DEF IdleInv, Strangers
    <3>2. Pair(x) \in Pairs
      <4>1. x.op \in Ops /\ x.msg \in Msgs
        BY <2>1, <2>12 DEF TypeOK
      <4>2. x.op[2] \in Queues
        BY <4>1 DEF Ops
      <4> QED
        BY <4>1, <4>2, Zenon DEF Pair, Pairs
    <3> QED
      BY <2>11, <3>1, <3>2, Zenon
  <2>13. Strangers'
    <3>1. c.msg # NoMsg
      BY <2>6, <2>7 DEF Msgs, NoMsg
    <3>2. pid'[c.msg] = c.op[1] /\ stage'[Pair(c)] = "done"
      <4>1. stage'[Pair(d)] = "done"
        BY <2>1, <2>3, <2>7, Zenon DEF TypeOK
      <4> QED
        BY <2>3, <2>6, <2>7, <4>1, Zenon
    <3>3. ASSUME NEW x \in deleting', x.msg # NoMsg PROVE pid'[x.msg] = x.op[1] /\ stage'[Pair(x)] = "done"
      BY <2>3, <2>12, <3>2, <3>3, Zenon
    <3>4. ASSUME NEW x \in deleting', x.msg = NoMsg, x.at = "wait", NEW w \in Pairs, onQueue'[w] > 0,
                 <<pid'[w[1]], w[2]>> = x.op
          PROVE  w \in Unasked'
      <4>1. x \in deleting
        BY <2>3, <3>1, <3>4, Zenon
      <4>2. onQueue[w] > 0 /\ <<pid[w[1]], w[2]>> = x.op
        BY <2>3, <3>4, Zenon
      <4> QED
        BY <2>11, <3>4, <4>1, <4>2, Zenon DEF IdleInv, Strangers
    <3> QED
      BY <3>3, <3>4, Zenon DEF Strangers, Pair
  <2> QED
    BY <2>5, <2>9, <2>10, <2>13, Zenon DEF IdleInv, Restored

\* The deletion: a message on its queue that loses its record is a victim.
<1>RemoveMsgIdle.
    ASSUME NEW d \in deleting, RemoveMsg(d)
    PROVE  IdleInv'
  <2> USE <1>RemoveMsgIdle
  <2>1. TypeOK /\ Named /\ Phases /\ Logged /\ Strangers
    BY Zenon DEF StoreInv, TaskInv, IdleInv
  <2>2. PICK c : c = [d EXCEPT !.at = "log"]
    BY Zenon
  <2>3. /\ db' = db \ {r \in db : r.op = d.op} /\ d.at = "wait" /\ deleting' = (deleting \ {d}) \union {c}
        /\ victims' = victims \union {Pair(r) : r \in {g \in {r \in db : r.op = d.op} : Pair(g) \in Unasked}}
        /\ overtaken' = overtaken \union {Pair(e) : e \in {e \in enqLog : e.op = d.op /\ Pair(e) \notin Unasked}}
        /\ UNCHANGED <<mode, stage, onQueue, pid, leaving, pendMap, enqPool, storing, reopened, interrupted, unlogged>>
    BY <2>2, Zenon DEF RemoveMsg, broker, ids
  <2>4. mode = "up" /\ mode' = "up"
    BY <2>1, <2>3, Zenon DEF Phases
  <2>5. mode' # "recover"
    BY <2>4
  <2>6. c.op = d.op /\ c.msg = d.msg /\ c.at = "log" /\ c.at # "wait"
    <3>1. d \in [op : Ops, msg : Msgs \union {NoMsg}, at : {"wait", "log"}]
      BY <2>1, Zenon DEF TypeOK
    <3> QED
      BY <2>2, <3>1
  <2>7. Inserting' = Inserting /\ Aside \subseteq Aside'
    BY <2>3, Zenon DEF Inserting, Scheduled, Aside, Escaped
  <2>8. ASSUME d.msg # NoMsg PROVE stage[Pair(d)] = "done" /\ Pair(d) \notin Unasked /\ pid[d.msg] = d.op[1] /\ d.msg \in Msgs
    <3>1. stage[Pair(d)] = "done" /\ pid[d.msg] = d.op[1]
      BY <2>1, <2>8, Zenon DEF Strangers
    <3>2. stage[Pair(d)] \notin {"sent", "acked"}
      BY <3>1
    <3>3. d.msg \in Msgs
      BY <2>1, <2>8 DEF TypeOK
    <3> QED
      BY <3>1, <3>2, <3>3, Zenon DEF Unasked
  <2>9. Held'
    <3>1. ASSUME NEW r \in db' \union Inserting'
          PROVE  onQueue'[Pair(r)] > 0 \/ Leaves(r)' \/ Pursued(r)' \/ Pair(r) \in Aside'
      <4>1. r \in db \union Inserting /\ (r \in Inserting \/ r.op # d.op)
        BY <2>3, <2>7, Zenon
      <4>2. onQueue[Pair(r)] > 0 \/ Leaves(r) \/ Pursued(r) \/ Pair(r) \in Aside
        BY <2>4, <4>1, Zenon DEF IdleInv, Held
      <4>3. Leaves(r) => Leaves(r)'
        BY <2>3, Zenon DEF Leaves, Pair
      <4>4. ASSUME Pursued(r) PROVE Pursued(r)' \/ Pair(r) \in Aside'
        <5>1. PICK x \in deleting : x.at = "wait" /\ x.op = r.op /\ x.msg = r.msg
          BY <4>4, Zenon DEF Pursued
        <5>2. CASE x # d
          BY <2>3, <5>1, <5>2, Zenon DEF Pursued
        <5>3. CASE x = d
          <6>1. r \in Inserting
            BY <4>1, <5>1, <5>3, Zenon
          <6>2. Entry(r) \in enqLog /\ Entry(r).op = d.op /\ Pair(Entry(r)) = Pair(r)
            <7>1. Entry(r) \in enqLog
              BY <2>1, <6>1, <1>InsertingWork, Zenon DEF Logged
            <7>2. Entry(r).op = r.op /\ Entry(r).msg = r.msg
              BY DEF Entry
            <7> QED
              BY <5>1, <5>3, <7>1, <7>2, <1>PairOf, Zenon
          <6>3. r.msg \in Msgs
            BY <2>1, <6>1, <1>InsertingWork, RecsTyped, Zenon
          <6>4. d.msg # NoMsg
            BY <5>1, <5>3, <6>3 DEF Msgs, NoMsg
          <6>5. Pair(r) = Pair(d)
            BY <5>1, <5>3, <1>PairOf, Zenon
          <6>6. Pair(Entry(r)) \notin Unasked
            BY <2>8, <6>2, <6>4, <6>5, Zenon
          <6>7. Pair(r) \in overtaken'
            BY <2>3, <6>2, <6>6, Zenon
          <6> QED
            BY <6>7, Zenon DEF Aside, Escaped
        <5> QED
          BY <5>2, <5>3, Zenon
      <4> QED
        BY <2>3, <2>7, <4>2, <4>3, <4>4, Zenon
    <3> QED
      BY <3>1, Zenon DEF Held, Pair
  <2>10. Backed'
    <3>1. ASSUME NEW r \in db, Pair(r) \notin Aside', onQueue[Pair(r)] > 0, r.op = d.op PROVE FALSE
      <4>1. /\ r \in Recs /\ Pair(r) \in Pairs /\ r.msg \in Msgs
            /\ pid[r.msg] = r.op[1] /\ pid[r.msg] # 0 /\ <<pid[r.msg], r.op[2]>> = r.op
        BY <2>1, <2>4, RecsTyped, <1>PidKnown, Zenon DEF Recs
      <4>2. CASE d.msg = NoMsg
        <5>1. Pair(r)[1] = r.msg /\ Pair(r)[2] = r.op[2]
          BY DEF Pair
        <5>2. <<pid[Pair(r)[1]], Pair(r)[2]>> = d.op
          BY <3>1, <4>1, <5>1, Zenon
        <5>3. Pair(r) \in Unasked
          BY <2>1, <2>3, <3>1, <4>1, <4>2, <5>2, Zenon DEF Strangers
        <5>4. Pair(r) \in victims'
          BY <2>3, <3>1, <5>3, Zenon
        <5> QED
          BY <3>1, <5>4, Zenon DEF Aside
      <4>3. CASE d.msg # NoMsg
        <5>1. pid[d.msg] = d.op[1] /\ d.msg \in Msgs /\ stage[Pair(d)] = "done"
          BY <2>8, <4>3, Zenon
        <5>2. pid[d.msg] = pid[r.msg] /\ pid[d.msg] # 0
          BY <3>1, <4>1, <5>1, Zenon
        <5>3. <<pid[d.msg], d.msg>> \in Claims /\ <<pid[r.msg], r.msg>> \in Claims
          BY <4>1, <5>1, <5>2, Zenon DEF Claims
        <5>4. d.msg = r.msg
          BY <2>1, <5>2, <5>3 DEF Named
        <5>5. Pair(d) = Pair(r)
          BY <3>1, <5>4, <1>PairOf, Zenon
        <5>6. Settled(Pair(r))
          BY <2>7, <3>1, <5>1, <5>5, Zenon DEF Settled, Aside
        <5>7. onQueue[Pair(r)] = 0
          BY <2>4, <4>1, <5>6, Zenon DEF Gone, GoneUp
        <5> QED
          BY <3>1, <5>7
      <4> QED
        BY <4>2, <4>3, Zenon
    <3>2. ASSUME NEW r \in db \union Inserting, Pair(r) \notin Aside', onQueue'[Pair(r)] > 0 PROVE r \in db' \union Inserting'
      BY <2>3, <2>7, <3>1, <3>2, Zenon
    <3> QED
      BY <2>3, <2>4, <2>7, <3>2, <1>BackedFrame, Zenon DEF IdleInv
  <2>11. Strangers'
    <3>1. ASSUME NEW x \in deleting' PROVE \E y \in deleting : y.op = x.op /\ y.msg = x.msg /\ (x.at = "wait" => y.at = "wait")
      BY <2>3, <2>6, Zenon
    <3>2. Unasked' = Unasked
      BY <2>3, Zenon DEF Unasked
    <3> QED
      BY <2>1, <2>3, <2>4, <3>1, <3>2, <1>StrangersFrame, Zenon
  <2> QED
    BY <2>5, <2>9, <2>10, <2>11, Zenon DEF IdleInv, Restored

\* The completion of a deletion.
<1>RemoveLogIdle.
    ASSUME NEW d \in deleting, RemoveLog(d)
    PROVE  IdleInv'
  <2> USE <1>RemoveLogIdle
  <2>1. TypeOK /\ Phases
    BY Zenon DEF StoreInv
  <2>2. /\ d.at = "log" /\ deleting' = deleting \ {d} /\ unlogged \subseteq unlogged'
        /\ UNCHANGED <<mode, stage, onQueue, pid, leaving, pendMap, enqPool, storing, db, victims, overtaken, reopened,
                       interrupted>>
    BY Zenon DEF RemoveLog, broker, ids
  <2>3. mode = "up" /\ mode' = "up"
    BY <2>1, <2>2, Zenon DEF Phases
  <2>4. mode' # "recover" /\ d.at # "wait"
    BY <2>2, <2>3
  <2>5. Inserting' = Inserting /\ Aside \subseteq Aside'
    BY <2>2, Zenon DEF Inserting, Scheduled, Aside, Escaped
  <2>6. Held'
    <3>1. ASSUME NEW r \in db' \union Inserting'
          PROVE  onQueue'[Pair(r)] > 0 \/ Leaves(r)' \/ Pursued(r)' \/ Pair(r) \in Aside'
      <4>1. onQueue[Pair(r)] > 0 \/ Leaves(r) \/ Pursued(r) \/ Pair(r) \in Aside
        BY <2>2, <2>3, <2>5, Zenon DEF IdleInv, Held
      <4>2. Leaves(r) => Leaves(r)'
        BY <2>2, Zenon DEF Leaves, Pair
      <4>3. Pursued(r) => Pursued(r)'
        BY <2>2, <2>4, Zenon DEF Pursued
      <4> QED
        BY <2>2, <2>5, <4>1, <4>2, <4>3, Zenon
    <3> QED
      BY <3>1, Zenon DEF Held, Pair
  <2>7. Backed'
    BY <2>2, <2>3, <2>5, <1>BackedFrame, Zenon DEF IdleInv
  <2>8. Strangers'
    <3>1. Unasked' = Unasked
      BY <2>2, Zenon DEF Unasked
    <3> QED
      BY <2>2, <2>3, <3>1, <1>StrangersFrame, Zenon DEF IdleInv
  <2> QED
    BY <2>4, <2>6, <2>7, <2>8, Zenon DEF IdleInv, Restored

\* While the broker is down only recovery has a part in the invariant.
<1>DownIdle.
    ASSUME mode' # "up", Restored'
    PROVE  IdleInv'
  <2> USE <1>DownIdle
  <2>1. deleting' = {}
    BY Zenon DEF StoreInv, Phases
  <2> QED
    BY <2>1, Zenon DEF IdleInv, Held, Backed, Strangers

\* A crash, and the logs are read.
<1>CrashIdle.
    ASSUME Crash \/ ReadLogs
    PROVE  IdleInv'
  <2> USE <1>CrashIdle
  <2>1. CASE Crash
    <3>1. mode' = "read"
      BY <2>1, Zenon DEF Crash
    <3>2. mode' # "up" /\ mode' # "recover"
      BY <3>1
    <3> QED
      BY <3>2, <1>DownIdle, Zenon DEF Restored
  <2>2. CASE ReadLogs
    <3>1. mode = "read" /\ mode' = "recover" /\ todo' = Queues /\ UNCHANGED onQueue
      BY <2>2, Zenon DEF ReadLogs, broker
    <3>2. mode' # "up" /\ ~(0 > 0)
      BY <3>1
    <3>3. \A w \in Pairs : ~(onQueue'[w] > 0)
      BY <3>1, <3>2, ReadEmpty, Zenon
    <3>4. \A r \in Recs : r.op[2] \in Queues
      BY RecsTyped, Zenon DEF StoreInv
    <3>5. \A r \in db' \union aeset' : r.op[2] \in todo'
      BY <2>2, <3>1, <3>4, Zenon DEF ReadLogs, Recs, disk
    <3> QED
      BY <3>2, <3>3, <3>5, <1>DownIdle, Zenon DEF Restored
  <2> QED
    BY <2>1, <2>2, Zenon

\* decodeAndRecoverMsg: a queue it is done with holds what recovery keeps of it.
<1>RecoverQueueIdle.
    ASSUME NEW q \in Queues, RecoverQueue(q)
    PROVE  IdleInv'
  <2> USE <1>RecoverQueueIdle
  <2>1. TypeOK /\ Named /\ Recovering /\ Reread /\ Restored
    BY Zenon DEF StoreInv, TaskInv, IdleInv
  <2>2. /\ mode = "recover" /\ mode' = "recover" /\ q \in todo /\ todo' = todo \ {q}
        /\ aeset' = aeset \ (Useless \union Transients \union AlreadyEnqueued(q))
        /\ adset' = adset \ (OpsOf(Useless) \union OpsOf(Accepted(q)))
        /\ discard' = discard \union OpsOf(On(db, q) \ FromDb(q)) \union OpsOf(Accepted(q))
        /\ \A w \in Pairs : onQueue'[w] = onQueue[w] + PutBack(q, w)
        /\ db' = db
    BY RecoverQueueIs, Zenon
  <2>3. mode' # "up"
    BY <2>2
  <2>4. ASSUME NEW w \in Pairs
        PROVE  /\ onQueue[w] > 0 => onQueue'[w] > 0
               /\ (\E r \in Restoring(q) : Pair(r) = w) => onQueue'[w] > 0
               /\ onQueue'[w] > 0 => onQueue[w] > 0 \/ \E r \in Restoring(q) : Pair(r) = w
    <3>1. PutBack(q, w) \in 0..2 /\ (PutBack(q, w) > 0 <=> \E r \in Restoring(q) : Pair(r) = w)
      BY <2>1, CopiesAre, Zenon
    <3>2. onQueue[w] \in Nat /\ onQueue'[w] = onQueue[w] + PutBack(q, w)
      BY <2>1, <2>2, Zenon DEF TypeOK
    <3>3. /\ onQueue[w] > 0 => onQueue'[w] > 0
          /\ PutBack(q, w) > 0 => onQueue'[w] > 0
          /\ onQueue'[w] > 0 => onQueue[w] > 0 \/ PutBack(q, w) > 0
      BY <3>1, <3>2
    <3> QED
      BY <3>1, <3>3, Zenon
  <2>5. \A r \in db \union aeset : Pair(r) \in Pairs
    BY <2>1, RecsTyped, Zenon DEF Recs
  <2>6. ASSUME NEW r \in db, r.op[2] \notin todo' PROVE r.op \in discard' \/ onQueue'[Pair(r)] > 0
    <3>1. CASE r.op[2] \notin todo
      <4>1. r.op \in discard \/ onQueue[Pair(r)] > 0
        BY <2>1, <2>2, <3>1, Zenon DEF Restored
      <4> QED
        BY <2>2, <2>4, <2>5, <4>1, Zenon
    <3>2. CASE r.op[2] = q
      <4>1. r \in On(db, q)
        BY <3>2, Zenon DEF On
      <4>2. r \in On(db, q) \ FromDb(q) \/ r \in Accepted(q) \/ r \in Restoring(q)
        BY <4>1, Zenon DEF Restoring
      <4>3. CASE r \in On(db, q) \ FromDb(q) \/ r \in Accepted(q)
        BY <2>2, <4>3, Zenon DEF OpsOf
      <4>4. CASE r \in Restoring(q)
        BY <2>4, <2>5, <4>4, Zenon
      <4> QED
        BY <4>2, <4>3, <4>4, Zenon
    <3> QED
      BY <2>2, <2>6, <3>1, <3>2, Zenon
  <2>7. ASSUME NEW e \in aeset', e.op[2] \notin todo' PROVE onQueue'[Pair(e)] > 0
    <3>1. e \in aeset /\ e \notin Useless /\ e \notin Transients /\ e \notin AlreadyEnqueued(q)
      BY <2>2, Zenon
    <3>2. CASE e.op[2] \notin todo
      <4>1. onQueue[Pair(e)] > 0
        BY <2>1, <2>2, <3>1, <3>2, Zenon DEF Restored
      <4> QED
        BY <2>4, <2>5, <3>1, <4>1, Zenon
    <3>3. CASE e.op[2] = q
      <4>1. e.msg \notin TransientMsgs
        BY <3>1, Zenon DEF Transients
      <4>2. e \in FromLog(q)
        BY <3>1, <3>3, <4>1, Zenon DEF FromLog, On, Persistent
      <4> QED
        BY <2>4, <2>5, <3>1, <4>2, Zenon DEF Restoring
    <3> QED
      BY <2>2, <2>7, <3>2, <3>3, Zenon
  <2>8. ASSUME NEW w \in Pairs, onQueue[w] > 0
        PROVE  \E r \in db' \union aeset' : Pair(r) = w /\ r.op \notin discard' \union adset'
    <3>1. PICK r \in db \union aeset : Pair(r) = w /\ r.op \notin discard \union adset
      BY <2>1, <2>2, <2>8, Zenon DEF Restored
    <3>2. w[2] \notin todo
      <4>1. w[2] \in todo => onQueue[w] = 0
        BY <2>1, <2>2, Zenon DEF Reread
      <4> QED
        BY <2>8, <4>1
    <3>3. todo # Queues /\ r.op[2] # q
      <4>1. w[2] \in Queues
        BY DEF Pairs
      <4>2. r.op[2] = w[2]
        BY <3>1 DEF Pair
      <4> QED
        BY <2>2, <3>2, <4>1, <4>2, Zenon
    <3>4. Useless = {} /\ Transients = {}
      BY <2>1, <2>2, <3>3, Zenon DEF Recovering
    <3>5. r \notin AlreadyEnqueued(q)
      BY <3>3, FoundIn, Zenon
    <3>6. r \in db' \union aeset'
      BY <2>2, <3>4, <3>5, Zenon
    <3>7. r.op \notin OpsOf(On(db, q) \ FromDb(q)) /\ r.op \notin OpsOf(Accepted(q))
      <4>1. \A x \in On(db, q) \union FromDb(q) : x.op[2] = q
        BY FoundIn, Zenon DEF On
      <4>2. Accepted(q) \subseteq FromDb(q)
        BY FoundIn, Zenon
      <4> QED
        BY <3>3, <4>1, <4>2, Zenon DEF OpsOf
    <3>8. r.op \notin discard' \union adset'
      BY <2>2, <3>1, <3>7, Zenon
    <3> QED
      BY <3>1, <3>6, <3>8, Zenon
  <2>9. ASSUME NEW r \in Restoring(q) PROVE r \in db' \union aeset' /\ r.op \notin discard' \union adset'
    <3>1. r.op[2] = q /\ r \in db \union aeset
      BY FoundIn, Zenon DEF Restoring
    <3>2. r.op \notin discard
      BY <2>1, <2>2, <3>1, Zenon DEF Reread
    <3>3. ASSUME NEW x \in db, x.op = r.op PROVE x = r
      <4>1. Pair(x) = Pair(r)
        BY <2>1, <3>1, <3>3, SameOpsNow, Zenon DEF SameOps, Recs
      <4> QED
        BY <2>1, <3>1, <4>1, SameRecord, Zenon
    <3>4. CASE r \in FromDb(q) \ Accepted(q)
      <4>1. r \in db' /\ r.op \notin adset'
        BY <2>2, <3>4, FoundIn, Zenon DEF Accepted
      <4>2. r.op \notin OpsOf(On(db, q) \ FromDb(q))
        BY <3>3, <3>4, Zenon DEF OpsOf, On
      <4>3. r.op \notin OpsOf(Accepted(q))
        <5>1. Accepted(q) \subseteq db
          BY FoundIn, Zenon
        <5> QED
          BY <3>3, <3>4, <5>1, Zenon DEF OpsOf
      <4> QED
        BY <2>2, <3>2, <4>1, <4>2, <4>3, Zenon
    <3>5. CASE r \in FromLog(q)
      <4>1. r \in aeset' /\ r \in aeset /\ r \notin Useless /\ r \notin Transients
        BY <2>2, <3>5, FoundIn, Zenon
      <4>2. r.op \notin adset
        BY <4>1, Zenon DEF Useless
      <4>3. r.msg \notin TransientMsgs
        BY <4>1, Zenon DEF Transients
      <4>4. r.op \notin OpsOf(On(db, q) \ FromDb(q))
        BY <3>3, <4>3, Zenon DEF OpsOf, On, FromDb, Persistent
      <4>5. r.op \notin OpsOf(Accepted(q))
        BY <4>2, Zenon DEF OpsOf, Accepted
      <4> QED
        BY <2>2, <3>2, <4>1, <4>2, <4>4, <4>5, Zenon
    <3> QED
      BY <3>4, <3>5, Zenon DEF Restoring
  <2>10. ASSUME NEW w \in Pairs, onQueue'[w] > 0
         PROVE  \E r \in db' \union aeset' : Pair(r) = w /\ r.op \notin discard' \union adset'
    BY <2>4, <2>8, <2>9, <2>10, Zenon
  <2>11. Restored'
    BY <2>2, <2>6, <2>7, <2>10, Zenon DEF Restored, Pair
  <2> QED
    BY <2>3, <2>11, <1>DownIdle, Zenon

\* The mass completions, and the deletions at the end of recovery.
<1>DiscardIdle.
    ASSUME NEW op, LogMass \/ Discard(op)
    PROVE  IdleInv'
  <2> USE <1>DiscardIdle
  <2>1. /\ mode = "recover" /\ mode' = "recover" /\ UNCHANGED <<onQueue, todo, adset, aeset>>
    BY LogMassIs, Zenon DEF Discard, Discarding, broker
  <2>2. mode' # "up"
    BY <2>1
  <2>3. (db' = db /\ discard' = discard) \/ (db' = Without(db, {op}) /\ discard' = discard \ {op})
    BY Zenon DEF LogMass, Discard
  <2>4. /\ \A r \in db' : r \in db /\ (r.op \in discard => r.op \in discard')
        /\ \A r \in db : r.op \notin discard => r \in db' \/ r.op = op
        /\ \A o \in discard' : o \in discard
    BY <2>3, Zenon DEF Without
  <2>5. Restored
    BY Zenon DEF IdleInv
  <2>6. ASSUME NEW r \in db', r.op[2] \notin todo' PROVE r.op \in discard' \/ onQueue'[Pair(r)] > 0
    BY <2>1, <2>4, <2>5, <2>6, Zenon DEF Restored
  <2>7. ASSUME NEW w \in Pairs, onQueue'[w] > 0
        PROVE  \E r \in db' \union aeset' : Pair(r) = w /\ r.op \notin discard' \union adset'
    <3>1. PICK r \in db \union aeset : Pair(r) = w /\ r.op \notin discard \union adset
      BY <2>1, <2>5, <2>7, Zenon DEF Restored
    <3>2. r \in db => r \in db'
      <4>1. Discard(op) => op \in discard
        BY Zenon DEF Discard
      <4>2. CASE LogMass
        BY <4>2, Zenon DEF LogMass
      <4>3. CASE Discard(op)
        BY <3>1, <4>1, <4>3, Zenon DEF Discard, Without
      <4> QED
        BY <4>2, <4>3, Zenon
    <3>3. r \in db' \union aeset' /\ r.op \notin discard' \union adset'
      BY <2>1, <2>4, <3>1, <3>2, Zenon
    <3> QED
      BY <3>1, <3>3, Zenon
  <2>8. Restored'
    BY <2>1, <2>5, <2>6, <2>7, Zenon DEF Restored, Pair
  <2> QED
    BY <2>2, <2>8, <1>DownIdle, Zenon

\* The end of recovery: what is resumed is on its queue, or concerns no message on one.
<1>ResurrectIdle.
    ASSUME Resurrect
    PROVE  IdleInv'
  <2> USE <1>ResurrectIdle
  <2>1. /\ mode = "recover" /\ todo = {} /\ discard = {} /\ mode' = "up"
        /\ pendMap' = (IF Smart THEN OpsOf(aeset) ELSE {}) /\ storing' = {} /\ Scheduled' = aeset
        /\ deleting' = {[op |-> o, msg |-> NoMsg, at |-> "wait"] : o \in adset}
        /\ UNCHANGED <<broker, db>>
    BY ResurrectIs, Zenon
  <2>2. mode' # "recover"
    BY <2>1
  <2>3. TypeOK /\ Named /\ Sent /\ Restored
    BY Zenon DEF StoreInv, IdleInv
  <2>4. Inserting' = aeset
    <3>1. \A t \in aeset : Smart => t.op \in pendMap'
      BY <2>1, Zenon DEF OpsOf
    <3> QED
      BY <2>1, <3>1, Zenon DEF Inserting
  <2>5. onQueue' = onQueue /\ pid' = pid
    BY <2>1, Zenon DEF broker
  <2>6. Held'
    <3>1. \A r \in db' \union Inserting' : onQueue'[Pair(r)] > 0
      BY <2>1, <2>3, <2>4, <2>5, Zenon DEF Restored
    <3> QED
      BY <3>1, Zenon DEF Held, Pair
  <2>7. Backed'
    <3>1. \A w \in Pairs : onQueue'[w] > 0 => \E r \in db' \union Inserting' : Pair(r) = w
      BY <2>1, <2>3, <2>4, <2>5, Zenon DEF Restored
    <3> QED
      BY <3>1, Zenon DEF Backed, Pair
  <2>8. Strangers'
    <3>1. ASSUME NEW d \in deleting' PROVE d.msg = NoMsg /\ d.op \in adset
      BY <2>1
    <3>2. ASSUME NEW w \in Pairs, onQueue'[w] > 0 PROVE <<pid'[w[1]], w[2]>> \notin adset
      <4>1. PICK r \in db \union aeset : Pair(r) = w /\ r.op \notin discard \union adset
        BY <2>1, <2>3, <2>5, <3>2, Zenon DEF Restored
      <4>2. r.msg = w[1] /\ r.op[2] = w[2]
        BY <4>1 DEF Pair
      <4>3. pid[w[1]] # 0
        BY <2>3, <2>5, <3>2, Zenon DEF Sent
      <4>4. <<pid[r.msg], r.op[2]>> = r.op
        BY <2>3, <4>2, <4>3, <1>PidOf, Zenon DEF Recs
      <4> QED
        BY <2>5, <4>1, <4>2, <4>4, Zenon
    <3> QED
      BY <3>1, <3>2, Zenon DEF Strangers
  <2> QED
    BY <2>2, <2>6, <2>7, <2>8, Zenon DEF IdleInv, Restored

\* A step that changes nothing.
<1>StutterIdle.
    ASSUME UNCHANGED vars
    PROVE  IdleInv'
  <2> USE <1>StutterIdle
  <2>1. UNCHANGED <<ids, tasks, broker, disk, mode, recovery, stage, victims, escapes>>
    BY Zenon DEF vars
  <2>2. /\ UNCHANGED <<pendMap, enqPool, storing, leaving, deleting, onQueue, pid, db, mode, stage>>
        /\ UNCHANGED <<todo, adset, aeset, discard>>
    BY <2>1, Zenon DEF ids, tasks, broker, disk, recovery
  <2>3. Inserting' = Inserting /\ Aside' = Aside /\ Unasked' = Unasked
    BY <2>1, <2>2, Zenon DEF Inserting, Scheduled, Aside, Escaped, escapes, Unasked
  <2>4. Held'
    BY <2>2, <2>3, Zenon DEF IdleInv, Held, Leaves, Pursued, Pair
  <2>5. Backed'
    BY <2>2, <2>3, Zenon DEF IdleInv, Backed, Pair
  <2>6. Strangers'
    BY <2>2, <2>3, Zenon DEF IdleInv, Strangers, Pair
  <2>7. Restored'
    BY <2>2, Zenon DEF IdleInv, Restored, Pair
  <2> QED
    BY <2>4, <2>5, <2>6, <2>7, Zenon DEF IdleInv

<1>1. CASE Broker
  BY <1>1, <1>EnqueueBeginIdle, <1>DequeueBeginIdle, Zenon DEF Broker
<1>2. CASE Progress
  BY <1>2, <1>StoringIdle, <1>EnqueueScheduleIdle, <1>DequeueEndIdle, <1>RemoveMsgIdle, <1>RemoveLogIdle, Zenon DEF Progress
<1>3. CASE Recover
  BY <1>3, <1>CrashIdle, <1>RecoverQueueIdle, <1>DiscardIdle, <1>ResurrectIdle, Zenon DEF Recover
<1>4. CASE Crash
  BY <1>4, <1>CrashIdle, Zenon
<1>5. CASE UNCHANGED vars
  BY <1>5, <1>StutterIdle, Zenon
<1> QED
  BY <1>1, <1>2, <1>3, <1>4, <1>5, Zenon DEF Next

\* With no call and no task left there is nothing pending, and the rest is exact.
LEMMA IdleSays ==
    ASSUME TypeOK, TaskInv, IdleInv
    PROVE  IdleExact
<1> SUFFICES ASSUME Idle
             PROVE  /\ enqLog = {} /\ deqLog = {}
                    /\ \A w \in Pairs \ (victims \union Escaped) : (onQueue[w] > 0) = (\E r \in db : Pair(r) = w)
  BY Zenon DEF IdleExact
<1>1. /\ mode = "up" /\ enqPool = <<>>
      /\ entering = {} /\ leaving = {} /\ storing = {} /\ deleting = {}
  BY Zenon DEF Idle
<1>2. DOMAIN enqPool = {}
  BY <1>1
<1>3. Scheduled = {} /\ Inserting = {} /\ Closers = {}
  BY <1>1, <1>2, Zenon DEF Scheduled, Inserting, Closers
<1>4. enqLog = {} /\ deqLog = {}
  BY <1>1, <1>3, Zenon DEF TaskInv, Owned
<1>5. ASSUME NEW w \in Pairs \ (victims \union Escaped)
      PROVE  (onQueue[w] > 0) = (\E r \in db : Pair(r) = w)
  <2>1. ASSUME onQueue[w] > 0 PROVE \E r \in db : Pair(r) = w
    BY <1>1, <1>3, <2>1, Zenon DEF IdleInv, Backed, Aside
  <2>2. ASSUME NEW r \in db, Pair(r) = w PROVE onQueue[w] > 0
    BY <1>1, <2>2, Zenon DEF IdleInv, Held, Aside, Leaves, Pursued
  <2>3. (onQueue[w] > 0) <=> (\E r \in db : Pair(r) = w)
    BY <2>1, <2>2, Zenon
  <2>4. onQueue[w] \in Nat
    BY Zenon DEF TypeOK
  <2>5. (onQueue[w] > 0) \in BOOLEAN
    BY <2>4
  <2> QED
    BY <2>3, <2>5, Zenon
<1> QED
  BY <1>4, <1>5, Zenon

(***************************************************************************)
(* For every number of messages, queues, threads and workers: as long as   *)
(* no message is on a queue twice, when every task has run nothing is      *)
(* pending in either log and the database holds exactly the messages on    *)
(* the queues, victims and escaped messages aside.                         *)
(***************************************************************************)
THEOREM OnceIdleExact == Spec /\ []OnceOnQueue => []IdleExact
<1>1. Init => IdleInv
  BY InitIdle, Zenon
<1>2. StoreInv /\ StoreInv' /\ TaskInv /\ OnceInv /\ Gone /\ IdleInv /\ [Next]_vars => IdleInv'
  BY IdleStep, Zenon
<1>3. StoreInv /\ TaskInv /\ IdleInv => IdleExact
  BY IdleSays, Zenon DEF StoreInv
<1> QED
  BY <1>1, <1>2, <1>3, StoreInvariance, TasksAgree, OnceInvariance, GoneInvariance, PTL DEF Spec

(***************************************************************************)
(* Where recovery looks up every entry that may be in the database, the    *)
(* store is exact when it is idle (store, async_dequeue, and the tasks     *)
(* recoverMessages resumes).                                               *)
(***************************************************************************)
THEOREM ExactWhenIdle == LookupSuffices => (Spec => []IdleExact)
<1> SUFFICES ASSUME LookupSuffices
             PROVE  Spec => []IdleExact
  BY Zenon
<1>1. Spec => []OnceOnQueue
  BY OnceOnItsQueue, Zenon
<1> QED
  BY <1>1, OnceIdleExact, PTL
===============================================================================
