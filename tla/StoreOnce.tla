------------------------------ MODULE StoreOnce -------------------------------
(***************************************************************************)
(* Proofs about AsyncStore beyond StoreProofs, one invariant on top of the *)
(* other: TaskInv, what the calls, the tasks and the logs have to do with  *)
(* each other; OnceInv, that an operation is in one place, as long as no   *)
(* recovery adds an entry of a message that is in the database; CountInv,  *)
(* that few enough operations overtake one another for the lookup of the   *)
(* recovery to find them all; and OnceOnQueue, which follows.              *)
(***************************************************************************)
EXTENDS StoreProofs

-----------------------------------------------------------------------------
\* Two records of one operation are one record.
LEMMA SameRecord ==
    ASSUME TypeOK, Named, NEW r \in db \union enqLog \union aeset, NEW s \in db \union enqLog \union aeset
    PROVE  r = s <=> Pair(r) = Pair(s)
<1>1. r \in Tasks /\ s \in Tasks
  BY Zenon DEF TypeOK
<1>2. r = [op |-> r.op, msg |-> r.msg] /\ s = [op |-> s.op, msg |-> s.msg]
  BY <1>1 DEF Tasks
<1>3. ASSUME Pair(r) = Pair(s) PROVE r.op = s.op /\ r.msg = s.msg
  BY <1>3, SameOp, Zenon DEF Recs
<1> QED
  BY <1>2, <1>3, Zenon

\* An operation tells message and queue, in a state of the right types.
LEMMA SameOpsNow == TypeOK /\ Named => SameOps
BY SameOp, Zenon DEF SameOps

\* The same, after the step.
LEMMA SameOpsNext == TypeOK' /\ Named' => SameOps'
BY SameOpsNow, PTL

\* The pool after the task of a call is appended.
LEMMA ScheduledAppends ==
    ASSUME TypeOK, NEW g \in Tasks, enqPool' = Append(enqPool, g)
    PROVE  Scheduled' = Scheduled \union {g}
<1>1. enqPool \in Seq(Tasks)
  BY Zenon DEF TypeOK
<1>2. /\ \A i \in DOMAIN enqPool : i \in DOMAIN enqPool' /\ enqPool'[i] = enqPool[i]
      /\ \A i \in DOMAIN enqPool' : i \in DOMAIN enqPool \/ enqPool'[i] = g
      /\ \E i \in DOMAIN enqPool' : enqPool'[i] = g
  BY <1>1
<1> QED
  BY <1>2, Zenon DEF Scheduled

\* The pool after a worker has taken its first task.
LEMMA ScheduledTakes ==
    ASSUME TypeOK, Stored, enqPool # <<>>, enqPool' = Tail(enqPool)
    PROVE  /\ Head(enqPool) \in Scheduled /\ Scheduled' = Scheduled \ {Head(enqPool)}
           /\ \A u \in Scheduled' : u.op # Head(enqPool).op
<1>1. enqPool \in Seq(Tasks)
  BY Zenon DEF TypeOK
<1>2. PICK h : h = Head(enqPool)
  BY Zenon
<1>3. /\ 1 \in DOMAIN enqPool /\ h = enqPool[1]
      /\ \A i \in DOMAIN enqPool' : i + 1 \in DOMAIN enqPool /\ i + 1 # 1 /\ enqPool'[i] = enqPool[i + 1]
      /\ \A i \in DOMAIN enqPool : i = 1 \/ (i - 1 \in DOMAIN enqPool' /\ enqPool'[i - 1] = enqPool[i])
  <2>1. 1 \in DOMAIN enqPool /\ h = enqPool[1] /\ Len(enqPool) \in Nat \ {0}
    BY <1>1, <1>2
  <2>2. /\ Len(enqPool') = Len(enqPool) - 1 /\ \A i \in 1..(Len(enqPool) - 1) : enqPool'[i] = enqPool[i + 1]
        /\ DOMAIN enqPool = 1..Len(enqPool) /\ DOMAIN enqPool' = 1..(Len(enqPool) - 1)
    BY <1>1, <2>1
  <2>3. \A i \in DOMAIN enqPool' : i + 1 \in DOMAIN enqPool /\ i + 1 # 1 /\ enqPool'[i] = enqPool[i + 1]
    BY <2>1, <2>2
  <2>4. ASSUME NEW i \in DOMAIN enqPool, i # 1 PROVE i - 1 \in DOMAIN enqPool' /\ enqPool'[i - 1] = enqPool[i]
    <3>1. i - 1 \in 1..(Len(enqPool) - 1) /\ (i - 1) + 1 = i
      BY <2>1, <2>2, <2>4
    <3> QED
      BY <2>2, <3>1, Zenon
  <2> QED
    BY <2>1, <2>3, <2>4, Zenon
<1>4. h \in Scheduled /\ Scheduled \subseteq Scheduled' \union {h}
  <2>1. ASSUME NEW u \in Scheduled, u # h PROVE u \in Scheduled'
    <3>1. PICK i \in DOMAIN enqPool : u = enqPool[i]
      BY Zenon DEF Scheduled
    <3>2. i - 1 \in DOMAIN enqPool' /\ enqPool'[i - 1] = u
      BY <1>3, <2>1, <3>1, Zenon
    <3> QED
      BY <3>2, Zenon DEF Scheduled
  <2>2. h \in Scheduled
    BY <1>3, Zenon DEF Scheduled
  <2> QED
    BY <2>1, <2>2, Zenon
<1>5. \A u \in Scheduled' : u \in Scheduled /\ u.op # h.op
  <2>1. ASSUME NEW u \in Scheduled' PROVE u \in Scheduled /\ u.op # h.op
    <3>1. PICK i \in DOMAIN enqPool' : u = enqPool'[i]
      BY Zenon DEF Scheduled
    <3>2. i + 1 \in DOMAIN enqPool /\ i + 1 # 1 /\ u = enqPool[i + 1]
      BY <1>3, <3>1, Zenon
    <3> QED
      BY <1>3, <3>2, Zenon DEF Scheduled, Stored
  <2> QED
    BY <2>1, Zenon
<1> QED
  BY <1>2, <1>4, <1>5, Zenon

\* The step of decodeAndRecoverMsg, in these terms.
LEMMA RecoverQueueIs ==
    ASSUME NEW q \in Queues, RecoverQueue(q)
    PROVE  /\ mode = "recover" /\ mode' = "recover" /\ closing = <<>> /\ q \in todo /\ todo' = todo \ {q}
           /\ aeset' = aeset \ (Useless \union Transients \union AlreadyEnqueued(q))
           /\ adset' = adset \ (OpsOf(Useless) \union OpsOf(Accepted(q)))
           /\ enqLog' = Without(enqLog, OpsOf(AlreadyEnqueued(q)))
           /\ discard' = discard \union OpsOf(On(db, q) \ FromDb(q)) \union OpsOf(Accepted(q))
           /\ DOMAIN closing' = {1, 2, 3, 4}
           /\ closing'[1].log = "enq" /\ closing'[1].ops = OpsOf(Transients)
           /\ closing'[2].log = "deq" /\ closing'[2].ops = OpsOf(Accepted(q))
           /\ closing'[3].log = "enq" /\ closing'[3].ops = OpsOf(Useless)
           /\ closing'[4].log = "deq" /\ closing'[4].ops = OpsOf(Useless)
           /\ \A w \in Pairs : onQueue'[w] = onQueue[w] + PutBack(q, w)
           /\ victims' = victims \union
                 {Pair(r) : r \in {r \in Persistent(Useless) \union Accepted(q) : Pair(r) \in Unasked}}
           /\ UNCHANGED <<ids, tasks, db, deqLog, mode, stage, escapes, crashes>>
<1>1. /\ mode = "recover" /\ closing = <<>> /\ q \in todo /\ todo' = todo \ {q}
      /\ aeset' = aeset \ (Useless \union Transients \union AlreadyEnqueued(q))
      /\ adset' = adset \ (OpsOf(Useless) \union OpsOf(Accepted(q)))
      /\ enqLog' = Without(enqLog, OpsOf(AlreadyEnqueued(q)))
      /\ discard' = discard \union OpsOf(On(db, q) \ FromDb(q)) \union OpsOf(Accepted(q))
      /\ closing' = Completions(Accepted(q))
      /\ onQueue' = [w \in Pairs |-> onQueue[w] + PutBack(q, w)]
      /\ victims' = victims \union
            {Pair(r) : r \in {r \in Persistent(Useless) \union Accepted(q) : Pair(r) \in Unasked}}
      /\ UNCHANGED <<ids, tasks, db, deqLog, mode, stage, escapes, crashes>>
  BY Zenon DEF RecoverQueue, NextQueue, RegisterDiscards, FromDb, Accepted, PutBack
<1>2. PICK a, b, c : a = OpsOf(Transients) /\ b = OpsOf(Accepted(q)) /\ c = OpsOf(Useless)
  BY Zenon
<1>3. closing' = << [log |-> "enq", ops |-> a], [log |-> "deq", ops |-> b],
                    [log |-> "enq", ops |-> c], [log |-> "deq", ops |-> c] >>
  BY <1>1, <1>2, Zenon DEF Completions
<1>4. /\ DOMAIN closing' = {1, 2, 3, 4}
      /\ closing'[1].log = "enq" /\ closing'[1].ops = a /\ closing'[2].log = "deq" /\ closing'[2].ops = b
      /\ closing'[3].log = "enq" /\ closing'[3].ops = c /\ closing'[4].log = "deq" /\ closing'[4].ops = c
  BY <1>3
<1>5. \A w \in Pairs : onQueue'[w] = onQueue[w] + PutBack(q, w)
  BY <1>1, Zenon
<1> QED
  BY <1>1, <1>2, <1>4, <1>5, Zenon

\* The parts of the database and of the log are parts of them.
LEMMA FoundIn ==
    ASSUME NEW q \in Queues
    PROVE  /\ FromDb(q) \subseteq db /\ Accepted(q) \subseteq FromDb(q)
           /\ FromLog(q) \subseteq aeset \ (Useless \union Transients \union AlreadyEnqueued(q))
           /\ AlreadyEnqueued(q) \subseteq aeset \ (Useless \union Transients)
           /\ Useless \subseteq aeset /\ Transients \subseteq aeset \ Useless
           /\ \A r \in FromDb(q) \union FromLog(q) \union AlreadyEnqueued(q) : r.op[2] = q
           /\ \A e \in AlreadyEnqueued(q) : e.op \in OpsOf(db)
BY Zenon DEF FromDb, Accepted, On, Persistent, FromLog, AlreadyEnqueued, Checked, Useless, Transients

\* How many copies of a message decodeAndRecoverMsg puts on its queue.
LEMMA CopiesAre ==
    ASSUME TypeOK, Named, NEW q \in Queues, NEW w \in Pairs
    PROVE  /\ PutBack(q, w) \in 0..2
           /\ PutBack(q, w) > 0 <=> \E r \in Restoring(q) : Pair(r) = w
           /\ PutBack(q, w) = 2 <=> (\E r \in FromDb(q) \ Accepted(q) : Pair(r) = w) /\ (\E e \in FromLog(q) : Pair(e) = w)
<1>1. PICK A, B : A = {r \in FromDb(q) \ Accepted(q) : Pair(r) = w} /\ B = {e \in FromLog(q) : Pair(e) = w}
  BY Zenon
<1>2. A \subseteq db /\ B \subseteq aeset
  BY <1>1, FoundIn, Zenon
<1>3. \A r, s \in db \union aeset : Pair(r) = Pair(s) => r = s
  BY SameRecord, Zenon
<1>4. ASSUME NEW S, S = A \/ S = B PROVE Cardinality(S) \in 0..1 /\ (Cardinality(S) = 0 <=> S = {})
  <2>1. CASE S = {}
    <3>1. Cardinality(S) = 0
      BY <2>1, FS_EmptySet, Zenon
    <3> QED
      BY <2>1, <3>1
  <2>2. CASE S # {}
    <3>1. PICK x : x \in S
      BY <2>2, Zenon
    <3>2. \A y \in S : y = x
      BY <1>1, <1>2, <1>3, <1>4, <3>1, Zenon
    <3>3. S = {x}
      BY <3>1, <3>2, Zenon
    <3>4. Cardinality(S) = 1
      BY <3>3, FS_Singleton, Zenon
    <3> QED
      BY <2>2, <3>4
  <2> QED
    BY <2>1, <2>2, Zenon
<1>5. PICK a, b : a = Cardinality(A) /\ b = Cardinality(B)
  BY Zenon
<1>6. /\ a \in 0..1 /\ b \in 0..1 /\ (a = 0 <=> A = {}) /\ (b = 0 <=> B = {}) /\ PutBack(q, w) = a + b
  BY <1>1, <1>4, <1>5, Zenon DEF PutBack
<1>7. /\ a + b \in 0..2 /\ (a + b > 0 <=> (a # 0 \/ b # 0)) /\ (a + b = 2 <=> a # 0 /\ b # 0)
  BY <1>6
<1>8. (\E r \in Restoring(q) : Pair(r) = w) <=> (A # {} \/ B # {})
  BY <1>1, Zenon DEF Restoring
<1> QED
  BY <1>1, <1>6, <1>7, <1>8, Zenon

\* A mass completion, and those that are left.
LEMMA LogMassIs ==
    ASSUME StoreInv, LogMass
    PROVE  /\ mode = "recover" /\ mode' = "recover" /\ 1 \in DOMAIN closing
           /\ \A i \in DOMAIN closing' : i + 1 \in DOMAIN closing /\ closing'[i] = closing[i + 1]
           /\ \A i \in DOMAIN closing : i = 1 \/ (i - 1 \in DOMAIN closing' /\ closing'[i - 1] = closing[i])
           /\ \A r : r \in enqLog' <=> r \in enqLog /\ ~(closing[1].log = "enq" /\ r.op \in closing[1].ops)
           /\ \A o : o \in deqLog' <=> o \in deqLog /\ ~(closing[1].log = "deq" /\ o \in closing[1].ops)
           /\ UNCHANGED <<ids, tasks, broker, db, todo, adset, aeset, discard, stage, victims, escapes, crashes>>
<1>1. PICK c : c = Head(closing)
  BY Zenon
<1>2. /\ closing # <<>> /\ closing' = Tail(closing)
      /\ enqLog' = (IF c.log = "enq" THEN Without(enqLog, c.ops) ELSE enqLog)
      /\ deqLog' = (IF c.log = "deq" THEN deqLog \ c.ops ELSE deqLog)
      /\ UNCHANGED <<ids, tasks, broker, db, mode, todo, adset, aeset, discard, stage, victims, escapes, crashes>>
  BY <1>1, Zenon DEF LogMass
<1>3. mode = "recover"
  BY <1>2, Zenon DEF StoreInv, Phases
<1>4. PICK S : closing \in Seq(S)
  BY Zenon DEF StoreInv, TypeOK
<1>5. /\ 1 \in DOMAIN closing /\ c = closing[1]
      /\ \A i \in DOMAIN closing' : i + 1 \in DOMAIN closing /\ closing'[i] = closing[i + 1]
      /\ \A i \in DOMAIN closing : i = 1 \/ (i - 1 \in DOMAIN closing' /\ closing'[i - 1] = closing[i])
  BY <1>1, <1>2, <1>4
<1>6. /\ \A r : r \in enqLog' <=> r \in enqLog /\ ~(c.log = "enq" /\ r.op \in c.ops)
      /\ \A o : o \in deqLog' <=> o \in deqLog /\ ~(c.log = "deq" /\ o \in c.ops)
  BY <1>2, Zenon DEF Without
<1> QED
  BY <1>2, <1>3, <1>5, <1>6, Zenon

\* What the process starts with: the pending enqueues and dequeues, nothing else.
LEMMA ResurrectIs ==
    ASSUME StoreInv, TaskInv, Resurrect
    PROVE  /\ mode = "recover" /\ todo = {} /\ closing = <<>> /\ discard = {} /\ Useless = {} /\ mode' = "up"
           /\ pendMap' = (IF Smart THEN OpsOf(aeset) ELSE {})
           /\ entering' = {} /\ leaving' = {} /\ storing' = {} /\ Scheduled' = aeset /\ enqLog' = aeset
           /\ deleting' = {[op |-> o, msg |-> NoMsg, at |-> "wait"] : o \in adset}
           /\ deqLog' = deqLog /\ deqLog \subseteq adset
           /\ UNCHANGED <<broker, db, stage, victims, escapes, crashes>>
           /\ \E s \in [1..Cardinality(aeset) -> aeset] :
                 /\ Range(s) = aeset /\ enqPool' = s
                 /\ \A i, j \in 1..Cardinality(aeset) : i < j =>
                       s[i].op[2] < s[j].op[2] \/ (s[i].op[2] = s[j].op[2] /\ s[i].op[1] < s[j].op[1])
<1>1. TypeOK /\ Phases /\ Recovering /\ Reread
  BY Zenon DEF StoreInv, TaskInv
<1>2. mode = "recover" /\ todo = {} /\ closing = <<>> /\ discard = {} /\ mode' = "up"
  BY Zenon DEF Resurrect, Discarding
<1>3. Useless = {} /\ OpsOf(Useless) = {} /\ aeset \ Useless = aeset /\ adset \ OpsOf(Useless) = adset
  <2>1. todo # Queues
    BY <1>2, Assumptions, Zenon
  <2>2. Useless = {}
    BY <1>1, <1>2, <2>1, Zenon DEF Recovering
  <2> QED
    BY <2>2, Zenon DEF OpsOf
<1>4. PICK left : left = aeset \ Useless
  BY Zenon
<1>5. \E s \in [1..Cardinality(left) -> left] :
          /\ Range(s) = left
          /\ \A i, j \in 1..Cardinality(left) : i < j =>
                s[i].op[2] < s[j].op[2] \/ (s[i].op[2] = s[j].op[2] /\ s[i].op[1] < s[j].op[1])
          /\ enqPool' = s
  BY <1>4, Zenon DEF Resurrect
<1>6. left = aeset
  BY <1>3, <1>4, Zenon
<1>7. PICK n, s : /\ n = Cardinality(aeset) /\ s \in [1..n -> aeset] /\ Range(s) = aeset /\ enqPool' = s
                  /\ \A i, j \in 1..n : i < j =>
                        s[i].op[2] < s[j].op[2] \/ (s[i].op[2] = s[j].op[2] /\ s[i].op[1] < s[j].op[1])
  BY <1>5, <1>6, Zenon
<1>8. Scheduled' = aeset
  <2>1. Range(s) = {s[i] : i \in DOMAIN s}
    BY Zenon DEF Range
  <2>2. Scheduled' = {enqPool'[i] : i \in DOMAIN enqPool'}
    BY Zenon DEF Scheduled
  <2>3. enqPool' = s /\ Range(s) = aeset
    BY <1>7, Zenon
  <2> QED
    BY <2>1, <2>2, <2>3, Zenon
<1>9. DOMAIN closing = {} /\ mode # "up"
  BY <1>2
<1>10. aeset \subseteq enqLog /\ enqLog \subseteq aeset /\ deqLog \subseteq adset
  BY <1>1, <1>2, <1>9, Zenon DEF Reread, Recovering
<1>11. enqLog' = aeset /\ deqLog' = deqLog
  BY <1>3, <1>10, Zenon DEF Resurrect, Without
<1>12. pendMap' = (IF Smart THEN OpsOf(aeset) ELSE {})
  BY <1>3, Zenon DEF Resurrect
<1>13. deleting' = {[op |-> o, msg |-> NoMsg, at |-> "wait"] : o \in adset}
  BY <1>3, Zenon DEF Resurrect
<1>14. entering' = {} /\ leaving' = {} /\ storing' = {}
  BY <1>1, <1>9, Zenon DEF Resurrect, Phases, Working
<1>15. UNCHANGED <<broker, db, stage, victims, escapes, crashes>>
  BY Zenon DEF Resurrect
<1> QED
  BY <1>2, <1>3, <1>7, <1>8, <1>10, <1>11, <1>12, <1>13, <1>14, <1>15, Zenon

\* The process starts with nothing.
LEMMA InitTasks ==
    ASSUME Init
    PROVE  TaskInv
<1>1. /\ pendMap = {} /\ entering = {} /\ leaving = {} /\ enqPool = <<>> /\ storing = {} /\ enqLog = {}
      /\ deqLog = {} /\ mode = "up"
  BY Zenon DEF Init
<1>2. mode # "recover" /\ DOMAIN enqPool = {}
  BY <1>1
<1>3. Scheduled = {}
  BY <1>2, Zenon DEF Scheduled
<1> QED
  BY <1>1, <1>2, <1>3, Zenon DEF TaskInv, Unique, Logged, CalledOff, Owned, Reread, ToPut, Inserting

\* What every step of the message path keeps of the tasks.
LEMMA TaskStepInv ==
    ASSUME StoreInv, StoreInv', TaskInv, [Next]_vars
    PROVE  TaskInv'
\* A process that is not up has no calls and tasks, so that little is to be shown.
<1>DownTasks.
    ASSUME mode' # "up", Working' = {}, leaving' = {}, pendMap' = {}, Reread'
    PROVE  TaskInv'
  <2> USE <1>DownTasks
  <2>1. Scheduled' = {} /\ entering' = {} /\ storing' = {}
    BY Zenon DEF Working
  <2>2. ToPut' = {}
    BY <2>1, Zenon DEF ToPut, Inserting
  <2> QED
    BY <2>1, <2>2, Zenon DEF TaskInv, Unique, Logged, CalledOff, Owned

\* A call of enqueue: its operation is nobody else's.
<1>EnqueueBeginTasks.
    ASSUME NEW m \in Msgs, NEW q \in Queues, NEW id, EnqueueBegin(m, q, id)
    PROVE  TaskInv'
  <2> USE <1>EnqueueBeginTasks
  <2>1. TypeOK /\ Named /\ Sent /\ Unique /\ Logged /\ CalledOff /\ Owned /\ TypeOK' /\ Named'
    BY Zenon DEF StoreInv, TaskInv
  <2>2. PICK w, e : w = <<m, q>> /\ e = [op |-> <<id, q>>, msg |-> m, at |-> "log"]
    BY Zenon
  <2>3. /\ mode = "up" /\ stage[w] = "none" /\ entering' = entering \union {e}
        /\ UNCHANGED <<pendMap, leaving, enqPool, storing, deleting, onQueue, disk, mode, recovery>>
    BY <2>2, Zenon DEF EnqueueBegin
  <2>4. Pair(e) = w /\ e.at # "schedule"
    BY <2>2 DEF Pair
  <2>5. /\ Scheduled' = Scheduled /\ Inserting' = Inserting /\ ToPut' = ToPut /\ Closers' = Closers
    <3>1. Scheduled' = Scheduled
      BY <2>3, Zenon DEF Scheduled
    <3>2. {x \in entering' : x.at = "schedule"} = {x \in entering : x.at = "schedule"}
      BY <2>3, <2>4, Zenon
    <3> QED
      BY <2>3, <3>1, <3>2, Zenon DEF Inserting, ToPut, Closers
  <2>6. \A t \in storing \union leaving : t.op # e.op
    <3>1. ASSUME NEW t \in storing \union leaving, t.op = e.op PROVE FALSE
      <4>1. t \in Recs /\ t \in Recs' /\ e \in Recs'
        BY <2>3, Zenon DEF Recs, Working
      <4>2. Pair(t) = w
        BY <2>1, <2>4, <3>1, <4>1, SameOpsNext, Zenon DEF SameOps
      <4> QED
        BY <2>1, <2>3, <4>1, <4>2, Zenon DEF Sent
    <3> QED
      BY <3>1, Zenon
  <2>7. Unique'
    BY <2>1, <2>3, <2>5, <2>6, Zenon DEF Unique
  <2>8. Logged' /\ CalledOff'
    BY <2>1, <2>3, <2>5, <2>6, Zenon DEF Logged, CalledOff, disk
  <2>9. Owned' /\ Reread'
    <3>1. mode' # "recover"
      BY <2>3
    <3> QED
      BY <2>1, <2>3, <2>5, <3>1, Zenon DEF Owned, Reread, disk
  <2> QED
    BY <2>7, <2>8, <2>9, Zenon DEF TaskInv

\* The start of the enqueue is logged.
<1>EnqueueLogTasks.
    ASSUME NEW e \in entering, EnqueueLog(e)
    PROVE  TaskInv'
  <2> USE <1>EnqueueLogTasks
  <2>1. Phases /\ Unique /\ Logged /\ CalledOff /\ Owned
    BY Zenon DEF StoreInv, TaskInv
  <2>2. mode = "up"
    BY <2>1, Zenon DEF Phases, Working
  <2>3. PICK f : f = [e EXCEPT !.at = "schedule"]
    BY Zenon
  <2>4. /\ entering' = (entering \ {e}) \union {f} /\ enqLog' = enqLog \union {Entry(e)}
        /\ UNCHANGED <<ids, leaving, enqPool, storing, deleting, deqLog, mode>>
    BY <2>3, Zenon DEF EnqueueLog, Entry
  <2>5. f.op = e.op /\ f.msg = e.msg /\ f.at = "schedule" /\ Entry(f) = Entry(e)
    <3>1. e \in [op : Ops, msg : Msgs, at : {"log", "schedule"}]
      BY Zenon DEF StoreInv, TypeOK
    <3>2. f.op = e.op /\ f.msg = e.msg /\ f.at = "schedule"
      BY <2>3, <3>1
    <3> QED
      BY <3>2, Zenon DEF Entry
  <2>6. Scheduled' = Scheduled /\ Inserting' = Inserting /\ pendMap' = pendMap
    BY <2>4, Zenon DEF Scheduled, Inserting, ids
  <2>7. ToPut' \subseteq ToPut \union {f} /\ Closers \subseteq Closers' \union {e} /\ f \in Closers'
    BY <2>4, <2>5, <2>6, Zenon DEF ToPut, Closers
  <2>8. Unique' /\ Logged'
    <3>1. storing' = storing /\ \A x \in Scheduled' \union entering' : \E y \in Scheduled \union entering : x.op = y.op
      BY <2>4, <2>5, <2>6, Zenon
    <3>2. \A t \in storing : \A x \in Scheduled' \union entering' : x.op # t.op
      BY <2>1, <3>1, Zenon DEF Unique
    <3>3. Unique'
      BY <2>1, <2>6, <3>1, <3>2, Zenon DEF Unique
    <3>4. Logged'
      BY <2>1, <2>4, <2>5, <2>7, Zenon DEF Logged
    <3> QED
      BY <3>3, <3>4, Zenon
  <2>9. CalledOff'
    BY <2>1, <2>4, <2>5, <2>7, Zenon DEF CalledOff
  <2>10. Owned' /\ Reread'
    <3>1. mode' # "recover"
      BY <2>2, <2>4
    <3>2. \A x \in enqLog' : \E c \in Closers' : c.op = x.op
      <4>1. Entry(e).op = e.op
        BY DEF Entry
      <4> QED
        BY <2>1, <2>2, <2>4, <2>5, <2>7, <4>1, Zenon DEF Owned
    <3> QED
      BY <2>1, <2>2, <2>4, <3>1, <3>2, Zenon DEF Owned, Reread
  <2> QED
    BY <2>8, <2>9, <2>10, Zenon DEF TaskInv

\* The task is in the pool, and enqueueCheck will find it there.
<1>EnqueueScheduleTasks.
    ASSUME NEW e \in entering, EnqueueSchedule(e)
    PROVE  TaskInv'
  <2> USE <1>EnqueueScheduleTasks
  <2>1. TypeOK /\ Phases /\ Entered /\ Unique /\ Logged /\ CalledOff /\ Owned
    BY Zenon DEF StoreInv, TaskInv
  <2>2. mode = "up" /\ mode' = "up" /\ mode' # "recover"
    BY <2>1, Zenon DEF Phases, Working, EnqueueSchedule
  <2>3. PICK g : g = Entry(e)
    BY Zenon
  <2>4. /\ entering' = entering \ {e} /\ e.at = "schedule" /\ enqPool' = Append(enqPool, g)
        /\ pendMap' = (IF Smart THEN pendMap \union {e.op} ELSE pendMap)
        /\ UNCHANGED <<leaving, storing, deleting, disk>>
    BY <2>3, Zenon DEF EnqueueSchedule, Entry
  <2>5. g \in Tasks /\ g.op = e.op /\ Entry(g) = g
    <3>1. e.op \in Ops /\ e.msg \in Msgs
      BY <2>1 DEF TypeOK
    <3> QED
      BY <2>3, <3>1 DEF Entry, Tasks
  <2>6. Scheduled' = Scheduled \union {g}
    BY <2>1, <2>4, <2>5, ScheduledAppends, Zenon
  <2>7. /\ \A o \in pendMap' : o \in pendMap \/ o = e.op
        /\ \A t \in Scheduled : t.op # e.op
    <3>1. e.op \notin OpsOf(Scheduled)
      BY <2>1, Zenon DEF Entered
    <3> QED
      BY <2>4, <3>1, Zenon DEF OpsOf
  <2>8. Unique'
    <3>1. \A t \in storing : \A x \in Scheduled' \union entering' : x.op # t.op
      BY <2>1, <2>4, <2>5, <2>6, Zenon DEF Unique
    <3>2. \A o \in pendMap' : \E t \in Scheduled' : t.op = o
      BY <2>1, <2>5, <2>6, <2>7, Zenon DEF Unique
    <3> QED
      BY <2>1, <2>4, <3>1, <3>2, Zenon DEF Unique
  <2>9. ToPut' \subseteq ToPut \union {g} /\ e \in ToPut
    <3>1. \A t \in Scheduled : (Smart => t.op \in pendMap') => (Smart => t.op \in pendMap)
      BY <2>7, Zenon
    <3> QED
      BY <2>4, <2>6, <3>1, Zenon DEF ToPut, Inserting
  <2>10. Logged' /\ CalledOff'
    BY <2>1, <2>3, <2>4, <2>5, <2>9, Zenon DEF Logged, CalledOff, disk
  <2>11. Owned'
    <3>1. Closers \subseteq Closers' \union {e} /\ g \in Closers'
      BY <2>4, <2>6, Zenon DEF Closers
    <3> QED
      BY <2>1, <2>2, <2>4, <2>5, <3>1, Zenon DEF Owned, disk
  <2> QED
    BY <2>2, <2>8, <2>10, <2>11, Zenon DEF TaskInv, Reread

(***************************************************************************)
(* dequeueCheck: when it answers that the insertion has not begun, the     *)
(* insertion will not take place.                                          *)
(***************************************************************************)
<1>DequeueBeginTasks.
    ASSUME NEW w \in Pairs, DequeueBegin(w)
    PROVE  TaskInv'
  <2> USE <1>DequeueBeginTasks
  <2>1. TypeOK /\ Phases /\ Entered /\ Unique /\ Logged /\ CalledOff /\ Owned
    BY Zenon DEF StoreInv, TaskInv
  <2>2. PICK op, d : /\ op = <<pid[w[1]], w[2]>>
                     /\ d = [op |-> op, msg |-> w[1], exec |-> ~(Smart /\ op \in pendMap)]
    BY Zenon
  <2>3. /\ mode = "up" /\ mode' = "up" /\ mode' # "recover"
        /\ pendMap' = pendMap \ {op} /\ leaving' = leaving \union {d}
        /\ UNCHANGED <<entering, enqPool, storing, deleting, disk>>
    BY <2>2, Zenon DEF DequeueBegin
  <2>4. d.op = op /\ (d.exec \/ (Smart /\ op \in pendMap))
    <3>1. CASE Smart /\ op \in pendMap
      BY <2>2, <3>1, Zenon
    <3>2. CASE ~(Smart /\ op \in pendMap)
      BY <2>2, <3>2, Zenon
    <3> QED
      BY <3>1, <3>2, Zenon
  <2>5. Scheduled' = Scheduled /\ ToPut' \subseteq ToPut /\ Closers' = Closers
    BY <2>3, Zenon DEF Scheduled, ToPut, Inserting, Closers
  <2>6. Unique' /\ Logged'
    BY <2>1, <2>3, <2>5, Zenon DEF Unique, Logged, disk
  <2>7. d.exec \/ \A t \in ToPut' \union entering' : t.op # d.op
    <3>1. ASSUME ~d.exec, NEW t \in ToPut' \union entering', t.op = op PROVE FALSE
      <4>1. Smart /\ op \in pendMap
        BY <2>4, <3>1, Zenon
      <4>2. PICK u \in Scheduled : u.op = op
        BY <2>1, <4>1, Zenon DEF Unique
      <4>3. op \in OpsOf(Scheduled)
        BY <4>2, Zenon DEF OpsOf
      <4>4. t \notin entering /\ t \notin storing
        <5>1. t \notin entering
          BY <2>1, <3>1, <4>3, Zenon DEF Entered
        <5>2. t \notin storing
          BY <2>1, <3>1, <4>2, Zenon DEF Unique
        <5> QED
          BY <5>1, <5>2, Zenon
      <4>5. t \in Scheduled /\ t.op \in pendMap'
        BY <2>3, <2>5, <3>1, <4>1, <4>4, Zenon DEF ToPut, Inserting
      <4> QED
        BY <2>3, <3>1, <4>5, Zenon
    <3> QED
      BY <2>4, <3>1, Zenon
  <2>8. CalledOff'
    BY <2>1, <2>3, <2>5, <2>7, Zenon DEF CalledOff
  <2>9. Owned'
    BY <2>1, <2>3, <2>5, Zenon DEF Owned, disk
  <2> QED
    BY <2>3, <2>6, <2>8, <2>9, Zenon DEF TaskInv, Reread

\* dequeue returns: a deletion has its task, an enqueue called off is closed.
<1>DequeueEndTasks.
    ASSUME NEW d \in leaving, DequeueEnd(d)
    PROVE  TaskInv'
  <2> USE <1>DequeueEndTasks
  <2>1. Phases /\ Unique /\ Logged /\ CalledOff /\ Owned
    BY Zenon DEF StoreInv, TaskInv
  <2>2. mode = "up" /\ mode' = "up" /\ mode' # "recover"
    BY <2>1, Zenon DEF Phases, DequeueEnd
  <2>3. PICK g : g = [op |-> d.op, msg |-> d.msg, at |-> "wait"]
    BY Zenon
  <2>4. /\ leaving' = leaving \ {d}
        /\ \/ /\ d.exec /\ enqLog' = enqLog /\ deqLog' = deqLog \union {d.op} /\ deleting' = deleting \union {g}
           \/ /\ ~d.exec /\ enqLog' = Without(enqLog, {d.op}) /\ deqLog' = deqLog /\ deleting' = deleting
        /\ UNCHANGED <<ids, entering, enqPool, storing>>
    BY <2>3, Zenon DEF DequeueEnd, LogDequeueStart
  <2>5. Scheduled' = Scheduled /\ ToPut' = ToPut /\ Closers' = Closers /\ pendMap' = pendMap
    BY <2>4, Zenon DEF Scheduled, ToPut, Inserting, Closers, ids
  <2>6. Unique' /\ CalledOff'
    BY <2>1, <2>4, <2>5, Zenon DEF Unique, CalledOff
  <2>7. Logged'
    <3>1. \A t \in ToPut : Entry(t).op = t.op
      BY DEF Entry
    <3> QED
      BY <2>1, <2>4, <2>5, <3>1, Zenon DEF Logged, CalledOff, Without
  <2>8. Owned'
    <3>1. g.op = d.op
      BY <2>3
    <3> QED
      BY <2>1, <2>2, <2>4, <2>5, <3>1, Zenon DEF Owned, Without
  <2> QED
    BY <2>2, <2>6, <2>7, <2>8, Zenon DEF TaskInv, Reread

\* A worker takes a task: enqueueCheck tells it whether to insert.
<1>TakeStoreTasks.
    ASSUME TakeStore
    PROVE  TaskInv'
  <2> USE <1>TakeStoreTasks
  <2>1. TypeOK /\ Phases /\ Entered /\ Stored /\ Unique /\ Logged /\ CalledOff /\ Owned
    BY Zenon DEF StoreInv, TaskInv
  <2>2. mode = "up" /\ mode' = "up" /\ mode' # "recover"
    BY <2>1, Zenon DEF Phases, TakeStore
  <2>3. PICK h, at, s : /\ h = Head(enqPool) /\ at = (IF Smart => h.op \in pendMap THEN "put" ELSE "log")
                        /\ s = [op |-> h.op, msg |-> h.msg, at |-> at]
    BY Zenon
  <2>4. /\ enqPool # <<>> /\ enqPool' = Tail(enqPool) /\ storing' = storing \union {s} /\ pendMap' = pendMap \ {h.op}
        /\ UNCHANGED <<entering, leaving, deleting, disk>>
    BY <2>3, Zenon DEF TakeStore
  <2>5. /\ h \in Scheduled /\ Scheduled' = Scheduled \ {h} /\ \A u \in Scheduled' : u.op # h.op
    BY <2>1, <2>3, <2>4, ScheduledTakes, Zenon
  <2>6. /\ s.op = h.op /\ s.at # "add" /\ Entry(s) = Entry(h)
        /\ s.at = "put" => h \in Inserting
    <3>1. s.op = h.op /\ s.msg = h.msg /\ s.at = at
      BY <2>3
    <3>2. at # "add" /\ (at = "put" => (Smart => h.op \in pendMap))
      BY <2>3
    <3> QED
      BY <2>5, <3>1, <3>2, Zenon DEF Entry, Inserting
  <2>7. Unique'
    <3>1. ASSUME NEW x \in Scheduled' \union entering' PROVE x.op # s.op
      <4>1. \A e \in entering : e.op # h.op
        BY <2>1, <2>5, Zenon DEF Entered, OpsOf
      <4> QED
        BY <2>4, <2>5, <2>6, <4>1, Zenon
    <3>2. \A t \in storing : t.op # s.op
      BY <2>1, <2>5, <2>6, Zenon DEF Unique
    <3>3. \A o \in pendMap' : \E t \in Scheduled' : t.op = o
      BY <2>1, <2>4, <2>5, Zenon DEF Unique
    <3>4. ASSUME NEW t \in storing', NEW x \in Scheduled' \union entering' PROVE x.op # t.op
      <4>1. t = s \/ (t \in storing /\ x \in Scheduled \union entering)
        BY <2>4, <2>5, Zenon
      <4> QED
        BY <2>1, <3>1, <4>1, Zenon DEF Unique
    <3> QED
      BY <2>1, <2>4, <3>2, <3>3, <3>4, Zenon DEF Unique
  <2>8. \A t \in ToPut' : \E u \in ToPut : Entry(t) = Entry(u) /\ t.op = u.op
    <3>1. ASSUME NEW t \in ToPut', t # s PROVE t \in ToPut
      BY <2>4, <2>5, <3>1, Zenon DEF ToPut, Inserting
    <3>2. s \in ToPut' => s \in entering \/ s \in Scheduled \/ s.at = "put"
      BY <2>4, <2>5, Zenon DEF ToPut, Inserting
    <3>3. \A x \in entering \union Scheduled' : x # s
      <4>1. \A e \in entering : e.op # h.op
        BY <2>1, <2>5, Zenon DEF Entered, OpsOf
      <4> QED
        BY <2>5, <2>6, <4>1, Zenon
    <3>4. s \in ToPut' => s.at = "put"
      BY <2>4, <3>3, Zenon DEF ToPut, Inserting
    <3> QED
      BY <2>6, <3>1, <3>4, Zenon DEF ToPut
  <2>9. Logged' /\ CalledOff'
    <3>1. Logged'
      <4>1. enqLog' = enqLog
        BY <2>4, Zenon DEF disk
      <4>2. ASSUME NEW t \in ToPut' PROVE Entry(t) \in enqLog
        <5>1. PICK u \in ToPut : Entry(t) = Entry(u)
          BY <2>8, Zenon
        <5> QED
          BY <2>1, <5>1, Zenon DEF Logged
      <4> QED
        BY <4>1, <4>2, Zenon DEF Logged
    <3>2. CalledOff'
      <4>1. ASSUME NEW d \in leaving, ~d.exec, NEW t \in ToPut' \union entering PROVE t.op # d.op
        <5>1. CASE t \in ToPut'
          <6>1. PICK u \in ToPut : t.op = u.op
            BY <2>8, <5>1, Zenon
          <6> QED
            BY <2>1, <4>1, <6>1, Zenon DEF CalledOff
        <5>2. CASE t \in entering
          BY <2>1, <4>1, <5>2, Zenon DEF CalledOff
        <5> QED
          BY <4>1, <5>1, <5>2, Zenon
      <4> QED
        BY <2>4, <4>1, Zenon DEF CalledOff
    <3> QED
      BY <3>1, <3>2, Zenon
  <2>10. Owned'
    <3>1. Closers \subseteq Closers' \union {h} /\ s \in Closers'
      BY <2>4, <2>5, <2>6, Zenon DEF Closers
    <3> QED
      BY <2>1, <2>2, <2>4, <2>6, <3>1, Zenon DEF Owned, disk
  <2> QED
    BY <2>2, <2>7, <2>9, <2>10, Zenon DEF TaskInv, Reread

\* A worker goes on with its task, which is the only one for its operation.
<1>WorkerMoves.
    ASSUME Unique, NEW t \in storing, NEW s, s.op = t.op, s.at # "put",
           storing' = (storing \ {t}) \union {s}, UNCHANGED <<entering, enqPool, pendMap>>
    PROVE  /\ Unique' /\ Scheduled' = Scheduled /\ ToPut' = ToPut \ {t}
           /\ t.at # "put" => \A u \in ToPut : u.op # t.op
  <2> USE <1>WorkerMoves
  <2>1. Scheduled' = Scheduled
    BY Zenon DEF Scheduled
  <2>2. Unique'
    <3>1. \A x \in Scheduled \union entering : x.op # s.op
      BY Zenon DEF Unique
    <3>2. \A u \in storing' : \A x \in Scheduled \union entering : x.op # u.op
      BY <3>1, Zenon DEF Unique
    <3>3. \A u \in storing : u = t \/ u.op # s.op
      BY Zenon DEF Unique
    <3>4. \A u, v \in storing' : u.op = v.op => u = v
      BY <3>3, Zenon DEF Unique
    <3>5. \A o \in pendMap' : \E u \in Scheduled' : u.op = o
      BY <2>1, Zenon DEF Unique
    <3> QED
      BY <2>1, <3>2, <3>4, <3>5, Zenon DEF Unique
  <2>3. \A x \in Scheduled \union entering : x # t
    BY Zenon DEF Unique
  <2>4. ToPut' = ToPut \ {t}
    BY <2>1, <2>3, Zenon DEF ToPut, Inserting
  <2>5. ASSUME t.at # "put", NEW u \in ToPut, u.op = t.op PROVE FALSE
    BY <2>5, Zenon DEF Unique, ToPut, Inserting
  <2> QED
    BY <2>1, <2>2, <2>4, <2>5, Zenon

\* The message is inserted: nothing is owed to the log but the completion.
<1>PutTasks.
    ASSUME NEW t \in storing, Put(t)
    PROVE  TaskInv'
  <2> USE <1>PutTasks
  <2>1. TypeOK /\ Phases /\ Unique /\ Logged /\ CalledOff /\ Owned
    BY Zenon DEF StoreInv, TaskInv
  <2>2. mode = "up" /\ mode' = "up" /\ mode' # "recover"
    BY <2>1, Zenon DEF Phases, Working, Put
  <2>3. PICK s : s = [t EXCEPT !.at = "log"]
    BY Zenon
  <2>4. /\ storing' = (storing \ {t}) \union {s} /\ UNCHANGED <<entering, enqPool, pendMap>>
        /\ UNCHANGED <<leaving, deleting, enqLog, deqLog>>
    BY <2>3, Zenon DEF Put, StoreGoto, ids
  <2>5. s.op = t.op /\ s.at # "put" /\ s.at # "add"
    BY <2>1, <2>3 DEF TypeOK
  <2>6. Unique' /\ Scheduled' = Scheduled /\ ToPut' = ToPut \ {t}
    BY <2>1, <2>4, <2>5, <1>WorkerMoves, Zenon
  <2>7. Logged' /\ CalledOff'
    BY <2>1, <2>4, <2>6, Zenon DEF Logged, CalledOff
  <2>8. Owned'
    <3>1. Closers \subseteq Closers' \union {t} /\ s \in Closers'
      BY <2>4, <2>5, <2>6, Zenon DEF Closers
    <3> QED
      BY <2>1, <2>2, <2>4, <2>5, <3>1, Zenon DEF Owned
  <2> QED
    BY <2>2, <2>6, <2>7, <2>8, Zenon DEF TaskInv, Reread

\* The completion is logged: of an operation that no other task is about.
<1>StoreLogTasks.
    ASSUME NEW t \in storing, StoreLog(t)
    PROVE  TaskInv'
  <2> USE <1>StoreLogTasks
  <2>1. TypeOK /\ Phases /\ Unique /\ Logged /\ CalledOff /\ Owned
    BY Zenon DEF StoreInv, TaskInv
  <2>2. mode = "up" /\ mode' = "up" /\ mode' # "recover"
    BY <2>1, Zenon DEF Phases, Working, StoreLog
  <2>3. PICK s : s = [t EXCEPT !.at = "add"]
    BY Zenon
  <2>4. /\ storing' = (storing \ {t}) \union {s} /\ UNCHANGED <<entering, enqPool, pendMap>>
        /\ enqLog' = Without(enqLog, {t.op}) /\ t.at = "log" /\ UNCHANGED <<leaving, deleting, deqLog>>
    BY <2>3, Zenon DEF StoreLog, StoreGoto, ids
  <2>5. s.op = t.op /\ s.at # "put" /\ t.at # "put"
    BY <2>1, <2>3, <2>4 DEF TypeOK
  <2>6. Unique' /\ Scheduled' = Scheduled /\ ToPut' = ToPut \ {t} /\ \A u \in ToPut : u.op # t.op
    BY <2>1, <2>4, <2>5, <1>WorkerMoves, Zenon
  <2>7. Logged'
    <3>1. \A u \in ToPut : Entry(u).op = u.op
      BY DEF Entry
    <3> QED
      BY <2>1, <2>4, <2>6, <3>1, Zenon DEF Logged, Without
  <2>8. CalledOff'
    BY <2>1, <2>4, <2>6, Zenon DEF CalledOff
  <2>9. Owned'
    <3>1. Closers \subseteq Closers' \union {t}
      BY <2>4, <2>6, Zenon DEF Closers
    <3> QED
      BY <2>1, <2>2, <2>4, <3>1, Zenon DEF Owned, Without
  <2> QED
    BY <2>2, <2>6, <2>7, <2>8, <2>9, Zenon DEF TaskInv, Reread

\* The task is done.
<1>StoreAddTasks.
    ASSUME NEW t \in storing, StoreAdd(t)
    PROVE  TaskInv'
  <2> USE <1>StoreAddTasks
  <2>1. Phases /\ Unique /\ Logged /\ CalledOff /\ Owned
    BY Zenon DEF StoreInv, TaskInv
  <2>2. mode = "up" /\ mode' = "up" /\ mode' # "recover"
    BY <2>1, Zenon DEF Phases, Working, StoreAdd
  <2>3. /\ storing' = storing \ {t} /\ t.at = "add"
        /\ UNCHANGED <<pendMap, entering, leaving, enqPool, deleting, disk>>
    BY Zenon DEF StoreAdd
  <2>4. Scheduled' = Scheduled /\ ToPut' \subseteq ToPut /\ Closers' = Closers
    <3>1. Scheduled' = Scheduled
      BY <2>3, Zenon DEF Scheduled
    <3>2. {u \in storing' : u.at # "add"} = {u \in storing : u.at # "add"}
      BY <2>3, Zenon
    <3> QED
      BY <2>3, <3>1, <3>2, Zenon DEF ToPut, Inserting, Closers
  <2>5. Unique'
    BY <2>1, <2>3, <2>4, Zenon DEF Unique
  <2>6. Logged' /\ CalledOff'
    BY <2>1, <2>3, <2>4, Zenon DEF Logged, CalledOff, disk
  <2>7. Owned'
    BY <2>1, <2>2, <2>3, <2>4, Zenon DEF Owned, disk
  <2> QED
    BY <2>2, <2>5, <2>6, <2>7, Zenon DEF TaskInv, Reread

\* A deletion is carried out, or its completion logged: its task is the last for it.
<1>RemoveTasks.
    ASSUME NEW d \in deleting, RemoveMsg(d) \/ RemoveLog(d)
    PROVE  TaskInv'
  <2> USE <1>RemoveTasks
  <2>1. TypeOK /\ Phases /\ Unique /\ Logged /\ CalledOff /\ Owned
    BY Zenon DEF StoreInv, TaskInv
  <2>2. mode = "up" /\ mode' = "up" /\ mode' # "recover"
    BY <2>1, Zenon DEF Phases, RemoveMsg, RemoveLog
  <2>3. UNCHANGED <<pendMap, entering, leaving, enqPool, storing, enqLog>>
    BY Zenon DEF RemoveMsg, RemoveLog, ids
  <2>4. Scheduled' = Scheduled /\ ToPut' = ToPut /\ Closers' = Closers
    BY <2>3, Zenon DEF Scheduled, ToPut, Inserting, Closers
  <2>5. Unique' /\ Logged' /\ CalledOff'
    <3>1. Unique'
      BY <2>1, <2>3, <2>4, Zenon DEF Unique
    <3> QED
      BY <2>1, <2>3, <2>4, <3>1, Zenon DEF Logged, CalledOff
  <2>6. \A o \in deqLog' : \E c \in deleting' : c.op = o
    <3>1. CASE RemoveMsg(d)
      <4>1. PICK g : g = [d EXCEPT !.at = "log"]
        BY Zenon
      <4>2. g.op = d.op
        BY <2>1, <4>1 DEF TypeOK
      <4>3. deleting' = (deleting \ {d}) \union {g} /\ deqLog' = deqLog
        BY <3>1, <4>1, Zenon DEF RemoveMsg
      <4> QED
        BY <2>1, <2>2, <4>2, <4>3, Zenon DEF Owned
    <3>2. CASE RemoveLog(d)
      <4>1. deleting' = deleting \ {d} /\ deqLog' = deqLog \ {d.op}
        BY <3>2, Zenon DEF RemoveLog, LogDequeueComplete
      <4> QED
        BY <2>1, <2>2, <4>1, Zenon DEF Owned
    <3> QED
      BY <3>1, <3>2, Zenon
  <2>7. Owned'
    BY <2>1, <2>2, <2>3, <2>4, <2>6, Zenon DEF Owned
  <2> QED
    BY <2>2, <2>5, <2>7, Zenon DEF TaskInv, Reread

\* A crash leaves no call and no task.
<1>CrashTasks.
    ASSUME Crash
    PROVE  TaskInv'
  <2> USE <1>CrashTasks
  <2>1. /\ mode' = "read" /\ entering' = {} /\ leaving' = {} /\ enqPool' = <<>> /\ storing' = {} /\ pendMap' = {}
    BY Zenon DEF Crash
  <2>2. mode' # "up" /\ mode' # "recover" /\ DOMAIN enqPool' = {}
    BY <2>1
  <2>3. Working' = {}
    BY <2>1, <2>2, Zenon DEF Working, Scheduled
  <2> QED
    BY <2>1, <2>2, <2>3, <1>DownTasks, Zenon DEF Reread

\* A step of recovery has no calls and tasks to do with.
<1>RecoveryTasks.
    ASSUME mode # "up", mode' # "up", UNCHANGED <<ids, tasks>>, Reread'
    PROVE  TaskInv'
  <2> USE <1>RecoveryTasks
  <2>1. Working = {} /\ leaving = {} /\ Unique
    BY Zenon DEF StoreInv, TaskInv, Phases
  <2>2. pendMap = {}
    BY <2>1, Zenon DEF Unique, Working
  <2>3. Working' = {} /\ leaving' = {} /\ pendMap' = {}
    BY <2>1, <2>2, Zenon DEF Working, Scheduled, tasks, ids
  <2> QED
    BY <2>3, <1>DownTasks, Zenon

\* The logs are read.
<1>ReadLogsTasks.
    ASSUME ReadLogs
    PROVE  TaskInv'
  <2> USE <1>ReadLogsTasks
  <2>1. /\ mode = "read" /\ mode' = "recover" /\ todo' = Queues /\ adset' = deqLog /\ aeset' = enqLog
        /\ UNCHANGED <<ids, tasks, broker, disk, discard, closing>>
    BY Zenon DEF ReadLogs
  <2>2. mode # "up" /\ mode # "recover" /\ mode' # "up"
    BY <2>1
  <2>3. discard = {} /\ closing = <<>> /\ \A m \in Msgs : pid[m] = 0
    BY <2>1, <2>2, Zenon DEF StoreInv, Phases
  <2>4. \A w \in Pairs : onQueue[w] = 0
    <3>1. ASSUME NEW w \in Pairs PROVE onQueue[w] = 0
      <4>1. w[1] \in Msgs
        BY DEF Pairs
      <4>2. ~(onQueue[w] > 0)
        BY <2>3, <4>1, Zenon DEF StoreInv, Sent
      <4>3. onQueue[w] \in Nat
        BY Zenon DEF StoreInv, TypeOK
      <4> QED
        BY <4>2, <4>3
    <3> QED
      BY <3>1, Zenon
  <2>5. DOMAIN closing' = {}
    BY <2>1, <2>3
  <2>6. Reread'
    BY <2>1, <2>3, <2>4, <2>5, Zenon DEF Reread, broker, disk
  <2> QED
    BY <2>1, <2>2, <2>6, <1>RecoveryTasks, Zenon

\* decodeAndRecoverMsg for a queue.
<1>RecoverQueueTasks.
    ASSUME NEW q \in Queues, RecoverQueue(q)
    PROVE  TaskInv'
  <2> USE <1>RecoverQueueTasks
  <2>1. TypeOK /\ Named /\ Reread
    BY Zenon DEF StoreInv, TaskInv
  <2>2. /\ mode = "recover" /\ mode' = "recover" /\ closing = <<>> /\ q \in todo /\ todo' = todo \ {q}
        /\ aeset' = aeset \ (Useless \union Transients \union AlreadyEnqueued(q))
        /\ adset' = adset \ (OpsOf(Useless) \union OpsOf(Accepted(q)))
        /\ enqLog' = Without(enqLog, OpsOf(AlreadyEnqueued(q)))
        /\ discard' = discard \union OpsOf(On(db, q) \ FromDb(q)) \union OpsOf(Accepted(q))
        /\ UNCHANGED <<ids, tasks, db, deqLog>>
    BY RecoverQueueIs, Zenon
  <2>3. /\ DOMAIN closing' = {1, 2, 3, 4}
        /\ closing'[1].log = "enq" /\ closing'[1].ops = OpsOf(Transients)
        /\ closing'[2].log = "deq" /\ closing'[2].ops = OpsOf(Accepted(q))
        /\ closing'[3].log = "enq" /\ closing'[3].ops = OpsOf(Useless)
        /\ closing'[4].log = "deq" /\ closing'[4].ops = OpsOf(Useless)
    BY RecoverQueueIs, Zenon
  <2>4. mode # "up" /\ mode' # "up" /\ DOMAIN closing = {}
    BY <2>2
  <2>5. \A r, s \in aeset : r.op = s.op => r = s
    <3>1. \A r, s \in aeset : r.op = s.op => Pair(r) = Pair(s)
      BY <2>1, SameOp, Zenon DEF Recs
    <3> QED
      BY <2>1, <3>1, SameRecord, Zenon
  <2>6. ASSUME NEW X, X \subseteq aeset, NEW e \in aeset, e \notin X PROVE e.op \notin OpsOf(X)
    <3>1. ASSUME e.op \in OpsOf(X) PROVE FALSE
      <4>1. PICK x \in X : x.op = e.op
        BY <3>1, Zenon DEF OpsOf
      <4> QED
        BY <2>5, <2>6, <4>1, Zenon
    <3> QED
      BY <3>1, Zenon
  <2>7. AlreadyEnqueued(q) \subseteq aeset /\ Useless \subseteq aeset /\ Transients \subseteq aeset
    BY FoundIn, Zenon
  <2>8. aeset' \subseteq enqLog'
    <3>1. ASSUME NEW e \in aeset' PROVE e \in enqLog'
      <4>1. e \in aeset /\ e \in enqLog /\ e \notin AlreadyEnqueued(q)
        BY <2>1, <2>2, Zenon DEF Reread
      <4>2. e.op \notin OpsOf(AlreadyEnqueued(q))
        BY <2>6, <2>7, <4>1, Zenon
      <4> QED
        BY <2>2, <4>1, <4>2, Zenon DEF Without
    <3> QED
      BY <3>1, Zenon
  <2>9. ASSUME NEW e \in aeset' PROVE e.op \notin OpsOf(Transients) /\ e.op \notin OpsOf(Useless)
    BY <2>2, <2>6, <2>7, <2>9, Zenon
  <2>10. ASSUME NEW i \in DOMAIN closing', closing'[i].log = "enq", NEW e \in aeset' PROVE e.op \notin closing'[i].ops
    <3>1. "enq" # "deq"
      OBVIOUS
    <3>2. i = 1 \/ i = 3
      BY <2>3, <2>10, <3>1, Zenon
    <3>3. CASE i = 1
      BY <2>3, <2>9, <3>3, Zenon
    <3>4. CASE i = 3
      BY <2>3, <2>9, <3>4, Zenon
    <3> QED
      BY <3>2, <3>3, <3>4, Zenon
  <2>11. ASSUME NEW o \in deqLog', o \notin adset'
        PROVE  \E i \in DOMAIN closing' : closing'[i].log = "deq" /\ o \in closing'[i].ops
    <3>1. o \in adset
      BY <2>1, <2>2, <2>4, Zenon DEF Reread
    <3>2. o \in OpsOf(Useless) \/ o \in OpsOf(Accepted(q))
      BY <2>2, <2>11, <3>1, Zenon
    <3> QED
      BY <2>3, <3>2, Zenon
  <2>12. ASSUME NEW o \in discard' PROVE o[2] \notin todo'
    <3>1. \A r \in On(db, q) \union Accepted(q) : r.op[2] = q
      BY FoundIn, Zenon DEF On
    <3>2. o \in discard \/ o[2] = q
      BY <2>2, <3>1, Zenon DEF OpsOf
    <3> QED
      BY <2>1, <2>2, <3>2, Zenon DEF Reread
  <2>13. ASSUME NEW w \in Pairs, w[2] \in todo' PROVE onQueue'[w] = 0
    <3>1. onQueue[w] = 0 /\ w[2] # q
      BY <2>1, <2>2, <2>13, Zenon DEF Reread
    <3>2. ASSUME NEW r \in Restoring(q), Pair(r) = w PROVE FALSE
      <4>1. r.op[2] = q
        BY FoundIn, Zenon DEF Restoring
      <4>2. w[2] = r.op[2]
        BY <3>2 DEF Pair
      <4> QED
        BY <3>1, <4>1, <4>2, Zenon
    <3>3. ~(PutBack(q, w) > 0) /\ PutBack(q, w) \in 0..2
      BY <2>1, <3>2, CopiesAre, Zenon
    <3>4. onQueue'[w] = onQueue[w] + PutBack(q, w)
      BY RecoverQueueIs, Zenon
    <3> QED
      BY <3>1, <3>3, <3>4
  <2>14. Reread'
    BY <2>8, <2>10, <2>11, <2>12, <2>13, Zenon DEF Reread
  <2> QED
    BY <2>2, <2>4, <2>14, <1>RecoveryTasks, Zenon

\* A mass completion closes no pending enqueue that is still to be resurrected.
<1>LogMassTasks.
    ASSUME LogMass
    PROVE  TaskInv'
  <2> USE <1>LogMassTasks
  <2>1. /\ mode = "recover" /\ mode' = "recover" /\ 1 \in DOMAIN closing
        /\ \A i \in DOMAIN closing' : i + 1 \in DOMAIN closing /\ closing'[i] = closing[i + 1]
        /\ \A i \in DOMAIN closing : i = 1 \/ (i - 1 \in DOMAIN closing' /\ closing'[i - 1] = closing[i])
        /\ \A r : r \in enqLog' <=> r \in enqLog /\ ~(closing[1].log = "enq" /\ r.op \in closing[1].ops)
        /\ \A o : o \in deqLog' <=> o \in deqLog /\ ~(closing[1].log = "deq" /\ o \in closing[1].ops)
        /\ UNCHANGED <<ids, tasks, broker, db, todo, adset, aeset, discard>>
    BY LogMassIs, Zenon
  <2>2. mode # "up" /\ mode' # "up"
    BY <2>1
  <2>3. /\ aeset \subseteq enqLog
        /\ \A i \in DOMAIN closing : closing[i].log = "enq" => \A e \in aeset : e.op \notin closing[i].ops
        /\ \A o \in deqLog : o \in adset \/ \E i \in DOMAIN closing : closing[i].log = "deq" /\ o \in closing[i].ops
        /\ \A o \in discard : o[2] \notin todo
        /\ \A w \in Pairs : w[2] \in todo => onQueue[w] = 0
    BY <2>1, Zenon DEF TaskInv, Reread
  <2>4. aeset' \subseteq enqLog'
    BY <2>1, <2>3, Zenon
  <2>5. ASSUME NEW i \in DOMAIN closing', closing'[i].log = "enq", NEW e \in aeset' PROVE e.op \notin closing'[i].ops
    <3>1. i + 1 \in DOMAIN closing /\ closing[i + 1].log = "enq" /\ closing'[i] = closing[i + 1] /\ e \in aeset
      BY <2>1, <2>5, Zenon
    <3> QED
      BY <2>3, <3>1, Zenon
  <2>6. ASSUME NEW o \in deqLog', o \notin adset'
        PROVE  \E i \in DOMAIN closing' : closing'[i].log = "deq" /\ o \in closing'[i].ops
    <3>1. o \in deqLog /\ o \notin adset /\ ~(closing[1].log = "deq" /\ o \in closing[1].ops)
      BY <2>1, <2>6, Zenon
    <3>2. PICK i \in DOMAIN closing : closing[i].log = "deq" /\ o \in closing[i].ops
      BY <2>3, <3>1, Zenon
    <3>3. i # 1
      BY <3>1, <3>2, Zenon
    <3>4. i - 1 \in DOMAIN closing' /\ closing'[i - 1] = closing[i]
      BY <2>1, <3>3, Zenon
    <3> QED
      BY <3>2, <3>4, Zenon
  <2>7. (\A o \in discard' : o[2] \notin todo') /\ \A w \in Pairs : w[2] \in todo' => onQueue'[w] = 0
    BY <2>1, <2>3, Zenon DEF broker
  <2>8. Reread'
    BY <2>4, <2>5, <2>6, <2>7, Zenon DEF Reread
  <2> QED
    BY <2>1, <2>2, <2>8, <1>RecoveryTasks, Zenon

\* A message registered as transient or accepted is discarded.
<1>DiscardTasks.
    ASSUME NEW op \in discard, Discard(op)
    PROVE  TaskInv'
  <2> USE <1>DiscardTasks
  <2>1. /\ mode = "recover" /\ discard' = discard \ {op}
        /\ UNCHANGED <<ids, tasks, broker, enqLog, deqLog, mode, todo, adset, aeset, closing>>
    BY Zenon DEF Discard, Discarding
  <2>2. mode # "up" /\ mode' # "up"
    BY <2>1
  <2>3. Reread'
    BY <2>1, Zenon DEF TaskInv, Reread, broker
  <2> QED
    BY <2>1, <2>2, <2>3, <1>RecoveryTasks, Zenon

\* The pending operations are resurrected: each has its task, and each task its entry.
<1>ResurrectTasks.
    ASSUME Resurrect
    PROVE  TaskInv'
  <2> USE <1>ResurrectTasks
  <2>1. /\ mode' = "up" /\ pendMap' = (IF Smart THEN OpsOf(aeset) ELSE {})
        /\ entering' = {} /\ leaving' = {} /\ storing' = {} /\ Scheduled' = aeset /\ enqLog' = aeset
        /\ deleting' = {[op |-> o, msg |-> NoMsg, at |-> "wait"] : o \in adset}
        /\ deqLog' = deqLog /\ deqLog \subseteq adset
    BY ResurrectIs, Zenon
  <2>2. mode' # "recover"
    BY <2>1
  <2>3. Unique'
    <3>1. \A o \in pendMap' : \E t \in Scheduled' : t.op = o
      <4>1. ASSUME NEW o \in pendMap' PROVE o \in OpsOf(aeset)
        <5>1. CASE Smart
          BY <2>1, <5>1, Zenon
        <5>2. CASE ~Smart
          BY <2>1, <5>2, Zenon
        <5> QED
          BY <5>1, <5>2, Zenon
      <4> QED
        BY <2>1, <4>1, Zenon DEF OpsOf
    <3> QED
      BY <2>1, <3>1, Zenon DEF Unique
  <2>4. \A r \in aeset : Entry(r) = r
    <3>1. aeset \subseteq Tasks
      BY Zenon DEF StoreInv, TypeOK
    <3> QED
      BY <3>1 DEF Tasks, Entry
  <2>5. Logged'
    <3>1. \A t \in ToPut' : t \in aeset
      BY <2>1, Zenon DEF ToPut, Inserting
    <3> QED
      BY <2>1, <2>4, <3>1, Zenon DEF Logged
  <2>6. Owned'
    <3>1. \A o \in adset : \E d \in deleting' : d.op = o
      <4>1. ASSUME NEW o \in adset PROVE \E d \in deleting' : d.op = o
        <5>1. PICK d : d = [op |-> o, msg |-> NoMsg, at |-> "wait"]
          BY Zenon
        <5>2. d.op = o
          BY <5>1
        <5> QED
          BY <2>1, <5>1, <5>2, Zenon
      <4> QED
        BY <4>1, Zenon
    <3>2. aeset \subseteq Closers'
      BY <2>1, Zenon DEF Closers
    <3> QED
      BY <2>1, <3>1, <3>2, Zenon DEF Owned
  <2> QED
    BY <2>1, <2>2, <2>3, <2>5, <2>6, Zenon DEF TaskInv, CalledOff, Reread

<1>StutterTasks.
    ASSUME UNCHANGED vars
    PROVE  TaskInv'
  <2> USE <1>StutterTasks
  <2>1. UNCHANGED <<ids, tasks, broker, disk, mode, recovery>>
    BY Zenon DEF vars
  <2>2. Scheduled' = Scheduled /\ Inserting' = Inserting /\ ToPut' = ToPut /\ Closers' = Closers
    BY <2>1, Zenon DEF Scheduled, Inserting, ToPut, Closers, ids, tasks
  <2>3. Unique' /\ Logged' /\ CalledOff'
    BY <2>1, <2>2, Zenon DEF TaskInv, Unique, Logged, CalledOff, ids, tasks, disk
  <2>4. Owned' /\ Reread'
    BY <2>1, <2>2, Zenon DEF TaskInv, Owned, Reread, tasks, broker, disk, recovery
  <2> QED
    BY <2>3, <2>4, Zenon DEF TaskInv

<1>1. CASE Broker
  BY <1>1, <1>EnqueueBeginTasks, <1>DequeueBeginTasks, Zenon DEF Broker, EnqueueNew, EnqueueAgain
<1>2. CASE Progress
  BY <1>2, <1>EnqueueLogTasks, <1>EnqueueScheduleTasks, <1>DequeueEndTasks, <1>TakeStoreTasks, <1>PutTasks, <1>StoreLogTasks,
     <1>StoreAddTasks, <1>RemoveTasks, Zenon DEF Progress
<1>3. CASE Recover
  BY <1>3, <1>ReadLogsTasks, <1>LogMassTasks, <1>ResurrectTasks, <1>RecoverQueueTasks, <1>DiscardTasks, Zenon DEF Recover
<1>4. CASE Crash
  BY <1>4, <1>CrashTasks, Zenon
<1>5. CASE UNCHANGED vars
  BY <1>5, <1>StutterTasks, Zenon
<1> QED
  BY <1>1, <1>2, <1>3, <1>4, <1>5, Zenon DEF Next

(***************************************************************************)
(* Whatever the crashes, an operation has at most one call or task at a    *)
(* time, what is to be inserted is in the enqueue log, what a dequeue      *)
(* called off is not inserted, and, while the broker runs, everything the  *)
(* logs hold as pending has a task that will close it.                     *)
(***************************************************************************)
THEOREM TasksAgree == Spec => []TaskInv
<1>1. Init => TaskInv
  BY InitTasks, Zenon
<1>2. StoreInv /\ StoreInv' /\ TaskInv /\ [Next]_vars => TaskInv'
  BY TaskStepInv, Zenon
<1> QED
  BY <1>1, <1>2, StoreInvariance, PTL DEF Spec

\* OnceInv holds at first.
LEMMA InitOnce ==
    ASSUME Init
    PROVE  OnceInv
<1>1. /\ entering = {} /\ leaving = {} /\ enqPool = <<>> /\ storing = {} /\ mode = "up"
      /\ onQueue = [w \in Pairs |-> 0]
  BY Zenon DEF Init
<1>2. mode # "recover" /\ DOMAIN enqPool = {} /\ 0 <= 1
  BY <1>1
<1>3. Waiting = {}
  BY <1>1, <1>2, Zenon DEF Waiting, Scheduled
<1> QED
  BY <1>1, <1>2, <1>3, Zenon DEF OnceInv, OnceOnQueue, NotYet, TakenOff, Missing

\* A message gets on its queue a second time only through an entry that is not looked up.
LEMMA OnceStep ==
    ASSUME StoreInv, StoreInv', TaskInv, OnceInv, [Next]_vars,
           \A q \in Queues : RecoverQueue(q) => LookedUp(q)
    PROVE  OnceInv'
\* A step that inserts no message, and puts none on a queue.
<1>OnceFrame.
    ASSUME mode' # "recover", db' \subseteq db, onQueue' = onQueue, leaving' \subseteq leaving,
           \A t \in Waiting' : \E u \in Waiting : t.op = u.op
    PROVE  OnceInv'
  <2> USE <1>OnceFrame
  <2>1. OnceOnQueue /\ NotYet /\ TakenOff
    BY Zenon DEF OnceInv
  <2>2. NotYet'
    <3>1. ASSUME NEW t \in Waiting', NEW r \in db' PROVE r.op # t.op
      <4>1. PICK u \in Waiting : t.op = u.op
        BY Zenon
      <4> QED
        BY <2>1, <4>1, Zenon DEF NotYet
    <3> QED
      BY <3>1, Zenon DEF NotYet
  <2>3. TakenOff'
    BY <2>1, Zenon DEF TakenOff
  <2>4. OnceOnQueue'
    BY <2>1, Zenon DEF OnceOnQueue
  <2> QED
    BY <2>2, <2>3, <2>4, Zenon DEF OnceInv, Missing

\* A call of enqueue is for a message that nothing is known of on that queue.
<1>EnqueueBeginOnce.
    ASSUME NEW m \in Msgs, NEW q \in Queues, NEW id, EnqueueBegin(m, q, id)
    PROVE  OnceInv'
  <2> USE <1>EnqueueBeginOnce
  <2>1. TypeOK /\ Named /\ Sent /\ TypeOK' /\ Named' /\ OnceOnQueue /\ NotYet /\ TakenOff
    BY Zenon DEF StoreInv, OnceInv
  <2>2. PICK w, e : w = <<m, q>> /\ e = [op |-> <<id, q>>, msg |-> m, at |-> "log"]
    BY Zenon
  <2>3. /\ mode = "up" /\ stage[w] = "none" /\ entering' = entering \union {e}
        /\ UNCHANGED <<leaving, enqPool, storing, onQueue, disk, mode>>
    BY <2>2, Zenon DEF EnqueueBegin
  <2>4. Pair(e) = w /\ mode' # "recover"
    BY <2>2, <2>3 DEF Pair
  <2>5. ASSUME NEW r \in db, r.op = e.op PROVE FALSE
    <3>1. r \in Recs /\ r \in Recs' /\ e \in Recs'
      BY <2>3, Zenon DEF Recs, Working, disk
    <3>2. Pair(r) = w
      BY <2>1, <2>4, <2>5, <3>1, SameOpsNext, Zenon DEF SameOps
    <3> QED
      BY <2>1, <2>3, <3>1, <3>2, Zenon DEF Sent
  <2>6. Waiting' \subseteq Waiting \union {e} /\ db' = db
    BY <2>3, Zenon DEF Waiting, Scheduled, disk
  <2>7. NotYet'
    BY <2>1, <2>5, <2>6, Zenon DEF NotYet
  <2>8. TakenOff' /\ OnceOnQueue'
    BY <2>1, <2>3, <2>6, Zenon DEF TakenOff, OnceOnQueue
  <2> QED
    BY <2>4, <2>7, <2>8, Zenon DEF OnceInv, Missing

\* The start is logged.
<1>EnqueueLogOnce.
    ASSUME NEW e \in entering, EnqueueLog(e)
    PROVE  OnceInv'
  <2> USE <1>EnqueueLogOnce
  <2>1. mode = "up" /\ TypeOK
    BY Zenon DEF StoreInv, Phases, Working
  <2>2. PICK f : f = [e EXCEPT !.at = "schedule"]
    BY Zenon
  <2>3. /\ entering' = (entering \ {e}) \union {f} /\ UNCHANGED <<leaving, enqPool, storing, broker, db, mode>>
    BY <2>2, Zenon DEF EnqueueLog
  <2>4. f.op = e.op /\ mode' # "recover"
    BY <2>1, <2>2, <2>3 DEF TypeOK
  <2>5. \A t \in Waiting' : \E u \in Waiting : t.op = u.op
    <3>1. Waiting' \subseteq Waiting \union {f} /\ e \in Waiting
      BY <2>3, Zenon DEF Waiting, Scheduled
    <3> QED
      BY <2>4, <3>1, Zenon
  <2> QED
    BY <2>3, <2>4, <2>5, <1>OnceFrame, Zenon DEF broker

\* enqueue returns: the message, which was not on the queue, is put on it.
<1>EnqueueScheduleOnce.
    ASSUME NEW e \in entering, EnqueueSchedule(e)
    PROVE  OnceInv'
  <2> USE <1>EnqueueScheduleOnce
  <2>1. TypeOK /\ Phases /\ Entered /\ OnceOnQueue /\ NotYet /\ TakenOff
    BY Zenon DEF StoreInv, OnceInv
  <2>2. mode = "up" /\ Pair(e) \in Pairs
    BY <2>1, RecsTyped, Zenon DEF Phases, Working, Recs
  <2>3. PICK t : t = [op |-> e.op, msg |-> e.msg]
    BY Zenon
  <2>4. /\ entering' = entering \ {e} /\ enqPool' = Append(enqPool, t)
        /\ onQueue' = [onQueue EXCEPT ![Pair(e)] = @ + 1] /\ UNCHANGED <<leaving, storing, disk, mode>>
    BY <2>3, Zenon DEF EnqueueSchedule
  <2>5. mode' # "recover" /\ t.op = e.op /\ db' = db
    <3>1. db' = db
      BY <2>4, Zenon DEF disk
    <3> QED
      BY <2>2, <2>3, <2>4, <3>1
  <2>6. Scheduled' = Scheduled \union {t}
    <3>1. e.op \in Ops /\ e.msg \in Msgs
      BY <2>1, RecsTyped, Zenon DEF Recs, Working
    <3>2. t \in Tasks
      BY <2>3, <3>1, Zenon DEF Tasks
    <3> QED
      BY <2>1, <2>4, <3>2, ScheduledAppends, Zenon
  <2>7. NotYet'
    <3>1. Waiting' \subseteq Waiting \union {t} /\ e \in Waiting
      BY <2>4, <2>6, Zenon DEF Waiting
    <3> QED
      BY <2>1, <2>5, <3>1, Zenon DEF NotYet
  <2>8. /\ onQueue'[Pair(e)] = 1 /\ \A w \in Pairs : w # Pair(e) => onQueue'[w] = onQueue[w]
    <3>1. onQueue[Pair(e)] = 0 /\ onQueue \in [Pairs -> Nat]
      BY <2>1, Zenon DEF Entered, TypeOK
    <3>2. onQueue'[Pair(e)] = onQueue[Pair(e)] + 1 /\ \A w \in Pairs : w # Pair(e) => onQueue'[w] = onQueue[w]
      BY <2>2, <2>4, <3>1, Zenon
    <3> QED
      BY <3>1, <3>2
  <2>9. OnceOnQueue'
    <3>1. ASSUME NEW w \in Pairs PROVE onQueue'[w] <= 1
      <4>1. CASE w = Pair(e)
        BY <2>8, <4>1
      <4>2. CASE w # Pair(e)
        BY <2>1, <2>8, <4>2, Zenon DEF OnceOnQueue
      <4> QED
        BY <4>1, <4>2, Zenon
    <3> QED
      BY <3>1, Zenon DEF OnceOnQueue
  <2>10. \A d \in leaving : Pair(d) # Pair(e) /\ Pair(d) \in Pairs
    <3>1. \A d \in leaving : stage[Pair(d)] \in {"asked", "done"} /\ Pair(d) \in Pairs
      BY <2>1, RecsTyped, Zenon DEF Entered, Recs
    <3>2. stage[Pair(e)] = "sent"
      BY <2>1, Zenon DEF Entered
    <3>3. "sent" \notin {"asked", "done"}
      OBVIOUS
    <3> QED
      BY <3>1, <3>2, <3>3, Zenon
  <2>11. TakenOff'
    BY <2>1, <2>4, <2>5, <2>8, <2>10, Zenon DEF TakenOff
  <2> QED
    BY <2>5, <2>7, <2>9, <2>11, Zenon DEF OnceInv, Missing

\* A message is taken off its queue, where it was once; its enqueue is called off while its task waits.
<1>DequeueBeginOnce.
    ASSUME NEW w \in Pairs, DequeueBegin(w)
    PROVE  OnceInv'
  <2> USE <1>DequeueBeginOnce
  <2>1. TypeOK /\ Phases /\ Unique /\ OnceOnQueue /\ NotYet /\ TakenOff
    BY Zenon DEF StoreInv, TaskInv, OnceInv
  <2>2. PICK o, x, d : /\ o = <<pid[w[1]], w[2]>> /\ x = ~(Smart /\ o \in pendMap)
                       /\ d = [op |-> o, msg |-> w[1], exec |-> x]
    BY Zenon
  <2>3. /\ mode = "up" /\ onQueue[w] > 0 /\ onQueue' = [onQueue EXCEPT ![w] = @ - 1]
        /\ leaving' = leaving \union {d} /\ UNCHANGED <<entering, enqPool, storing, disk, mode>>
    BY <2>2, Zenon DEF DequeueBegin
  <2>4. /\ d.op = o /\ d.exec = x /\ Pair(d) = w /\ mode' # "recover"
    <3>1. w = <<w[1], w[2]>>
      BY DEF Pairs
    <3>2. d.op = o /\ d.exec = x /\ d.msg = w[1] /\ o[2] = w[2] /\ mode' # "recover"
      BY <2>2, <2>3
    <3> QED
      BY <3>1, <3>2, Zenon DEF Pair
  <2>5. onQueue'[w] = 0 /\ \A v \in Pairs : v # w => onQueue'[v] = onQueue[v]
    <3>1. onQueue \in [Pairs -> Nat] /\ onQueue[w] <= 1
      BY <2>1, Zenon DEF TypeOK, OnceOnQueue
    <3>2. onQueue'[w] = onQueue[w] - 1 /\ \A v \in Pairs : v # w => onQueue'[v] = onQueue[v]
      BY <2>3, <3>1, Zenon
    <3>3. onQueue[w] \in Nat
      BY <3>1, Zenon
    <3> QED
      BY <2>3, <3>1, <3>2, <3>3
  <2>6. OnceOnQueue'
    <3>1. ASSUME NEW v \in Pairs PROVE onQueue'[v] <= 1
      <4>1. CASE v = w
        BY <2>5, <4>1
      <4>2. CASE v # w
        BY <2>1, <2>5, <4>2, Zenon DEF OnceOnQueue
      <4> QED
        BY <4>1, <4>2, Zenon
    <3> QED
      BY <3>1, Zenon DEF OnceOnQueue
  <2>7. NotYet' /\ db' = db
    <3>1. Waiting' = Waiting /\ db' = db
      BY <2>3, Zenon DEF Waiting, Scheduled, disk
    <3> QED
      BY <2>1, <3>1, Zenon DEF NotYet
  <2>8. x \/ \A r \in db : r.op # o
    <3>1. CASE Smart /\ o \in pendMap
      <4>1. PICK t \in Scheduled : t.op = o
        BY <2>1, <3>1, Zenon DEF Unique
      <4> QED
        BY <2>1, <4>1, Zenon DEF NotYet, Waiting
    <3>2. CASE ~(Smart /\ o \in pendMap)
      BY <2>2, <3>2, Zenon
    <3> QED
      BY <3>1, <3>2, Zenon
  <2>9. TakenOff'
    <3>1. ASSUME NEW c \in leaving PROVE onQueue'[Pair(c)] = 0 /\ (c.exec \/ \A r \in db' : r.op # c.op)
      <4>1. Pair(c) \in Pairs /\ onQueue[Pair(c)] = 0 /\ (c.exec \/ \A r \in db : r.op # c.op)
        BY <2>1, RecsTyped, Zenon DEF TakenOff, Recs
      <4> QED
        BY <2>5, <2>7, <4>1, Zenon
    <3>2. onQueue'[Pair(d)] = 0 /\ (d.exec \/ \A r \in db' : r.op # d.op)
      BY <2>4, <2>5, <2>7, <2>8, Zenon
    <3> QED
      BY <2>3, <3>1, <3>2, Zenon DEF TakenOff
  <2> QED
    BY <2>4, <2>6, <2>7, <2>9, Zenon DEF OnceInv, Missing

\* The dequeue returns, a worker takes a task, or ends it: nothing is inserted.
<1>DequeueEndOnce.
    ASSUME NEW d \in leaving, DequeueEnd(d)
    PROVE  OnceInv'
  <2> USE <1>DequeueEndOnce
  <2>1. mode = "up" \/ leaving = {}
    BY Zenon DEF StoreInv, Phases
  <2>2. /\ leaving' = leaving \ {d} /\ UNCHANGED <<entering, enqPool, storing, broker, db, mode>>
    BY Zenon DEF DequeueEnd
  <2>3. mode' # "recover"
    BY <2>1, <2>2
  <2>4. Waiting' = Waiting
    BY <2>2, Zenon DEF Waiting, Scheduled
  <2> QED
    BY <2>2, <2>3, <2>4, <1>OnceFrame, Zenon DEF broker

<1>TakeStoreOnce.
    ASSUME TakeStore
    PROVE  OnceInv'
  <2> USE <1>TakeStoreOnce
  <2>1. TypeOK /\ Phases /\ Stored
    BY Zenon DEF StoreInv
  <2>2. PICK h, at, s : h = Head(enqPool) /\ s = [op |-> h.op, msg |-> h.msg, at |-> at]
                        /\ at = (IF Smart => h.op \in pendMap THEN "put" ELSE "log")
    BY Zenon
  <2>3. /\ enqPool # <<>> /\ enqPool' = Tail(enqPool) /\ storing' = storing \union {s}
        /\ UNCHANGED <<entering, leaving, broker, disk, mode>>
    BY <2>2, Zenon DEF TakeStore
  <2>4. mode' # "recover" /\ s.op = h.op
    <3>1. mode = "up"
      BY <2>1, <2>3, Zenon DEF Phases
    <3> QED
      BY <2>2, <2>3, <3>1
  <2>5. h \in Scheduled /\ Scheduled' \subseteq Scheduled
    BY <2>1, <2>2, <2>3, ScheduledTakes, Zenon
  <2>6. \A t \in Waiting' : \E u \in Waiting : t.op = u.op
    <3>1. Waiting' \subseteq Waiting \union {s} /\ h \in Waiting
      BY <2>3, <2>5, Zenon DEF Waiting
    <3> QED
      BY <2>4, <3>1, Zenon
  <2> QED
    BY <2>3, <2>4, <2>6, <1>OnceFrame, Zenon DEF broker, disk

<1>StoreEndOnce.
    ASSUME NEW t \in storing, StoreLog(t) \/ StoreAdd(t)
    PROVE  OnceInv'
  <2> USE <1>StoreEndOnce
  <2>1. TypeOK /\ mode = "up"
    BY Zenon DEF StoreInv, Phases, Working
  <2>2. PICK s : s = [t EXCEPT !.at = "add"]
    BY Zenon
  <2>3. s.at # "put"
    BY <2>1, <2>2 DEF TypeOK
  <2>4. /\ storing' \subseteq storing \union {s} /\ UNCHANGED <<entering, leaving, enqPool, broker, db, mode>>
    <3>1. CASE StoreLog(t)
      BY <2>2, <3>1, Zenon DEF StoreLog, StoreGoto
    <3>2. CASE StoreAdd(t)
      BY <3>2, Zenon DEF StoreAdd, disk
    <3> QED
      BY <3>1, <3>2, Zenon
  <2>5. mode' # "recover"
    BY <2>1, <2>4
  <2>6. Waiting' \subseteq Waiting
    BY <2>3, <2>4, Zenon DEF Waiting, Scheduled
  <2> QED
    BY <2>4, <2>5, <2>6, <1>OnceFrame, Zenon DEF broker

\* A message is inserted: no other task is about it, and no dequeue has called its enqueue off.
<1>PutOnce.
    ASSUME NEW t \in storing, Put(t)
    PROVE  OnceInv'
  <2> USE <1>PutOnce
  <2>1. TypeOK /\ Phases /\ Unique /\ CalledOff /\ OnceOnQueue /\ NotYet /\ TakenOff
    BY Zenon DEF StoreInv, TaskInv, OnceInv
  <2>2. PICK s, g : s = [t EXCEPT !.at = "log"] /\ g = [op |-> t.op, msg |-> t.msg]
    BY Zenon
  <2>3. /\ t.at = "put" /\ db' \subseteq db \union {g} /\ storing' = (storing \ {t}) \union {s}
        /\ UNCHANGED <<entering, leaving, enqPool, broker, mode>>
    BY <2>2, Zenon DEF Put, StoreGoto
  <2>4. g.op = t.op /\ s.at # "put" /\ mode' # "recover"
    <3>1. mode = "up"
      BY <2>1, Zenon DEF Phases, Working
    <3> QED
      BY <2>1, <2>2, <2>3, <3>1 DEF TypeOK
  <2>5. Waiting' \subseteq Waiting \ {t}
    <3>1. \A x \in Scheduled \union entering : x # t
      BY <2>1, Zenon DEF Unique
    <3> QED
      BY <2>3, <2>4, <3>1, Zenon DEF Waiting, Scheduled
  <2>6. \A x \in Waiting \ {t} : x.op # t.op
    BY <2>1, Zenon DEF Waiting, Unique
  <2>7. NotYet'
    <3>1. ASSUME NEW x \in Waiting', NEW r \in db' PROVE r.op # x.op
      <4>1. CASE r \in db
        BY <2>1, <2>5, <4>1, Zenon DEF NotYet
      <4>2. CASE r = g
        BY <2>4, <2>5, <2>6, <4>2, Zenon
      <4> QED
        BY <2>3, <4>1, <4>2, Zenon
    <3> QED
      BY <3>1, Zenon DEF NotYet
  <2>8. \A d \in leaving : d.exec \/ d.op # t.op
    <3>1. t \in ToPut
      BY <2>3, Zenon DEF ToPut, Inserting
    <3> QED
      BY <2>1, <3>1, Zenon DEF CalledOff
  <2>9. TakenOff'
    <3>1. ASSUME NEW d \in leaving' PROVE onQueue'[Pair(d)] = 0 /\ (d.exec \/ \A r \in db' : r.op # d.op)
      <4>1. onQueue'[Pair(d)] = 0 /\ (d.exec \/ \A r \in db : r.op # d.op) /\ (d.exec \/ g.op # d.op)
        BY <2>1, <2>3, <2>4, <2>8, Zenon DEF TakenOff, broker
      <4> QED
        BY <2>3, <4>1, Zenon
    <3> QED
      BY <3>1, Zenon DEF TakenOff
  <2>10. OnceOnQueue'
    BY <2>1, <2>3, Zenon DEF OnceOnQueue, broker
  <2> QED
    BY <2>4, <2>7, <2>9, <2>10, Zenon DEF OnceInv, Missing

\* A message is deleted, or its deletion logged.
<1>RemoveOnce.
    ASSUME NEW d \in deleting, RemoveMsg(d) \/ RemoveLog(d)
    PROVE  OnceInv'
  <2> USE <1>RemoveOnce
  <2>1. mode = "up" \/ deleting = {}
    BY Zenon DEF StoreInv, Phases
  <2>2. db' \subseteq db /\ UNCHANGED <<entering, leaving, enqPool, storing, broker, mode>>
    BY Zenon DEF RemoveMsg, RemoveLog
  <2>3. mode' # "recover"
    BY <2>1, <2>2
  <2>4. Waiting' = Waiting
    BY <2>2, Zenon DEF Waiting, Scheduled
  <2> QED
    BY <2>2, <2>3, <2>4, <1>OnceFrame, Zenon DEF broker

\* While the process is down there are no calls and tasks.
<1>DownOnce.
    ASSUME Working' = {}, leaving' = {}, OnceOnQueue', Missing'
    PROVE  OnceInv'
  <2> USE <1>DownOnce
  <2>1. Waiting' = {}
    BY Zenon DEF Waiting, Working
  <2> QED
    BY <2>1, Zenon DEF OnceInv, NotYet, TakenOff

\* A step of recovery other than decodeAndRecoverMsg.
<1>RecoveryOnce.
    ASSUME mode # "up", UNCHANGED <<tasks, broker>>, Missing'
    PROVE  OnceInv'
  <2> USE <1>RecoveryOnce
  <2>1. Working = {} /\ leaving = {} /\ OnceOnQueue
    BY Zenon DEF StoreInv, OnceInv, Phases
  <2>2. Working' = {} /\ leaving' = {} /\ OnceOnQueue'
    BY <2>1, Zenon DEF Working, Scheduled, tasks, broker, OnceOnQueue
  <2> QED
    BY <2>2, <1>DownOnce, Zenon

<1>CrashOnce.
    ASSUME Crash
    PROVE  OnceInv'
  <2> USE <1>CrashOnce
  <2>1. /\ mode' = "read" /\ entering' = {} /\ leaving' = {} /\ enqPool' = <<>> /\ storing' = {}
        /\ onQueue' = [w \in Pairs |-> 0]
    BY Zenon DEF Crash
  <2>2. mode' # "recover" /\ DOMAIN enqPool' = {} /\ 0 <= 1
    BY <2>1
  <2>3. Working' = {}
    BY <2>1, <2>2, Zenon DEF Working, Scheduled
  <2>4. OnceOnQueue'
    BY <2>1, <2>2, Zenon DEF OnceOnQueue
  <2> QED
    BY <2>1, <2>2, <2>3, <2>4, <1>DownOnce, Zenon DEF Missing

<1>ReadLogsOnce.
    ASSUME ReadLogs
    PROVE  OnceInv'
  <2> USE <1>ReadLogsOnce
  <2>1. /\ mode = "read" /\ todo' = Queues /\ aeset' = enqLog /\ UNCHANGED <<tasks, broker>>
    BY Zenon DEF ReadLogs
  <2>2. mode # "up"
    BY <2>1
  <2>3. \A r \in enqLog : r.op[2] \in Queues
    BY RecsTyped, Zenon DEF StoreInv, Recs
  <2> QED
    BY <2>1, <2>2, <2>3, <1>RecoveryOnce, Zenon DEF Missing

\* decodeAndRecoverMsg adds what it has not found in the database, so to each message one copy.
<1>RecoverQueueOnce.
    ASSUME NEW q \in Queues, RecoverQueue(q), LookedUp(q)
    PROVE  OnceInv'
  <2> USE <1>RecoverQueueOnce
  <2>1. TypeOK /\ Named /\ Phases /\ Reread /\ OnceOnQueue /\ Missing
    BY Zenon DEF StoreInv, TaskInv, OnceInv
  <2>2. /\ mode = "recover" /\ mode' = "recover" /\ q \in todo /\ todo' = todo \ {q}
        /\ aeset' = aeset \ (Useless \union Transients \union AlreadyEnqueued(q))
        /\ \A w \in Pairs : onQueue'[w] = onQueue[w] + PutBack(q, w)
        /\ UNCHANGED <<tasks, db>>
    BY RecoverQueueIs, Zenon
  <2>3. Working' = {} /\ leaving' = {}
    <3>1. mode # "up"
      BY <2>2
    <3>2. Working = {} /\ leaving = {}
      BY <2>1, <3>1, Zenon DEF Phases
    <3> QED
      BY <2>2, <3>2, Zenon DEF Working, Scheduled, tasks
  <2>4. OnceOnQueue'
    <3>1. ASSUME NEW w \in Pairs PROVE onQueue'[w] <= 1
      <4>1. onQueue[w] \in Nat /\ onQueue[w] <= 1 /\ onQueue'[w] = onQueue[w] + PutBack(q, w)
        BY <2>1, <2>2, Zenon DEF TypeOK, OnceOnQueue
      <4>2. PutBack(q, w) \in 0..2 /\ PutBack(q, w) # 2
        <5>1. ASSUME NEW r \in FromDb(q) \ Accepted(q), NEW e \in FromLog(q), Pair(r) = w, Pair(e) = w PROVE FALSE
          <6>1. r \in db /\ e \in aeset
            BY FoundIn, Zenon
          <6>2. r = e
            BY <2>1, <5>1, <6>1, SameRecord, Zenon
          <6> QED
            BY <6>1, <6>2, Zenon DEF LookedUp
        <5>2. /\ PutBack(q, w) \in 0..2
              /\ PutBack(q, w) = 2 => (\E r \in FromDb(q) \ Accepted(q) : Pair(r) = w) /\ (\E e \in FromLog(q) : Pair(e) = w)
          BY <2>1, CopiesAre, Zenon
        <5> QED
          BY <5>1, <5>2, Zenon
      <4>3. CASE w[2] = q
        <5>1. onQueue[w] = 0
          BY <2>1, <2>2, <4>3, Zenon DEF Reread
        <5> QED
          BY <4>1, <4>2, <5>1
      <4>4. CASE w[2] # q
        <5>1. ASSUME NEW r \in Restoring(q), Pair(r) = w PROVE FALSE
          <6>1. r.op[2] = q
            BY FoundIn, Zenon DEF Restoring
          <6>2. w[2] = r.op[2]
            BY <5>1 DEF Pair
          <6> QED
            BY <4>4, <6>1, <6>2, Zenon
        <5>2. ~(PutBack(q, w) > 0)
          BY <2>1, <5>1, CopiesAre, Zenon
        <5> QED
          BY <4>1, <4>2, <5>2
      <4> QED
        BY <4>3, <4>4, Zenon
    <3> QED
      BY <3>1, Zenon DEF OnceOnQueue
  <2>5. Missing'
    <3>1. ASSUME NEW e \in aeset', e.op[2] \notin todo', NEW r \in db' PROVE r.op # e.op
      <4>1. e \in aeset /\ e \notin Useless /\ e \notin Transients /\ e \notin AlreadyEnqueued(q) /\ r \in db
        BY <2>2, Zenon
      <4>2. CASE e.op[2] \notin todo
        BY <2>1, <2>2, <4>1, <4>2, Zenon DEF Missing
      <4>3. CASE e.op[2] = q
        <5>1. e \in FromLog(q)
          BY <4>1, <4>3, Zenon DEF FromLog, On, Persistent, Transients
        <5> QED
          BY <4>1, <5>1, Zenon DEF LookedUp
      <4> QED
        BY <2>2, <3>1, <4>2, <4>3, Zenon
    <3> QED
      BY <3>1, Zenon DEF Missing
  <2> QED
    BY <2>3, <2>4, <2>5, <1>DownOnce, Zenon

<1>LogMassOnce.
    ASSUME LogMass
    PROVE  OnceInv'
  <2> USE <1>LogMassOnce
  <2>1. mode = "recover" /\ UNCHANGED <<tasks, broker, db, todo, aeset>>
    BY LogMassIs, Zenon
  <2>2. mode # "up"
    BY <2>1
  <2>3. Missing'
    BY <2>1, Zenon DEF OnceInv, Missing
  <2> QED
    BY <2>1, <2>2, <2>3, <1>RecoveryOnce, Zenon

<1>DiscardOnce.
    ASSUME NEW op \in discard, Discard(op)
    PROVE  OnceInv'
  <2> USE <1>DiscardOnce
  <2>1. mode = "recover" /\ db' \subseteq db /\ UNCHANGED <<tasks, broker, todo, aeset>>
    BY Zenon DEF Discard, Discarding, Without
  <2>2. mode # "up"
    BY <2>1
  <2>3. Missing'
    BY <2>1, Zenon DEF OnceInv, Missing
  <2> QED
    BY <2>1, <2>2, <2>3, <1>RecoveryOnce, Zenon

\* The pending enqueues become tasks: none is of a message in the database.
<1>ResurrectOnce.
    ASSUME Resurrect
    PROVE  OnceInv'
  <2> USE <1>ResurrectOnce
  <2>1. /\ mode = "recover" /\ todo = {} /\ mode' = "up" /\ entering' = {} /\ leaving' = {} /\ storing' = {}
        /\ Scheduled' = aeset /\ UNCHANGED <<broker, db>>
    BY ResurrectIs, Zenon
  <2>2. mode' # "recover"
    BY <2>1
  <2>3. Waiting' = aeset
    BY <2>1, Zenon DEF Waiting
  <2>4. NotYet'
    BY <2>1, <2>3, Zenon DEF OnceInv, Missing, NotYet
  <2>5. OnceOnQueue'
    BY <2>1, Zenon DEF OnceInv, OnceOnQueue, broker
  <2> QED
    BY <2>1, <2>2, <2>4, <2>5, Zenon DEF OnceInv, TakenOff, Missing

<1>StutterOnce.
    ASSUME UNCHANGED vars
    PROVE  OnceInv'
  <2> USE <1>StutterOnce
  <2>1. UNCHANGED <<tasks, broker, disk, mode, recovery>>
    BY Zenon DEF vars
  <2>2. Waiting' = Waiting
    BY <2>1, Zenon DEF Waiting, Scheduled, tasks
  <2>3. NotYet' /\ TakenOff'
    BY <2>1, <2>2, Zenon DEF OnceInv, NotYet, TakenOff, tasks, broker, disk
  <2>4. OnceOnQueue' /\ Missing'
    BY <2>1, Zenon DEF OnceInv, OnceOnQueue, Missing, broker, disk, recovery
  <2> QED
    BY <2>3, <2>4, Zenon DEF OnceInv

<1>1. CASE Broker
  BY <1>1, <1>EnqueueBeginOnce, <1>DequeueBeginOnce, Zenon DEF Broker, EnqueueNew, EnqueueAgain
<1>2. CASE Progress
  BY <1>2, <1>EnqueueLogOnce, <1>EnqueueScheduleOnce, <1>DequeueEndOnce, <1>TakeStoreOnce, <1>PutOnce, <1>StoreEndOnce,
     <1>RemoveOnce, Zenon DEF Progress
<1>3. CASE Recover
  BY <1>3, <1>ReadLogsOnce, <1>LogMassOnce, <1>ResurrectOnce, <1>RecoverQueueOnce, <1>DiscardOnce, Zenon DEF Recover
<1>4. CASE Crash
  BY <1>4, <1>CrashOnce, Zenon
<1>5. CASE UNCHANGED vars
  BY <1>5, <1>StutterOnce, Zenon
<1> QED
  BY <1>1, <1>2, <1>3, <1>4, <1>5, Zenon DEF Next

\* An entry that is added to its queue although the message is in the database makes it two.
LEMMA OnceLookedUp ==
    ASSUME StoreInv, OnceOnQueue', NEW q \in Queues, RecoverQueue(q)
    PROVE  LookedUp(q)
<1>1. TypeOK /\ Named
  BY Zenon DEF StoreInv
<1>2. ASSUME NEW e \in FromLog(q), NEW r \in db, r.op = e.op PROVE FALSE
  <2>1. e \in aeset /\ e \notin Useless /\ e.op[2] = q /\ e.msg \notin TransientMsgs
    BY Zenon DEF FromLog, On, Persistent
  <2>2. Pair(r) = Pair(e)
    BY <1>1, <1>2, <2>1, SameOp, Zenon DEF Recs
  <2>3. r = e
    BY <1>1, <2>1, <2>2, SameRecord, Zenon
  <2>4. e.op \notin adset
    BY <2>1, Zenon DEF Useless
  <2>5. r \in FromDb(q) \ Accepted(q)
    BY <2>1, <2>3, <2>4, Zenon DEF FromDb, Accepted, On, Persistent
  <2>6. Pair(e) \in Pairs
    BY <1>1, <2>1, RecsTyped, Zenon DEF Recs
  <2>7. PutBack(q, Pair(e)) = 2
    BY <1>1, <2>2, <2>5, <2>6, CopiesAre, Zenon
  <2>8. onQueue'[Pair(e)] = onQueue[Pair(e)] + PutBack(q, Pair(e)) /\ onQueue'[Pair(e)] <= 1
    BY <2>6, RecoverQueueIs, Zenon DEF OnceOnQueue
  <2>9. onQueue[Pair(e)] \in Nat
    BY <1>1, <2>6, Zenon DEF TypeOK
  <2> QED
    BY <2>7, <2>8, <2>9
<1> QED
  BY <1>2, Zenon DEF LookedUp

\* A subset has no more elements.
LEMMA Fewer ==
    ASSUME NEW B, IsFiniteSet(B), NEW A, A \subseteq B, NEW n \in Nat, Cardinality(B) < n
    PROVE  Cardinality(A) < n
<1>1. PICK a, b : a = Cardinality(A) /\ b = Cardinality(B)
  BY Zenon
<1>2. IsFiniteSet(A) /\ a <= b
  BY <1>1, FS_Subset, Zenon
<1>3. a \in Nat /\ b \in Nat
  BY <1>1, <1>2, FS_CardinalityType, Zenon
<1>4. a < n
  BY <1>1, <1>2, <1>3
<1> QED
  BY <1>1, <1>4, Zenon

\* The entries behind a task, and what is late of them, are finitely many.
LEMMA LateFinite ==
    ASSUME TypeOK
    PROVE  /\ \A i : Behind(i) \in SUBSET Tasks
           /\ \A r, i : IsFiniteSet(Late(r, Behind(i)))
           /\ \A r : IsFiniteSet(Late(r, enqLog))
<1>1. \A x \in entering : Entry(x) \in Tasks
  BY RecsTyped, Zenon DEF Recs, Working, Entry, Tasks
<1>2. \A i \in DOMAIN enqPool : enqPool[i] \in Tasks
  <2>1. enqPool \in Seq(Tasks)
    BY Zenon DEF TypeOK
  <2> QED
    BY <2>1
<1>3. \A i : Behind(i) \in SUBSET Tasks
  BY <1>1, <1>2, Zenon DEF Behind, Entries
<1>4. \A r, i : Late(r, Behind(i)) \in SUBSET Tasks /\ Late(r, enqLog) \in SUBSET Tasks
  BY <1>3, Zenon DEF Late, TypeOK
<1> QED
  BY <1>3, <1>4, RecordsFinite, Zenon

\* A finite set with one more element.
LEMMA OneMore ==
    ASSUME NEW X, IsFiniteSet(X), NEW y
    PROVE  /\ IsFiniteSet(X \union {y})
           /\ \/ Cardinality(X \union {y}) = Cardinality(X)
              \/ Cardinality(X \union {y}) = Cardinality(X) + 1
<1>1. CASE y \in X
  <2>1. X \union {y} = X
    BY <1>1, Zenon
  <2> QED
    BY <2>1, Zenon
<1>2. CASE y \notin X
  BY <1>2, FS_AddElement, Zenon
<1> QED
  BY <1>1, <1>2, Zenon

\* One element of a finite set replaced, one added, one taken away.
LEMMA ReplacedOne ==
    ASSUME NEW X, IsFiniteSet(X), NEW x \in X, NEW y, NEW n \in Nat, Cardinality(X) <= n
    PROVE  /\ IsFiniteSet((X \ {x}) \union {y}) /\ Cardinality((X \ {x}) \union {y}) <= n
           /\ IsFiniteSet(X \ {x}) /\ Cardinality(X \ {x}) < n
<1>1. PICK a, b, c, Z : a = Cardinality(X) /\ b = Cardinality(X \ {x}) /\ Z = X \ {x} /\ c = Cardinality(Z \union {y})
  BY Zenon
<1>2. IsFiniteSet(Z) /\ b = a - 1 /\ b = Cardinality(Z)
  BY <1>1, FS_RemoveElement, Zenon
<1>3. IsFiniteSet(Z \union {y}) /\ (c = b \/ c = b + 1)
  BY <1>1, <1>2, OneMore, Zenon
<1>4. a \in Nat /\ b \in Nat /\ c \in Nat
  BY <1>1, <1>2, <1>3, FS_CardinalityType, Zenon
<1>5. c <= n /\ b < n
  BY <1>1, <1>2, <1>3, <1>4
<1> QED
  BY <1>1, <1>2, <1>3, <1>5, Zenon

\* A set below a bound stays within it when it gets one more member.
LEMMA AddedOne ==
    ASSUME NEW X, IsFiniteSet(X), NEW y, NEW n \in Nat, Cardinality(X) < n
    PROVE  IsFiniteSet(X \union {y}) /\ Cardinality(X \union {y}) <= n
<1>1. PICK a, c : a = Cardinality(X) /\ c = Cardinality(X \union {y})
  BY Zenon
<1>2. IsFiniteSet(X \union {y}) /\ (c = a \/ c = a + 1)
  BY <1>1, OneMore, Zenon
<1>3. a \in Nat
  BY <1>1, FS_CardinalityType, Zenon
<1>4. c <= n
  BY <1>1, <1>2, <1>3
<1> QED
  BY <1>1, <1>2, <1>4, Zenon

\* CountInv holds at first.
LEMMA InitCount ==
    ASSUME Init
    PROVE  CountInv
<1>1. entering = {} /\ enqPool = <<>> /\ storing = {} /\ mode = "up"
  BY Zenon DEF Init
<1>2. DOMAIN enqPool = {}
  BY <1>1
<1>3. IsFiniteSet({}) /\ Cardinality({}) = 0
  BY FS_EmptySet, Zenon
<1>4. 0 <= Threads /\ 0 <= Workers
  BY Assumptions
<1> QED
  BY <1>1, <1>2, <1>3, <1>4, Zenon DEF CountInv, Counted, Overtakers, FewLate

\* What every step keeps of the counts.
LEMMA CountStep ==
    ASSUME LookupSuffices, StoreInv, TaskInv, OnceInv, CountInv, [Next]_vars
    PROVE  CountInv'
\* A finite set has as many entries at most.
<1>EntriesBound.
    ASSUME NEW X, IsFiniteSet(X)
    PROVE  IsFiniteSet(Entries(X)) /\ Cardinality(Entries(X)) <= Cardinality(X)
  <2> USE <1>EntriesBound
  <2>1. PICK f : f = [x \in X |-> Entry(x)]
    BY Zenon
  <2>2. f \in [X -> Entries(X)]
    BY <2>1, Zenon DEF Entries
  <2>3. \A e \in Entries(X) : \E x \in X : f[x] = e
    BY <2>1, Zenon DEF Entries
  <2>4. f \in Surjection(X, Entries(X))
    BY <2>2, <2>3, Zenon DEF Surjection
  <2> QED
    BY <2>4, FS_Surjection, Zenon

\* What is late for an operation depends on the operation only, and grows with the set.
<1>LateIn.
    ASSUME NEW r, NEW s, r.op = s.op, NEW A, NEW B, A \subseteq B
    PROVE  Late(r, A) \subseteq Late(s, B)
  BY <1>LateIn, Zenon DEF Late

\* A step that leaves the pool and schedules nothing.
<1>OvertakersFrame.
    ASSUME TypeOK, Overtakers, enqPool' = enqPool, Entries(entering') \subseteq Entries(entering),
           \A t \in storing' : \E u \in storing : t.op = u.op
    PROVE  Overtakers'
  <2> USE <1>OvertakersFrame
  <2>1. \A i : Behind(i)' \subseteq Behind(i)
    BY Zenon DEF Behind, Entries
  <2>2. Threads \in Nat
    BY Assumptions, Zenon
  <2>3. ASSUME NEW i \in DOMAIN enqPool PROVE Cardinality(Late(enqPool[i], Behind(i)')) < Threads
    <3>1. Late(enqPool[i], Behind(i)') \subseteq Late(enqPool[i], Behind(i))
      BY <2>1, <1>LateIn, Zenon
    <3>2. Cardinality(Late(enqPool[i], Behind(i))) < Threads /\ IsFiniteSet(Late(enqPool[i], Behind(i)))
      BY LateFinite, Zenon DEF Overtakers
    <3> QED
      BY <2>2, <3>1, <3>2, Fewer, Zenon
  <2>4. ASSUME NEW t \in storing' PROVE Cardinality(Late(t, Behind(0)')) < Threads
    <3>1. PICK u \in storing : t.op = u.op
      BY Zenon
    <3>2. Late(t, Behind(0)') \subseteq Late(u, Behind(0))
      BY <2>1, <3>1, <1>LateIn, Zenon
    <3>3. Cardinality(Late(u, Behind(0))) < Threads /\ IsFiniteSet(Late(u, Behind(0)))
      BY LateFinite, Zenon DEF Overtakers
    <3> QED
      BY <2>2, <3>2, <3>3, Fewer, Zenon
  <2> QED
    BY <2>3, <2>4, Zenon DEF Overtakers, Late

\* A message that is new gets an id greater than every other.
<1>EnqueueNewCount.
    ASSUME NEW m \in Msgs, NEW q \in Queues, EnqueueNew(m, q)
    PROVE  CountInv'
  <2> USE <1>EnqueueNewCount
  <2>1. TypeOK /\ Named /\ Counted /\ Overtakers /\ Threads \in Nat
    BY Assumptions, Zenon DEF StoreInv, CountInv
  <2>2. PICK e : e = [op |-> <<nextId, q>>, msg |-> m, at |-> "log"]
    BY Zenon
  <2>3. /\ mode = "up" /\ mode' = "up" /\ Cardinality(entering) < Threads
        /\ entering' = entering \union {e} /\ UNCHANGED <<enqPool, storing>>
    BY <2>2, Zenon DEF EnqueueNew, EnqueueBegin
  <2>4. Counted'
    BY <2>1, <2>3, AddedOne, Zenon DEF Counted
  <2>5. \A i : Behind(i)' \subseteq Behind(i) \union {Entry(e)}
    BY <2>3, Zenon DEF Behind, Entries
  <2>6. Entry(e).op[1] = nextId /\ nextId \in Nat
    BY <2>1, <2>2, Assumptions DEF Entry, TypeOK
  <2>7. ASSUME NEW r \in Recs, NEW i PROVE Late(r, Behind(i)') \subseteq Late(r, Behind(i))
    <3>1. <<r.op[1], r.msg>> \in Claims /\ r.op[1] \in Msgs
      BY <2>1, RecsTyped, Zenon DEF Claims
    <3>2. <<r.op[1], r.msg>>[1] < nextId
      BY <2>1, <2>3, <3>1, Zenon DEF Named
    <3>3. ~(nextId < r.op[1])
      BY <2>6, <3>1, <3>2 DEF Msgs
    <3> QED
      BY <2>5, <2>6, <3>3, Zenon DEF Late
  <2>8. ASSUME NEW r \in Recs, NEW i, Cardinality(Late(r, Behind(i))) < Threads
        PROVE  Cardinality(Late(r, Behind(i)')) < Threads
    BY <2>1, <2>7, <2>8, LateFinite, Fewer, Zenon
  <2>9. Overtakers'
    <3>1. ASSUME NEW i \in DOMAIN enqPool PROVE Cardinality(Late(enqPool[i], Behind(i)')) < Threads
      <4>1. enqPool[i] \in Recs
        BY Zenon DEF Recs, Working, Scheduled
      <4> QED
        BY <2>1, <2>8, <4>1, Zenon DEF Overtakers
    <3>2. ASSUME NEW t \in storing PROVE Cardinality(Late(t, Behind(0)')) < Threads
      <4>1. t \in Recs
        BY Zenon DEF Recs, Working
      <4> QED
        BY <2>1, <2>8, <4>1, Zenon DEF Overtakers
    <3> QED
      BY <2>3, <3>1, <3>2, Zenon DEF Overtakers, Late
  <2> QED
    BY <2>3, <2>4, <2>9, Zenon DEF CountInv, FewLate

\* The start is logged.
<1>EnqueueLogCount.
    ASSUME NEW e \in entering, EnqueueLog(e)
    PROVE  CountInv'
  <2> USE <1>EnqueueLogCount
  <2>1. TypeOK /\ Counted /\ Overtakers /\ Threads \in Nat /\ mode = "up"
    BY Assumptions, Zenon DEF StoreInv, CountInv, Phases, Working
  <2>2. PICK f : f = [e EXCEPT !.at = "schedule"]
    BY Zenon
  <2>3. /\ entering' = (entering \ {e}) \union {f} /\ UNCHANGED <<enqPool, storing, mode>>
    BY <2>2, Zenon DEF EnqueueLog
  <2>4. Entry(f) = Entry(e)
    <3>1. f.op = e.op /\ f.msg = e.msg
      BY <2>1, <2>2 DEF TypeOK
    <3> QED
      BY <3>1, Zenon DEF Entry
  <2>5. Counted'
    BY <2>1, <2>3, ReplacedOne, Zenon DEF Counted
  <2>6. Entries(entering') \subseteq Entries(entering)
    BY <2>3, <2>4, Zenon DEF Entries
  <2>7. Overtakers'
    BY <2>1, <2>3, <2>6, <1>OvertakersFrame, Zenon
  <2> QED
    BY <2>1, <2>3, <2>5, <2>7, Zenon DEF CountInv, FewLate

\* The task is scheduled: what can still come behind it is in enqueue.
<1>EnqueueScheduleCount.
    ASSUME NEW e \in entering, EnqueueSchedule(e)
    PROVE  CountInv'
  <2> USE <1>EnqueueScheduleCount
  <2>1. TypeOK /\ Counted /\ Overtakers /\ Threads \in Nat /\ mode = "up"
    BY Assumptions, Zenon DEF StoreInv, CountInv, Phases, Working
  <2>2. PICK t, n : t = Entry(e) /\ n = Len(enqPool)
    BY Zenon
  <2>3. /\ entering' = entering \ {e} /\ enqPool' = Append(enqPool, t) /\ UNCHANGED <<storing, mode>>
    BY <2>2, Zenon DEF EnqueueSchedule, Entry
  <2>4. /\ IsFiniteSet(entering \ {e}) /\ Cardinality(entering \ {e}) < Threads
        /\ Cardinality(entering \ {e}) <= Threads
    <3>1. IsFiniteSet(entering \ {e}) /\ Cardinality(entering \ {e}) < Threads
      BY <2>1, ReplacedOne, Zenon DEF Counted
    <3>2. Cardinality(entering \ {e}) \in Nat
      BY <3>1, FS_CardinalityType, Zenon
    <3> QED
      BY <2>1, <3>1, <3>2
  <2>5. Counted'
    BY <2>1, <2>3, <2>4, Zenon DEF Counted
  <2>6. /\ DOMAIN enqPool = 1..n /\ DOMAIN enqPool' = 1..(n + 1) /\ enqPool'[n + 1] = t
        /\ n \in Nat /\ \A i \in 1..n : enqPool'[i] = enqPool[i]
    <3>1. enqPool \in Seq(Tasks)
      BY <2>1, Zenon DEF TypeOK
    <3> QED
      BY <2>2, <2>3, <3>1
  <2>7. \A j \in DOMAIN enqPool' : j = n + 1 \/ j \in DOMAIN enqPool
    BY <2>6
  <2>8. t \in Entries(entering) /\ Entries(entering') \subseteq Entries(entering)
    BY <2>2, <2>3, Zenon DEF Entries
  <2>9. \A i : Behind(i)' \subseteq Behind(i)
    <3>1. ASSUME NEW i, NEW j \in DOMAIN enqPool', j > i PROVE enqPool'[j] \in Behind(i)
      BY <2>6, <2>7, <2>8, <3>1, Zenon DEF Behind
    <3>2. ASSUME NEW i, NEW x \in Behind(i)' PROVE x \in Behind(i)
      <4>1. x \in Entries(entering') \/ \E j \in DOMAIN enqPool' : j > i /\ x = enqPool'[j]
        BY <3>2, Zenon DEF Behind
      <4>2. CASE x \in Entries(entering')
        BY <2>8, <4>2, Zenon DEF Behind
      <4>3. CASE \E j \in DOMAIN enqPool' : j > i /\ x = enqPool'[j]
        BY <3>1, <4>3, Zenon
      <4> QED
        BY <4>1, <4>2, <4>3, Zenon
    <3> QED
      BY <3>2, Zenon
  <2>10. Behind(n + 1)' \subseteq Entries(entering \ {e})
    <3>1. ASSUME NEW j \in DOMAIN enqPool', j > n + 1 PROVE FALSE
      BY <2>6, <3>1
    <3> QED
      BY <2>3, <3>1, Zenon DEF Behind
  <2>11. ASSUME NEW i \in DOMAIN enqPool' PROVE Cardinality(Late(enqPool'[i], Behind(i)')) < Threads
    <3>1. CASE i = n + 1
      <4>1. IsFiniteSet(Entries(entering \ {e})) /\ Cardinality(Entries(entering \ {e})) < Threads
        <5>1. PICK a, b : a = Cardinality(Entries(entering \ {e})) /\ b = Cardinality(entering \ {e})
          BY Zenon
        <5>2. IsFiniteSet(Entries(entering \ {e})) /\ a <= b /\ b < Threads
          BY <2>4, <5>1, <1>EntriesBound, Zenon
        <5>3. a \in Nat /\ b \in Nat
          BY <2>4, <5>1, <5>2, FS_CardinalityType, Zenon
        <5>4. a < Threads
          BY <2>1, <5>2, <5>3
        <5> QED
          BY <5>1, <5>2, <5>4, Zenon
      <4>2. Late(enqPool'[i], Behind(i)') \subseteq Entries(entering \ {e})
        BY <2>10, <3>1, Zenon DEF Late
      <4> QED
        BY <2>1, <4>1, <4>2, Fewer, Zenon
    <3>2. CASE i \in DOMAIN enqPool
      <4>1. enqPool'[i] = enqPool[i]
        BY <2>6, <3>2, Zenon
      <4>2. Late(enqPool'[i], Behind(i)') \subseteq Late(enqPool[i], Behind(i))
        BY <2>9, <4>1, <1>LateIn, Zenon
      <4>3. Cardinality(Late(enqPool[i], Behind(i))) < Threads /\ IsFiniteSet(Late(enqPool[i], Behind(i)))
        BY <2>1, <3>2, LateFinite, Zenon DEF Overtakers
      <4> QED
        BY <2>1, <4>2, <4>3, Fewer, Zenon
    <3> QED
      BY <2>7, <3>1, <3>2, Zenon
  <2>12. ASSUME NEW u \in storing PROVE Cardinality(Late(u, Behind(0)')) < Threads
    <3>1. Late(u, Behind(0)') \subseteq Late(u, Behind(0))
      BY <2>9, <1>LateIn, Zenon
    <3>2. Cardinality(Late(u, Behind(0))) < Threads /\ IsFiniteSet(Late(u, Behind(0)))
      BY <2>1, LateFinite, Zenon DEF Overtakers
    <3> QED
      BY <2>1, <3>1, <3>2, Fewer, Zenon
  <2>13. Overtakers'
    BY <2>3, <2>11, <2>12, Zenon DEF Overtakers, Late
  <2> QED
    BY <2>1, <2>3, <2>5, <2>13, Zenon DEF CountInv, FewLate

\* A worker takes the first task: what is late for it is behind it.
<1>TakeStoreCount.
    ASSUME TakeStore
    PROVE  CountInv'
  <2> USE <1>TakeStoreCount
  <2>1. TypeOK /\ Phases /\ Counted /\ Overtakers /\ Threads \in Nat /\ Workers \in Nat
    BY Assumptions, Zenon DEF StoreInv, CountInv
  <2>2. PICK h, at, s : h = Head(enqPool) /\ s = [op |-> h.op, msg |-> h.msg, at |-> at]
                        /\ at = (IF Smart => h.op \in pendMap THEN "put" ELSE "log")
    BY Zenon
  <2>3. /\ enqPool # <<>> /\ enqPool' = Tail(enqPool) /\ storing' = storing \union {s}
        /\ Cardinality(storing) < Workers /\ UNCHANGED <<entering, mode>>
    BY <2>2, Zenon DEF TakeStore
  <2>4. mode = "up" /\ s.op = h.op
    <3>1. mode = "up"
      BY <2>1, <2>3, Zenon DEF Phases
    <3> QED
      BY <2>2, <3>1
  <2>5. Counted'
    BY <2>1, <2>3, AddedOne, Zenon DEF Counted
  <2>6. /\ 1 \in DOMAIN enqPool /\ h = enqPool[1]
        /\ \A i \in DOMAIN enqPool' : i \in Int /\ i > 0 /\ i + 1 \in DOMAIN enqPool /\ enqPool'[i] = enqPool[i + 1]
    <3>1. enqPool \in Seq(Tasks)
      BY <2>1, Zenon DEF TypeOK
    <3>2. 1 \in DOMAIN enqPool /\ h = enqPool[1] /\ Len(enqPool) \in Nat \ {0}
      BY <2>2, <2>3, <3>1
    <3>3. /\ \A i \in 1..(Len(enqPool) - 1) : enqPool'[i] = enqPool[i + 1]
          /\ DOMAIN enqPool = 1..Len(enqPool) /\ DOMAIN enqPool' = 1..(Len(enqPool) - 1)
      BY <2>3, <3>1, <3>2
    <3> QED
      BY <3>2, <3>3
  <2>7. ASSUME NEW i \in Int PROVE Behind(i)' \subseteq Behind(i + 1)
    <3>1. ASSUME NEW j \in DOMAIN enqPool', j > i PROVE enqPool'[j] \in Behind(i + 1)
      <4>1. j \in Int /\ j + 1 \in DOMAIN enqPool /\ enqPool'[j] = enqPool[j + 1]
        BY <2>6, Zenon
      <4>2. j + 1 > i + 1
        BY <3>1, <4>1
      <4> QED
        BY <4>1, <4>2, Zenon DEF Behind
    <3> QED
      BY <2>3, <3>1, Zenon DEF Behind
  <2>8. Behind(0)' \subseteq Behind(1) /\ Behind(1) \subseteq Behind(0)
    <3>1. Behind(0)' \subseteq Behind(1)
      <4>1. 0 \in Int /\ 0 + 1 = 1
        OBVIOUS
      <4> QED
        BY <2>7, <4>1, Zenon
    <3>2. \A j \in DOMAIN enqPool : j > 1 => j > 0
      <4>1. enqPool \in Seq(Tasks)
        BY <2>1, Zenon DEF TypeOK
      <4> QED
        BY <4>1
    <3> QED
      BY <3>1, <3>2, Zenon DEF Behind
  <2>9. ASSUME NEW i \in DOMAIN enqPool' PROVE Cardinality(Late(enqPool'[i], Behind(i)')) < Threads
    <3>1. i \in Int /\ i + 1 \in DOMAIN enqPool /\ enqPool'[i] = enqPool[i + 1]
      BY <2>6, Zenon
    <3>2. Late(enqPool'[i], Behind(i)') \subseteq Late(enqPool[i + 1], Behind(i + 1))
      <4>1. Behind(i)' \subseteq Behind(i + 1) /\ enqPool'[i].op = enqPool[i + 1].op
        BY <2>7, <3>1, Zenon
      <4> QED
        BY <4>1, Zenon DEF Late
    <3>3. Cardinality(Late(enqPool[i + 1], Behind(i + 1))) < Threads /\ IsFiniteSet(Late(enqPool[i + 1], Behind(i + 1)))
      BY <2>1, <3>1, LateFinite, Zenon DEF Overtakers
    <3> QED
      BY <2>1, <3>2, <3>3, Fewer, Zenon
  <2>10. ASSUME NEW u \in storing' PROVE Cardinality(Late(u, Behind(0)')) < Threads
    <3>1. ASSUME NEW v, NEW i, u.op = v.op, Behind(0)' \subseteq Behind(i),
                 Cardinality(Late(v, Behind(i))) < Threads
          PROVE  Cardinality(Late(u, Behind(0)')) < Threads
      <4>1. Late(u, Behind(0)') \subseteq Late(v, Behind(i))
        BY <3>1, <1>LateIn, Zenon
      <4>2. IsFiniteSet(Late(v, Behind(i)))
        BY <2>1, LateFinite, Zenon
      <4> QED
        BY <2>1, <3>1, <4>1, <4>2, Fewer, Zenon
    <3>2. CASE u \in storing
      <4>1. Behind(0)' \subseteq Behind(0) /\ Cardinality(Late(u, Behind(0))) < Threads
        BY <2>1, <2>8, <3>2, Zenon DEF Overtakers
      <4> QED
        BY <3>1, <4>1, Zenon
    <3>3. CASE u = s
      <4>1. u.op = h.op
        BY <2>4, <3>3, Zenon
      <4>2. Cardinality(Late(h, Behind(1))) < Threads
        BY <2>1, <2>6, Zenon DEF Overtakers
      <4> QED
        BY <2>8, <3>1, <4>1, <4>2, Zenon
    <3> QED
      BY <2>3, <3>2, <3>3, Zenon
  <2>11. Overtakers'
    BY <2>9, <2>10, Zenon DEF Overtakers, Late
  <2> QED
    BY <2>3, <2>4, <2>5, <2>11, Zenon DEF CountInv, FewLate

\* A worker goes on with its task, or ends it.
<1>StoreCount.
    ASSUME NEW t \in storing, Put(t) \/ StoreLog(t) \/ StoreAdd(t)
    PROVE  CountInv'
  <2> USE <1>StoreCount
  <2>1. TypeOK /\ Counted /\ Overtakers /\ Workers \in Nat /\ mode = "up"
    BY Assumptions, Zenon DEF StoreInv, CountInv, Phases, Working
  <2>2. UNCHANGED <<entering, enqPool, mode>>
    BY Zenon DEF Put, StoreLog, StoreAdd
  <2>3. PICK s : /\ s.op = t.op
                 /\ storing' = (storing \ {t}) \union {s} \/ storing' = storing \ {t}
    <3>1. CASE Put(t) \/ StoreLog(t)
      <4>1. PICK at : storing' = (storing \ {t}) \union {[t EXCEPT !.at = at]}
        BY <3>1, Zenon DEF Put, StoreLog, StoreGoto
      <4>2. [t EXCEPT !.at = at].op = t.op
        BY <2>1 DEF TypeOK
      <4> QED
        BY <4>1, <4>2, Zenon
    <3>2. CASE StoreAdd(t)
      BY <3>2, Zenon DEF StoreAdd
    <3> QED
      BY <3>1, <3>2, Zenon
  <2>4. IsFiniteSet(storing') /\ Cardinality(storing') <= Workers
    <3>1. /\ IsFiniteSet((storing \ {t}) \union {s}) /\ Cardinality((storing \ {t}) \union {s}) <= Workers
          /\ IsFiniteSet((storing \ {t}) \union {t}) /\ Cardinality((storing \ {t}) \union {t}) <= Workers
          /\ IsFiniteSet(storing \ {t}) /\ Cardinality(storing \ {t}) < Workers
      BY <2>1, ReplacedOne, Zenon DEF Counted
    <3>2. Cardinality(storing \ {t}) \in Nat
      BY <3>1, FS_CardinalityType, Zenon
    <3>3. Cardinality(storing \ {t}) <= Workers
      BY <2>1, <3>1, <3>2
    <3> QED
      BY <2>3, <3>1, <3>3, Zenon
  <2>5. Counted'
    BY <2>1, <2>2, <2>4, Zenon DEF Counted
  <2>6. \A u \in storing' : \E v \in storing : u.op = v.op
    BY <2>3, Zenon
  <2>7. Overtakers'
    BY <2>1, <2>2, <2>6, <1>OvertakersFrame, Zenon
  <2> QED
    BY <2>1, <2>2, <2>5, <2>7, Zenon DEF CountInv, FewLate

\* A step of a dequeue or of a deletion.
<1>DequeueCount.
    ASSUME mode = "up", UNCHANGED <<entering, enqPool, storing, mode>>
    PROVE  CountInv'
  <2> USE <1>DequeueCount
  <2>1. TypeOK /\ Counted /\ Overtakers
    BY Zenon DEF StoreInv, CountInv
  <2>2. Counted' /\ Overtakers'
    BY <2>1, <1>OvertakersFrame, Zenon DEF Counted
  <2> QED
    BY <2>2, Zenon DEF CountInv, FewLate

\* While the process is down there are no calls and tasks.
<1>DownCount.
    ASSUME entering' = {}, enqPool' = <<>>, storing' = {}, FewLate'
    PROVE  CountInv'
  <2> USE <1>DownCount
  <2>1. DOMAIN enqPool' = {}
    OBVIOUS
  <2>2. IsFiniteSet({}) /\ Cardinality({}) = 0
    BY FS_EmptySet, Zenon
  <2>3. 0 <= Threads /\ 0 <= Workers
    BY Assumptions
  <2>4. Counted'
    BY <2>2, <2>3, Zenon DEF Counted
  <2>5. Overtakers'
    BY <2>1, Zenon DEF Overtakers
  <2> QED
    BY <2>4, <2>5, Zenon DEF CountInv

\* A crash: an entry whose message is inserted was with a worker.
<1>CrashCount.
    ASSUME Crash
    PROVE  CountInv'
  <2> USE <1>CrashCount
  <2>1. /\ TypeOK /\ Named /\ Unique /\ Owned /\ NotYet /\ Counted /\ Overtakers /\ FewLate
        /\ Threads \in Nat /\ Workers \in Nat /\ FirstMax \in Nat
    BY Assumptions, Zenon DEF StoreInv, TaskInv, OnceInv, CountInv
  <2>2. /\ entering' = {} /\ enqPool' = <<>> /\ storing' = {} /\ db' = db /\ enqLog' = enqLog
    BY Zenon DEF Crash, disk
  <2>3. ASSUME mode = "up", NEW e \in enqLog, NEW r \in db, r.op = e.op
        PROVE  Cardinality(Late(e, enqLog)) < FirstMax
    <3>1. PICK t \in Closers : t.op = e.op
      BY <2>1, <2>3, Zenon DEF Owned
    <3>2. t \in storing
      BY <2>1, <2>3, <3>1, Zenon DEF Closers, NotYet, Waiting
    <3>3. PICK A, B : A = Late(t, Behind(0)) /\ B = Entries(storing \ {t})
      BY Zenon
    <3>4. Late(e, enqLog) \subseteq A \union B
      <4>1. ASSUME NEW f \in enqLog, f.op[2] = e.op[2], f.op[1] < e.op[1] PROVE f \in A \union B
        <5>1. PICK u \in Closers : u.op = f.op
          BY <2>1, <2>3, Zenon DEF Owned
        <5>2. Entry(u) = f
          <6>1. u \in Recs /\ f \in Recs
            BY Zenon DEF Closers, Recs, Working
          <6>2. u.msg = f.msg
            BY <2>1, <5>1, <6>1, SameOp, Zenon
          <6>3. f = [op |-> f.op, msg |-> f.msg]
            BY <2>1 DEF TypeOK, Tasks
          <6> QED
            BY <5>1, <6>2, <6>3, Zenon DEF Entry
        <5>3. u # t
          <6>1. f.op[1] # e.op[1]
            <7>1. f.op[1] \in Msgs /\ e.op[1] \in Msgs
              BY <2>1, RecsTyped, Zenon DEF Recs
            <7> QED
              BY <4>1, <7>1 DEF Msgs
          <6> QED
            BY <3>1, <5>1, <6>1, Zenon
        <5>4. CASE u \in storing
          BY <3>3, <5>2, <5>3, <5>4, Zenon DEF Entries
        <5>5. CASE u \in entering \union Scheduled
          <6>1. f \in Behind(0)
            <7>1. CASE u \in entering
              BY <5>2, <7>1, Zenon DEF Behind, Entries
            <7>2. CASE u \in Scheduled
              <8>1. PICK i \in DOMAIN enqPool : u = enqPool[i]
                BY <7>2, Zenon DEF Scheduled
              <8>2. i > 0 /\ enqPool[i] \in Tasks
                <9>1. enqPool \in Seq(Tasks)
                  BY <2>1, Zenon DEF TypeOK
                <9> QED
                  BY <9>1
              <8>3. Entry(u) = u
                BY <8>1, <8>2 DEF Entry, Tasks
              <8> QED
                BY <5>2, <8>1, <8>2, <8>3, Zenon DEF Behind
            <7> QED
              BY <5>5, <7>1, <7>2, Zenon
          <6> QED
            BY <3>1, <3>3, <4>1, <6>1, Zenon DEF Late
        <5> QED
          BY <5>4, <5>5, Zenon DEF Closers
      <4> QED
        BY <4>1, Zenon DEF Late
    <3>5. PICK a, b, c, n : a = Cardinality(A) /\ b = Cardinality(B) /\ c = Cardinality(A \union B) /\ n = Cardinality(storing \ {t})
      BY Zenon
    <3>6. IsFiniteSet(A) /\ a < Threads /\ IsFiniteSet(storing \ {t}) /\ n < Workers
      BY <2>1, <3>2, <3>3, <3>5, LateFinite, ReplacedOne, Zenon DEF Overtakers, Counted
    <3>7. IsFiniteSet(B) /\ b <= n
      BY <3>3, <3>5, <3>6, <1>EntriesBound, Zenon
    <3>8. IsFiniteSet(A \union B) /\ c = a + b - Cardinality(A \cap B) /\ Cardinality(A \cap B) \in Nat
      <4>1. IsFiniteSet(A \cap B)
        BY <3>6, FS_Intersection, Zenon
      <4> QED
        BY <3>5, <3>6, <3>7, <4>1, FS_Union, FS_CardinalityType, Zenon
    <3>9. a \in Nat /\ b \in Nat /\ c \in Nat /\ n \in Nat
      BY <3>5, <3>6, <3>7, <3>8, FS_CardinalityType, Zenon
    <3>10. c < FirstMax
      <4>1. Threads + Workers <= FirstMax + 1
        BY Zenon DEF LookupSuffices
      <4> QED
        BY <2>1, <3>6, <3>7, <3>8, <3>9, <4>1
    <3> QED
      BY <2>1, <3>4, <3>5, <3>8, <3>10, Fewer, Zenon
  <2>4. FewLate'
    <3>1. \A e \in enqLog : (\E r \in db : r.op = e.op) => Cardinality(Late(e, enqLog)) < FirstMax
      BY <2>1, <2>3, Zenon DEF FewLate
    <3> QED
      BY <2>2, <3>1, Zenon DEF FewLate, Late
  <2> QED
    BY <2>2, <2>4, <1>DownCount, Zenon

\* A step of recovery takes from the enqueue log and from the database.
<1>RecoveryCount.
    ASSUME mode # "up", UNCHANGED tasks, enqLog' \subseteq enqLog, db' \subseteq db
    PROVE  CountInv'
  <2> USE <1>RecoveryCount
  <2>1. TypeOK /\ FewLate /\ FirstMax \in Nat /\ Working = {} /\ enqPool = <<>>
    BY Assumptions, Zenon DEF StoreInv, CountInv, Phases
  <2>2. entering' = {} /\ storing' = {} /\ enqPool' = <<>>
    BY <2>1, Zenon DEF Working, tasks
  <2>3. ASSUME NEW e \in enqLog', NEW r \in db', r.op = e.op PROVE Cardinality(Late(e, enqLog')) < FirstMax
    <3>1. Cardinality(Late(e, enqLog)) < FirstMax
      BY <2>1, <2>3, Zenon DEF FewLate
    <3>2. Late(e, enqLog') \subseteq Late(e, enqLog) /\ IsFiniteSet(Late(e, enqLog))
      BY <2>1, LateFinite, Zenon DEF Late
    <3> QED
      BY <2>1, <3>1, <3>2, Fewer, Zenon
  <2>4. FewLate'
    BY <2>3, Zenon DEF FewLate, Late
  <2> QED
    BY <2>2, <2>4, <1>DownCount, Zenon

\* The resurrected tasks are in the order of their ids.
<1>ResurrectCount.
    ASSUME Resurrect
    PROVE  CountInv'
  <2> USE <1>ResurrectCount
  <2>1. TypeOK /\ Threads \in Nat /\ Workers \in Nat /\ Threads # 0
    BY Assumptions, Zenon DEF StoreInv, LookupSuffices
  <2>2. mode' = "up" /\ entering' = {} /\ storing' = {}
    BY ResurrectIs, Zenon
  <2>3. PICK n, s : /\ s \in [1..n -> aeset] /\ enqPool' = s
                    /\ \A i, j \in 1..n : i < j =>
                          s[i].op[2] < s[j].op[2] \/ (s[i].op[2] = s[j].op[2] /\ s[i].op[1] < s[j].op[1])
    BY ResurrectIs, Zenon
  <2>4. IsFiniteSet({}) /\ Cardinality({}) = 0 /\ 0 <= Threads /\ 0 <= Workers /\ 0 < Threads
    <3>1. IsFiniteSet({}) /\ Cardinality({}) = 0
      BY FS_EmptySet, Zenon
    <3>2. 0 <= Threads /\ 0 <= Workers /\ 0 < Threads
      BY <2>1
    <3> QED
      BY <3>1, <3>2, Zenon
  <2>5. Counted'
    BY <2>2, <2>4, Zenon DEF Counted
  <2>6. DOMAIN enqPool' = 1..n /\ \A i \in 1..n : enqPool'[i] \in aeset
    BY <2>3, Zenon
  <2>7. ASSUME NEW i \in DOMAIN enqPool' PROVE Late(enqPool'[i], Behind(i)') = {}
    <3>1. ASSUME NEW x \in Late(enqPool'[i], Behind(i)') PROVE FALSE
      <4>1. x \in Behind(i)' /\ x.op[2] = enqPool'[i].op[2] /\ x.op[1] < enqPool'[i].op[1]
        BY <3>1, Zenon DEF Late
      <4>2. PICK j \in DOMAIN enqPool' : j > i /\ x = enqPool'[j]
        BY <2>2, <4>1, Zenon DEF Behind, Entries
      <4>3. i \in 1..n /\ j \in 1..n /\ i < j
        BY <2>6, <4>2
      <4>4. enqPool'[i].op[2] < x.op[2] \/ enqPool'[i].op[1] < x.op[1]
        BY <2>3, <4>2, <4>3, Zenon
      <4>5. /\ x.op[1] \in Msgs /\ x.op[2] \in Queues
            /\ enqPool'[i].op[1] \in Msgs /\ enqPool'[i].op[2] \in Queues
        <5>1. \A r \in aeset : r.op[1] \in Msgs /\ r.op[2] \in Queues
          BY <2>1, RecsTyped, Zenon DEF Recs
        <5> QED
          BY <2>6, <4>2, <4>3, <5>1, Zenon
      <4>6. PICK a, b, c, d : a = x.op[1] /\ b = x.op[2] /\ c = enqPool'[i].op[1] /\ d = enqPool'[i].op[2]
        BY Zenon
      <4>7. a \in Nat /\ b \in Nat /\ c \in Nat /\ d \in Nat
        <5>1. Msgs \subseteq Nat /\ Queues \subseteq Nat
          BY Assumptions DEF Msgs
        <5> QED
          BY <4>5, <4>6, <5>1, Zenon
      <4>8. b = d /\ a < c /\ (d < b \/ c < a)
        BY <4>1, <4>4, <4>6, Zenon
      <4> QED
        BY <4>7, <4>8
    <3> QED
      BY <3>1, Zenon
  <2>8. Overtakers'
    BY <2>2, <2>4, <2>7, Zenon DEF Overtakers, Late
  <2> QED
    BY <2>2, <2>5, <2>8, Zenon DEF CountInv, FewLate

<1>StutterCount.
    ASSUME UNCHANGED vars
    PROVE  CountInv'
  <2> USE <1>StutterCount
  <2>1. UNCHANGED <<tasks, disk, mode>>
    BY Zenon DEF vars
  <2>2. CASE mode = "up"
    BY <2>1, <2>2, <1>DequeueCount, Zenon DEF tasks
  <2>3. CASE mode # "up"
    BY <2>1, <2>3, <1>RecoveryCount, Zenon DEF disk
  <2> QED
    BY <2>2, <2>3, Zenon

<1>1. Phases /\ FanoutMsgs = {}
  BY Zenon DEF StoreInv, LookupSuffices
<1>2. CASE Broker
  <2>1. ASSUME NEW w \in Pairs, DequeueBegin(w) PROVE CountInv'
    <3>1. mode = "up" /\ UNCHANGED <<entering, enqPool, storing, mode>>
      BY <2>1, Zenon DEF DequeueBegin
    <3> QED
      BY <3>1, <1>DequeueCount, Zenon
  <2> QED
    BY <1>1, <1>2, <2>1, <1>EnqueueNewCount, Zenon DEF Broker, EnqueueAgain
<1>3. CASE Progress
  <2>1. ASSUME NEW d \in leaving, DequeueEnd(d) PROVE CountInv'
    <3>1. UNCHANGED <<entering, enqPool, storing, mode>> /\ mode = "up"
      BY <1>1, <2>1, Zenon DEF DequeueEnd, Phases
    <3> QED
      BY <3>1, <1>DequeueCount, Zenon
  <2>2. ASSUME NEW d \in deleting, RemoveMsg(d) \/ RemoveLog(d) PROVE CountInv'
    <3>1. UNCHANGED <<entering, enqPool, storing, mode>> /\ mode = "up"
      BY <1>1, <2>2, Zenon DEF RemoveMsg, RemoveLog, Phases
    <3> QED
      BY <3>1, <1>DequeueCount, Zenon
  <2> QED
    BY <1>3, <2>1, <2>2, <1>EnqueueLogCount, <1>EnqueueScheduleCount, <1>TakeStoreCount, <1>StoreCount, Zenon DEF Progress
<1>4. CASE Recover
  <2>1. CASE Resurrect
    BY <2>1, <1>ResurrectCount, Zenon
  <2>2. CASE ~Resurrect
    <3>1. mode # "up" /\ UNCHANGED tasks /\ enqLog' \subseteq enqLog /\ db' \subseteq db
      <4>1. CASE ReadLogs
        <5>1. mode = "read" /\ UNCHANGED <<tasks, disk>>
          BY <4>1, Zenon DEF ReadLogs
        <5> QED
          BY <5>1 DEF disk
      <4>2. CASE LogMass
        <5>1. mode = "recover" /\ UNCHANGED <<tasks, db>> /\ \A r : r \in enqLog' => r \in enqLog
          BY <4>2, LogMassIs, Zenon
        <5>2. mode # "up"
          BY <5>1
        <5> QED
          BY <5>1, <5>2, Zenon
      <4>3. ASSUME NEW q \in Queues, RecoverQueue(q)
            PROVE  mode # "up" /\ UNCHANGED tasks /\ enqLog' \subseteq enqLog /\ db' \subseteq db
        <5>1. mode = "recover" /\ UNCHANGED <<tasks, db>> /\ enqLog' = Without(enqLog, OpsOf(AlreadyEnqueued(q)))
          BY <4>3, RecoverQueueIs, Zenon
        <5>2. mode # "up"
          BY <5>1
        <5> QED
          BY <5>1, <5>2, Zenon DEF Without
      <4>4. ASSUME NEW o \in discard, Discard(o)
            PROVE  mode # "up" /\ UNCHANGED tasks /\ enqLog' \subseteq enqLog /\ db' \subseteq db
        <5>1. mode = "recover" /\ UNCHANGED <<tasks, enqLog>> /\ db' \subseteq db
          BY <4>4, Zenon DEF Discard, Discarding, Without
        <5>2. mode # "up"
          BY <5>1
        <5> QED
          BY <5>1, <5>2, Zenon
      <4> QED
        BY <1>4, <2>2, <4>1, <4>2, <4>3, <4>4, Zenon DEF Recover
    <3> QED
      BY <3>1, <1>RecoveryCount, Zenon
  <2> QED
    BY <2>1, <2>2, Zenon
<1>5. CASE Crash
  BY <1>5, <1>CrashCount, Zenon
<1>6. CASE UNCHANGED vars
  BY <1>6, <1>StutterCount, Zenon
<1> QED
  BY <1>2, <1>3, <1>4, <1>5, <1>6, Zenon DEF Next

\* An entry whose message is in the database is among the first FirstMax of its queue.
LEMMA CountLookedUp ==
    ASSUME StoreInv, TaskInv, CountInv, NEW q \in Queues, RecoverQueue(q)
    PROVE  LookedUp(q)
<1>1. TypeOK /\ Reread /\ FewLate /\ FirstMax \in Nat
  BY Assumptions, Zenon DEF StoreInv, TaskInv, CountInv
<1>2. mode = "recover" /\ mode # "up"
  <2>1. mode = "recover"
    BY RecoverQueueIs, Zenon
  <2> QED
    BY <2>1
<1>3. ASSUME NEW e \in FromLog(q), NEW r \in db, r.op = e.op PROVE FALSE
  <2>1. PICK mine, less : mine = On(Persistent(aeset \ Useless), q) /\ less = {f \in mine : f.op[1] < e.op[1]}
    BY Zenon
  <2>2. e \in mine /\ e \notin AlreadyEnqueued(q) /\ e \in aeset /\ e.op[2] = q
    BY <2>1, Zenon DEF FromLog, On, Persistent
  <2>3. e \in enqLog /\ less \subseteq Late(e, enqLog)
    <3>1. \A f \in mine : f \in aeset /\ f.op[2] = q
      BY <2>1, Zenon DEF On, Persistent
    <3> QED
      BY <1>1, <1>2, <2>1, <2>2, <3>1, Zenon DEF Reread, Late
  <2>4. Cardinality(Late(e, enqLog)) < FirstMax /\ IsFiniteSet(Late(e, enqLog))
    BY <1>1, <1>2, <1>3, <2>3, LateFinite, Zenon DEF FewLate
  <2>5. Cardinality(less) < FirstMax
    BY <1>1, <2>3, <2>4, Fewer, Zenon
  <2>6. e \in Checked(q)
    BY <2>1, <2>2, <2>5, Zenon DEF Checked
  <2> QED
    BY <1>3, <2>2, <2>6, Zenon DEF AlreadyEnqueued, OpsOf
<1> QED
  BY <1>3, Zenon DEF LookedUp

(***************************************************************************)
(* Over any crashes, no message gets on its queue twice when none is       *)
(* enqueued on several queues and when the threads in enqueue and the      *)
(* workers of the pool are together at most one more than the entries that *)
(* recoverMessages looks up in the database.                               *)
(***************************************************************************)
THEOREM OnceOnItsQueue == LookupSuffices => (Spec => []OnceOnQueue)
<1> SUFFICES ASSUME LookupSuffices PROVE Spec => []OnceOnQueue
  BY Zenon
<1>1. Init => OnceInv /\ CountInv
  BY InitOnce, InitCount, Zenon
<1>2. StoreInv /\ StoreInv' /\ TaskInv /\ OnceInv /\ CountInv /\ [Next]_vars => OnceInv' /\ CountInv'
  BY CountLookedUp, OnceStep, CountStep, Zenon
<1>3. OnceInv => OnceOnQueue
  BY Zenon DEF OnceInv
<1> QED
  BY <1>1, <1>2, <1>3, StoreInvariance, TasksAgree, PTL DEF Spec

\* What else holds as long as no message gets on its queue twice.
LEMMA OnceInvariance == Spec /\ []OnceOnQueue => []OnceInv
<1>1. Init => OnceInv
  BY InitOnce, Zenon
<1>2. StoreInv /\ StoreInv' /\ TaskInv /\ OnceInv /\ OnceOnQueue' /\ [Next]_vars => OnceInv'
  BY OnceLookedUp, OnceStep, Zenon
<1> QED
  BY <1>1, <1>2, StoreInvariance, TasksAgree, PTL DEF Spec
===============================================================================
