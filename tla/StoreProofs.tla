----------------------------- MODULE StoreProofs ------------------------------
(***************************************************************************)
(* That the steps of AsyncStore keep the invariant of StoreInvariant, and  *)
(* what follows from it.                                                   *)
(***************************************************************************)
EXTENDS StoreInvariant, WellFoundedInduction, FiniteSetTheorems, TLAPS

-----------------------------------------------------------------------------
(***************************************************************************)
(* A set of records is finite, since messages and queues are, so that      *)
(* copies can be counted.                                                  *)
(***************************************************************************)
LEMMA RecordsFinite ==
    ASSUME NEW R \in SUBSET Tasks
    PROVE  IsFiniteSet(R)
<1>1. IsFiniteSet(Msgs) /\ IsFiniteSet(Queues)
  <2>1. MaxMsgs \in Int /\ 1 \in Int
    BY Assumptions
  <2> QED
    BY <2>1, FS_Interval, Assumptions, Zenon DEF Msgs
<1>2. IsFiniteSet((Msgs \X Queues) \X Msgs)
  BY <1>1, FS_Product, Zenon
<1> DEFINE S == (Msgs \X Queues) \X Msgs
           f == [x \in S |-> [op |-> x[1], msg |-> x[2]]]
<1>3. f \in [S -> Tasks]
  BY DEF Tasks, Ops
<1>4. \A t \in Tasks : \E x \in S : f[x] = t
  <2> SUFFICES ASSUME NEW t \in Tasks PROVE \E x \in S : f[x] = t
    BY Zenon
  <2>1. <<t.op, t.msg>> \in S
    BY DEF Tasks, Ops
  <2>2. f[<<t.op, t.msg>>] = t
    BY <2>1 DEF Tasks
  <2> QED
    BY <2>1, <2>2, Zenon
<1>5. f \in Surjection(S, Tasks)
  <2> HIDE DEF f, S
  <2> QED
    BY <1>3, <1>4, Zenon DEF Surjection
<1>6. IsFiniteSet(Tasks)
  <2> HIDE DEF f
  <2> QED
    BY <1>2, <1>5, FS_Surjection, Zenon
<1> QED
  BY <1>6, FS_Subset, Zenon

(***************************************************************************)
(* The highest id among a set of records, 0 when there is none.            *)
(***************************************************************************)
LEMMA MaxIdIs ==
    ASSUME NEW R \in SUBSET Tasks
    PROVE  /\ MaxId(R) \in 0..MaxMsgs /\ \A r \in R : r.op[1] <= MaxId(R)
           /\ MaxId(R) = 0 \/ \E r \in R : MaxId(R) = r.op[1]
<1> DEFINE T == {0} \union {r.op[1] : r \in R}
           U == {MaxMsgs - x : x \in T}
<1>0. MaxMsgs \in Nat
  BY Assumptions
<1>1. \A x \in T : x \in 0..MaxMsgs
  BY <1>0 DEF Tasks, Ops, Msgs
<1>2. U \in SUBSET Nat
  BY <1>0, <1>1
<1>3. MaxMsgs - 0 \in U
  BY Zenon
<1>4. PICK u \in U : \A v \in U : ~(<<v, u>> \in OpToRel(<, Nat))
  <2> HIDE DEF U
  <2> QED
    BY <1>2, <1>3, NatLessThanWellFounded, WFMin, Zenon
<1>5. \A v \in U : ~(v < u)
  BY <1>2, <1>4, Zenon DEF OpToRel
<1>6. PICK x \in T : u = MaxMsgs - x
  BY Zenon
<1>7. \A y \in T : ~(MaxMsgs - y < MaxMsgs - x)
  BY <1>5, <1>6, Zenon
<1>8. \A y \in T : x >= y
  <2> HIDE DEF T
  <2> QED
    BY <1>0, <1>1, <1>7
<1>9. MaxId(R) \in T /\ \A y \in T : MaxId(R) >= y
  BY <1>8, Zenon DEF MaxId, Max
<1>10. \A r \in R : r.op[1] \in T
  BY Zenon
<1>11. MaxId(R) = 0 \/ \E r \in R : MaxId(R) = r.op[1]
  BY <1>9, Zenon
<1>12. MaxId(R) \in 0..MaxMsgs /\ \A r \in R : r.op[1] \in 0..MaxMsgs /\ MaxId(R) >= r.op[1]
  BY <1>1, <1>9, <1>10, Zenon
<1> QED
  BY <1>0, <1>11, <1>12

\* The later of two ids is one of them and not below either.
LEMMA LaterIs ==
    ASSUME NEW a \in 0..MaxMsgs, NEW b \in 0..MaxMsgs
    PROVE  Later(a, b) \in {a, b} /\ Later(a, b) \in 0..MaxMsgs /\ a <= Later(a, b) /\ b <= Later(a, b)
<1>1. \E x \in {a, b} : \A y \in {a, b} : x >= y
  BY Assumptions
<1>2. Later(a, b) \in {a, b} /\ \A y \in {a, b} : Later(a, b) >= y
  BY <1>1, Zenon DEF Later, Max
<1> QED
  BY <1>2, Assumptions

(***************************************************************************)
(* addPid keeps lastPid and the gap set among the ids: the gap loop has an *)
(* end, at most at the highest id.                                         *)
(***************************************************************************)
LEMMA AddPidTyped ==
    ASSUME NEW last \in 0..MaxMsgs, NEW gap \in SUBSET Msgs, NEW p \in Msgs
    PROVE  AddPid(last, gap, p).last \in 0..MaxMsgs /\ AddPid(last, gap, p).gap \subseteq Msgs
<1> DEFINE base == Max2(p, last)
           T == {m \in Nat : m > base /\ m \notin gap}
<1>0. MaxMsgs \in Nat /\ base \in 0..MaxMsgs
  BY Assumptions DEF Max2, Msgs
<1>1. MaxMsgs + 1 \in T /\ T \in SUBSET Nat
  BY <1>0 DEF Msgs
<1>2. PICK m \in T : \A y \in T : ~(<<y, m>> \in OpToRel(<, Nat))
  <2> HIDE DEF T
  <2> QED
    BY <1>1, NatLessThanWellFounded, WFMin, Zenon
<1>3. \A y \in T : ~(y < m)
  BY <1>1, <1>2, Zenon DEF OpToRel
<1>4. m - 1 >= base /\ m - 1 <= MaxMsgs /\ m - 1 \in Nat /\ (m - 1) + 1 \notin gap
  BY <1>0, <1>1, <1>3
<1>5. \A i \in (base + 1)..(m - 1) : i \in gap
  BY <1>0, <1>3, <1>4
<1>6. m - 1 \in {base} \union gap
  BY <1>0, <1>4, <1>5
<1>7. EndOfRun(base, gap) \in {base} \union gap
  <2> HIDE DEF base
  <2>1. \E n \in {base} \union gap :
            n >= base /\ (\A i \in (base + 1)..n : i \in gap) /\ n + 1 \notin gap
    BY <1>4, <1>5, <1>6, Zenon
  <2> QED
    BY <2>1, Zenon DEF EndOfRun
<1>8. EndOfRun(base, gap) \in 0..MaxMsgs
  <2>1. \A x \in gap : x \in 0..MaxMsgs
    BY <1>0 DEF Msgs
  <2> QED
    BY <1>0, <1>7, <2>1, Zenon
<1>9. CASE IntDiff(p, last) > 1
  BY <1>9 DEF AddPid
<1>10. CASE ~(IntDiff(p, last) > 1)
  BY <1>8, <1>10 DEF AddPid
<1> QED
  BY <1>9, <1>10, Zenon

-----------------------------------------------------------------------------
(***************************************************************************)
(* The operation and the message of whatever names both, and that on one   *)
(* queue each tells the other.                                             *)
(***************************************************************************)
LEMMA RecsTyped ==
    ASSUME TypeOK
    PROVE  \A r \in Recs : /\ r.op \in Ops /\ r.msg \in Msgs /\ r.op[1] \in Msgs /\ r.op[2] \in Queues
                           /\ Pair(r) \in Pairs /\ r.op = <<r.op[1], r.op[2]>>
<1>1. ASSUME NEW r \in Recs PROVE r.op \in Ops /\ r.msg \in Msgs
  <2>1. \A i \in DOMAIN enqPool : enqPool[i] \in Tasks
    BY DEF TypeOK
  <2>2. CASE r \in db \/ r \in enqLog \/ r \in aeset
    BY <2>2 DEF TypeOK, Tasks
  <2>3. CASE r \in Scheduled
    BY <2>1, <2>3 DEF Tasks, Scheduled
  <2>4. CASE r \in entering
    BY <2>4 DEF TypeOK
  <2>5. CASE r \in storing \/ r \in leaving
    BY <2>5 DEF TypeOK
  <2> QED
    BY <2>2, <2>3, <2>4, <2>5, Zenon DEF Recs, Working
<1>2. \A o \in Ops : o[1] \in Msgs /\ o[2] \in Queues /\ o = <<o[1], o[2]>>
  BY DEF Ops
<1> QED
  BY <1>1, <1>2, Zenon DEF Pair, Pairs

\* Among all records, tasks and calls an operation stands for one message on one queue.
LEMMA SameOp ==
    ASSUME TypeOK, Named
    PROVE  \A r, s \in Recs : /\ r.op = s.op <=> Pair(r) = Pair(s)
                              /\ r.op[1] = s.op[1] <=> r.msg = s.msg
<1> SUFFICES ASSUME NEW r \in Recs, NEW s \in Recs
             PROVE  /\ r.op = s.op <=> Pair(r) = Pair(s)
                    /\ r.op[1] = s.op[1] <=> r.msg = s.msg
  BY Zenon
<1>1. <<r.op[1], r.msg>> \in Claims /\ <<s.op[1], s.msg>> \in Claims
  BY Zenon DEF Claims
<1>2. r.op[1] = s.op[1] <=> r.msg = s.msg
  BY <1>1 DEF Named
<1>3. r.op = <<r.op[1], r.op[2]>> /\ s.op = <<s.op[1], s.op[2]>>
  BY RecsTyped, Zenon
<1> QED
  BY <1>2, <1>3 DEF Pair

\* Membership in the operations of a set of records.
LEMMA OpsOfIs == \A R, o : o \in OpsOf(R) <=> \E s \in R : s.op = o
BY Zenon DEF OpsOf

(***************************************************************************)
(* Every step keeps the invariant: what the steps have in common, the      *)
(* calls of the broker, the tasks, the recovery, and the rest.             *)
(***************************************************************************)
LEMMA StoreStep ==
    ASSUME StoreInv, [Next]_vars
    PROVE  StoreInv'
\* Where to look for the claims after a step.
<1>ClaimsIn.
    ASSUME NEW S, \A r \in Recs' : <<r.op[1], r.msg>> \in S,
           \A m \in Msgs : pid'[m] # 0 => <<pid'[m], m>> \in S
    PROVE  Claims' \subseteq S
  BY <1>ClaimsIn, Zenon DEF Claims

\* A step that only moves records between places makes no new claims.
<1>MovedClaims.
    ASSUME Moved, UNCHANGED pid
    PROVE  Claims' \subseteq Claims
  <2> USE <1>MovedClaims
  <2> SUFFICES ASSUME NEW c \in Claims' PROVE c \in Claims
    BY Zenon
  <2>1. CASE c \in {<<r.op[1], r.msg>> : r \in Recs'}
    <3>1. PICK r \in Recs' : c = <<r.op[1], r.msg>>
      BY <2>1, Zenon
    <3>2. PICK s \in Recs : s.op = r.op /\ s.msg = r.msg
      BY Zenon DEF Moved
    <3>3. c = <<s.op[1], s.msg>>
      BY <3>1, <3>2, Zenon
    <3> QED
      BY <3>3, Zenon DEF Claims
  <2>2. CASE c \in {<<pid[m], m>> : m \in {n \in Msgs : pid[n] # 0}}
    BY <2>2, Zenon DEF Claims
  <2> QED
    BY <2>1, <2>2, Zenon DEF Claims

(***************************************************************************)
(* A step of a process that is up and gives no new id: what is left to     *)
(* show for it are the calls, the tasks and the copies.                    *)
(***************************************************************************)
<1>UpFrame.
    ASSUME mode = "up", UNCHANGED <<mode, nextId, pid, recovery>>, SameNone,
           Claims' \subseteq Claims, \A r \in Recs' : stage'[Pair(r)] # "none",
           \A w \in Pairs : onQueue'[w] > 0 => pid[w[1]] # 0 /\ stage[w] # "none"
    PROVE  Named' /\ Sent' /\ Phases' /\ Recovering' /\ Found'
  <2> USE <1>UpFrame
  <2>1. TypeOK /\ Named /\ Sent /\ Phases
    BY Zenon DEF StoreInv
  <2>2. Fresh' = Fresh
    BY Zenon DEF Fresh, SameNone, Pairs
  <2>3. Named'
    BY <2>1, <2>2, Zenon DEF Named
  <2>4. Sent'
    BY <2>1, <2>2, Zenon DEF Sent, SameNone
  <2>5. Phases'
    BY <2>1, Zenon DEF Phases, recovery
  <2>6. Recovering' /\ Found'
    <3>1. mode' # "recover"
      OBVIOUS
    <3> QED
      BY <3>1, Zenon DEF Recovering, Found
  <2> QED
    BY <2>3, <2>4, <2>5, <2>6, Zenon

\* What a step of a running process leaves to show when it only moves records.
<1>UpStep.
    ASSUME mode = "up", UNCHANGED <<mode, nextId, pid, recovery>>, Moved, SameNone,
           \A w \in Pairs : onQueue'[w] > 0 => pid[w[1]] # 0 /\ stage[w] # "none"
    PROVE  Named' /\ Sent' /\ Phases' /\ Recovering' /\ Found'
  <2> USE <1>UpStep
  <2>1. TypeOK /\ Sent
    BY Zenon DEF StoreInv
  <2>2. ASSUME NEW r \in Recs' PROVE stage'[Pair(r)] # "none"
    <3>1. PICK s \in Recs : s.op = r.op /\ s.msg = r.msg
      BY Zenon DEF Moved
    <3>2. Pair(s) = Pair(r) /\ Pair(s) \in Pairs /\ stage[Pair(s)] # "none"
      BY <2>1, <3>1, RecsTyped, Zenon DEF Pair, Sent
    <3> QED
      BY <3>2, Zenon DEF SameNone
  <2> QED
    BY <2>2, <1>MovedClaims, <1>UpFrame, Zenon

\* A broker thread logs the start of its enqueue.
<1>EnqueueLogStep.
    ASSUME NEW e \in entering, EnqueueLog(e)
    PROVE  StoreInv'
  <2> USE <1>EnqueueLogStep
  <2>1. TypeOK /\ Named /\ Sent /\ Phases /\ Kept /\ Entered /\ Stored
    BY Zenon DEF StoreInv
  <2>2. mode = "up"
    BY <2>1, Zenon DEF Phases, Working
  <2>3. PICK f, g : f = [e EXCEPT !.at = "schedule"] /\ g = [op |-> e.op, msg |-> e.msg]
    BY Zenon
  <2>4. /\ f.op = e.op /\ f.msg = e.msg /\ g.op = e.op /\ g.msg = e.msg /\ g \in Tasks
        /\ f \in [op : Ops, msg : Msgs, at : {"log", "schedule"}]
    BY <2>1, <2>3, Zenon DEF TypeOK, Tasks
  <2>5. /\ entering' = (entering \ {e}) \union {f} /\ enqLog' = enqLog \union {g}
        /\ UNCHANGED <<ids, leaving, enqPool, storing, deleting, broker, db, deqLog, mode, recovery,
                       stage, victims, escapes, crashes>>
    BY <2>3, Zenon DEF EnqueueLog
  <2>6. TypeOK'
    BY <2>1, <2>4, <2>5, Zenon DEF TypeOK, ids, broker, recovery, escapes
  <2>7. Moved
    <3>1. Recs' \subseteq Recs \union {f, g} /\ e \in Recs
      <4>1. Scheduled' = Scheduled /\ aeset' = aeset
        BY <2>5, Zenon DEF Scheduled, recovery
      <4> QED
        BY <2>5, <4>1, Zenon DEF Recs, Working
    <3> QED
      BY <2>4, <3>1, Zenon DEF Moved
  <2>8. Named' /\ Sent' /\ Phases' /\ Recovering' /\ Found'
    <3>1. SameNone /\ \A w \in Pairs : onQueue'[w] > 0 => pid[w[1]] # 0 /\ stage[w] # "none"
      BY <2>1, <2>5, Zenon DEF SameNone, Sent, broker
    <3> QED
      BY <2>2, <2>5, <2>7, <3>1, <1>UpStep, Zenon DEF ids, broker
  <2>9. Owed' = Owed /\ Covered \subseteq Covered' /\ Pair(e) \in Covered' /\ Pair(f) = Pair(e)
    BY <2>4, <2>5, Zenon DEF Owed, Unasked, Covered, Pair
  <2>10. Kept'
    BY <2>1, <2>5, <2>9, Zenon DEF Kept, broker, recovery
  <2>11. Entered'
    <3>1. ASSUME NEW x \in entering'
          PROVE  \E y \in entering : y.op = x.op /\ Pair(y) = Pair(x) /\ (y # e => x = y)
      BY <2>4, <2>5, <2>9, Zenon
    <3>2. ASSUME NEW x \in entering'
          PROVE  /\ stage[Pair(x)] = "sent" /\ onQueue[Pair(x)] = 0 /\ x.op \notin OpsOf(Scheduled)
                 /\ x.at = "schedule" /\ Pair(x) \in Owed => Pair(x) \in Covered'
      <4>1. CASE x = f
        BY <2>1, <2>4, <2>9, <4>1, Zenon DEF Entered
      <4>2. CASE x # f
        <5>1. x \in entering
          BY <2>5, <4>2, Zenon
        <5> QED
          BY <2>1, <2>9, <5>1, Zenon DEF Entered
      <4> QED
        BY <4>1, <4>2, Zenon
    <3>3. ASSUME NEW x \in entering', NEW y \in entering', Pair(x) = Pair(y)
          PROVE  x = y
      BY <2>1, <2>5, <2>9, <3>3, Zenon DEF Entered
    <3> QED
      <4>1. OpsOf(Scheduled)' = OpsOf(Scheduled)
        BY <2>5, Zenon DEF Scheduled, OpsOf
      <4>2. \A d \in leaving' : stage'[Pair(d)] \in {"asked", "done"}
        BY <2>1, <2>5, Zenon DEF Entered
      <4> QED
        BY <2>5, <2>9, <3>2, <3>3, <4>1, <4>2, Zenon DEF Entered, broker
  <2>12. Stored'
    BY <2>1, <2>5, <2>9, Zenon DEF Stored, Stores, Scheduled, ids
  <2> QED
    BY <2>6, <2>8, <2>10, <2>11, <2>12, Zenon DEF StoreInv

\* The task is in the pool, and the message on its queue.
<1>EnqueueScheduleStep.
    ASSUME NEW e \in entering, EnqueueSchedule(e)
    PROVE  StoreInv'
  <2> USE <1>EnqueueScheduleStep
  <2>1. TypeOK /\ Named /\ Sent /\ Phases /\ Kept /\ Entered /\ Stored
    BY Zenon DEF StoreInv
  <2>2. mode = "up"
    BY <2>1, Zenon DEF Phases, Working
  <2>3. PICK g, w : g = [op |-> e.op, msg |-> e.msg] /\ w = Pair(e)
    BY Zenon
  <2>4. /\ g.op = e.op /\ g.msg = e.msg /\ g \in Tasks /\ e.op \in Ops /\ Pair(g) = w
    BY <2>1, <2>3 DEF TypeOK, Tasks, Pair
  <2>5. /\ entering' = entering \ {e} /\ e.at = "schedule"
        /\ pendMap' = (IF Smart THEN pendMap \union {e.op} ELSE pendMap)
        /\ enqPool' = Append(enqPool, g)
        /\ stage' = [stage EXCEPT ![w] = "acked"]
        /\ onQueue' = [onQueue EXCEPT ![w] = @ + 1]
        /\ UNCHANGED <<nextId, lastPid, gapPidSet, dupMap, leaving, storing, deleting, pid,
                       disk, mode, recovery, victims, escapes, crashes>>
    BY <2>3, Zenon DEF EnqueueSchedule
  <2>6. /\ w \in Pairs /\ stage[w] = "sent" /\ onQueue[w] = 0 /\ pid[e.msg] # 0 /\ w[1] = e.msg
        /\ (w \in Owed => w \in Covered)
    <3>1. e \in Recs
      BY Zenon DEF Recs, Working
    <3>2. <<e.op[1], e.msg>> \in Claims
      BY <3>1, Zenon DEF Claims
    <3>3. pid[<<e.op[1], e.msg>>[2]] # 0
      BY <2>1, <2>2, <3>2, Zenon DEF Named
    <3>4. pid[e.msg] # 0 /\ w[1] = e.msg
      BY <2>3, <3>3 DEF Pair
    <3>5. w \in Pairs
      BY <2>1, <2>3, <3>1, RecsTyped, Zenon
    <3> QED
      BY <2>1, <2>3, <2>5, <3>4, <3>5, Zenon DEF Entered
  <2>7. /\ stage'[w] = "acked" /\ onQueue'[w] = 1
        /\ \A x \in Pairs : x # w => stage'[x] = stage[x] /\ onQueue'[x] = onQueue[x]
        /\ stage' \in [Pairs -> Stages] /\ onQueue' \in [Pairs -> Nat]
    <3>1. stage \in [Pairs -> Stages] /\ onQueue \in [Pairs -> Nat] /\ "acked" \in Stages
      BY <2>1, Zenon DEF TypeOK, Stages
    <3>2. onQueue[w] + 1 = 1 /\ 1 \in Nat
      BY <2>6
    <3> QED
      BY <2>5, <2>6, <3>1, <3>2, Zenon
  <2>8. /\ enqPool' \in Seq(Tasks) /\ Len(enqPool') = Len(enqPool) + 1
        /\ enqPool'[Len(enqPool) + 1] = g /\ Len(enqPool) \in Nat
        /\ \A i \in DOMAIN enqPool : i \in DOMAIN enqPool' /\ enqPool'[i] = enqPool[i]
        /\ \A i \in DOMAIN enqPool' : i \in DOMAIN enqPool \/ i = Len(enqPool) + 1
    <3>1. enqPool \in Seq(Tasks)
      BY <2>1, Zenon DEF TypeOK
    <3> QED
      BY <2>4, <2>5, <3>1
  <2>9. Scheduled' \subseteq Scheduled \union {g}
    BY <2>8, Zenon DEF Scheduled
  <2>10. TypeOK'
    <3>1. pendMap' \subseteq Ops
      BY <2>1, <2>4, <2>5, Zenon DEF TypeOK
    <3>2. entering' \subseteq [op : Ops, msg : Msgs, at : {"log", "schedule"}]
      BY <2>1, <2>5, Zenon DEF TypeOK
    <3> QED
      BY <2>1, <2>5, <2>7, <2>8, <3>1, <3>2, Zenon DEF TypeOK, disk, recovery, escapes
  <2>11. Moved
    BY <2>4, <2>5, <2>9, Zenon DEF Moved, Recs, Working, disk, recovery
  <2>12. Named' /\ Sent' /\ Phases' /\ Recovering' /\ Found'
    <3>1. \A x \in Pairs : onQueue'[x] > 0 => pid[x[1]] # 0 /\ stage[x] # "none"
      BY <2>1, <2>6, <2>7, Zenon DEF Sent
    <3>2. SameNone
      BY <2>6, <2>7, Zenon DEF SameNone
    <3> QED
      BY <2>2, <2>5, <2>11, <3>1, <3>2, <1>UpStep, Zenon
  <2>13. Owed' = Owed /\ Covered' = Covered /\ Stores' = Stores
    <3>1. Unasked' = Unasked
      BY <2>6, <2>7, Zenon DEF Unasked
    <3> QED
      BY <2>5, <3>1, Zenon DEF Owed, Covered, Stores, disk
  <2>14. Kept'
    <3>1. 1 > 0
      OBVIOUS
    <3>2. ASSUME NEW x \in Owed, stage'[x] = "acked"
          PROVE  x \in Covered /\ onQueue'[x] > 0
      <4>1. x \in Pairs
        BY Zenon DEF Owed, Unasked
      <4> QED
        BY <2>1, <2>2, <2>6, <2>7, <3>1, <3>2, <4>1, Zenon DEF Kept
    <3> QED
      BY <2>13, <3>2, Zenon DEF Kept
  <2>15. ASSUME NEW x \in entering' PROVE x \in entering /\ Pair(x) # w /\ Pair(x) \in Pairs /\ x.op # e.op
    <3>1. x \in entering /\ x \in Recs /\ e \in Recs
      BY <2>5, Zenon DEF Recs, Working
    <3> QED
      BY <2>1, <2>3, <2>5, <3>1, RecsTyped, SameOp, Zenon DEF Entered
  <2>16. Entered'
    <3>1. \A o : o \in OpsOf(Scheduled') => o \in OpsOf(Scheduled) \/ o = e.op
      BY <2>4, <2>9, Zenon DEF OpsOf
    <3>2. ASSUME NEW x \in entering'
          PROVE  /\ stage'[Pair(x)] = "sent" /\ onQueue'[Pair(x)] = 0 /\ x.op \notin OpsOf(Scheduled')
                 /\ x.at = "schedule" /\ Pair(x) \in Owed => Pair(x) \in Covered
      BY <2>1, <2>7, <2>15, <3>1, Zenon DEF Entered
    <3>3. \A d \in leaving : stage'[Pair(d)] \in {"asked", "done"}
      <4>1. \A d \in leaving : Pair(d) \in Pairs /\ stage[Pair(d)] \in {"asked", "done"}
        BY <2>1, RecsTyped, Zenon DEF Entered, Recs
      <4> QED
        BY <2>6, <2>7, <4>1, Zenon
    <3>4. \A x, y \in entering' : Pair(x) = Pair(y) => x = y
      BY <2>1, <2>15, Zenon DEF Entered
    <3> QED
      BY <2>5, <2>13, <3>2, <3>3, <3>4, Zenon DEF Entered, OpsOf
  <2>17. Stored'
    <3>1. ASSUME NEW i \in DOMAIN enqPool', NEW j \in DOMAIN enqPool', enqPool'[i].op = enqPool'[j].op
          PROVE  i = j
      <4>1. \A k \in DOMAIN enqPool : enqPool[k].op # e.op
        <5>1. \A k \in DOMAIN enqPool : enqPool[k].op \in OpsOf(Scheduled)
          BY Zenon DEF OpsOf, Scheduled
        <5>2. e.op \notin OpsOf(Scheduled)
          BY <2>1, Zenon DEF Entered
        <5> QED
          BY <5>1, <5>2, Zenon
      <4> QED
        BY <2>1, <2>4, <2>8, <3>1, <4>1, Zenon DEF Stored
    <3>2. Smart => \A t \in Scheduled' : t.op \in pendMap' \/ Pair(t) \notin Owed
      BY <2>1, <2>4, <2>5, <2>9, Zenon DEF Stored
    <3> QED
      BY <2>1, <2>5, <2>13, <3>1, <3>2, Zenon DEF Stored
  <2> QED
    BY <2>10, <2>12, <2>14, <2>16, <2>17, Zenon DEF StoreInv

(***************************************************************************)
(* enqueue() is called: the message is on its way to the queue, with an id *)
(* of its own or the one it has.                                           *)
(***************************************************************************)
<1>EnqueueBeginStep.
    ASSUME NEW m \in Msgs, NEW q \in Queues, NEW id \in Msgs, EnqueueBegin(m, q, id),
           pid' \in [Msgs -> 0..MaxMsgs], nextId' \in 1..(MaxMsgs + 1), dupMap' \subseteq Ops,
           \A n \in Msgs : pid'[n] = (IF n = m THEN id ELSE pid[n]),
           \A n \in Fresh' : n \in Fresh /\ m < n,
           \A t \in Scheduled : t.op # <<id, q>>,
           Claims' \subseteq Claims \union {<<id, m>>} => Named'
    PROVE  StoreInv'
  <2> USE <1>EnqueueBeginStep
  <2>1. TypeOK /\ Named /\ Sent /\ Phases /\ Kept /\ Entered /\ Stored
    BY Zenon DEF StoreInv
  <2>2. PICK w, op, e : w = <<m, q>> /\ op = <<id, q>> /\ e = [op |-> op, msg |-> m, at |-> "log"]
    BY Zenon
  <2>3. /\ mode = "up" /\ stage[w] = "none"
        /\ stage' = [stage EXCEPT ![w] = "sent"] /\ entering' = entering \union {e}
        /\ UNCHANGED <<lastPid, gapPidSet, pendMap, leaving, enqPool, storing, deleting, onQueue, disk, mode,
                       recovery, victims, escapes, crashes>>
    BY <2>2, Zenon DEF EnqueueBegin
  <2>4. /\ w \in Pairs /\ w[1] = m /\ op \in Ops /\ op[1] = id /\ op[2] = q
        /\ e.op = op /\ e.msg = m /\ e.at = "log"
        /\ e \in [op : Ops, msg : Msgs, at : {"log", "schedule"}]
    BY <2>2 DEF Pairs, Ops
  <2>5. Pair(e) = w
    BY <2>2, <2>4, Zenon DEF Pair
  <2>6. /\ stage'[w] = "sent" /\ stage' \in [Pairs -> Stages]
        /\ \A x \in Pairs : x # w => stage'[x] = stage[x]
    BY <2>1, <2>3, <2>4, Zenon DEF TypeOK, Stages
  <2>7. TypeOK'
    BY <2>1, <2>3, <2>4, <2>6, Zenon DEF TypeOK, disk, recovery, escapes
  <2>8. Recs' \subseteq Recs \union {e} /\ Scheduled' = Scheduled
    BY <2>3, Zenon DEF Recs, Working, Scheduled, disk, recovery
  <2>9. \A r \in Recs : Pair(r) \in Pairs /\ stage[Pair(r)] # "none" /\ Pair(r) # w
    BY <2>1, <2>3, RecsTyped, Zenon DEF Sent
  <2>10. onQueue[w] = 0
    <3>1. ~(onQueue[w] > 0) /\ onQueue[w] \in Nat
      BY <2>1, <2>3, <2>4, Zenon DEF Sent, TypeOK
    <3> QED
      BY <3>1
  <2>11. ASSUME Claims' \subseteq Claims \union {<<id, m>>} PROVE Named'
    BY <2>11, Zenon
  <2>12. Sent'
    <3>1. \A n \in Fresh', k \in Msgs \ Fresh' : k < n
      <4>1. ASSUME NEW n \in Fresh', NEW k \in Msgs \ Fresh' PROVE k < n
        <5>1. CASE k = m
          BY <5>1, Zenon
        <5>2. CASE k # m
          <6>1. k \notin Fresh
            <7>1. CASE k \in Fresh
              <8>1. \A p \in Queues : stage'[<<k, p>>] = "none"
                <9>1. ASSUME NEW p \in Queues PROVE stage'[<<k, p>>] = "none"
                  <10>1. <<k, p>> \in Pairs /\ <<k, p>> # w
                    BY <2>2, <5>2 DEF Pairs
                  <10> QED
                    BY <2>6, <7>1, <10>1, Zenon DEF Fresh
                <9> QED
                  BY <9>1, Zenon
              <8> QED
                BY <8>1, Zenon DEF Fresh
            <7> QED
              BY <7>1, Zenon
          <6> QED
            BY <2>1, <6>1, Zenon DEF Sent
        <5> QED
          BY <5>1, <5>2, Zenon
      <4> QED
        BY <4>1, Zenon
    <3>2. \A r \in Recs' : stage'[Pair(r)] # "none"
      BY <2>5, <2>6, <2>8, <2>9, Zenon
    <3>3. ASSUME NEW x \in Pairs, onQueue'[x] > 0 PROVE pid'[x[1]] # 0 /\ stage'[x] # "none"
      <4>1. x[1] \in Msgs
        BY DEF Pairs
      <4>2. pid[x[1]] # 0 /\ stage[x] # "none"
        BY <2>1, <2>3, <3>3, Zenon DEF Sent
      <4>3. id # 0
        BY DEF Msgs
      <4> QED
        BY <2>6, <4>1, <4>2, <4>3, Zenon
    <3> QED
      BY <3>1, <3>2, <3>3, Zenon DEF Sent
  <2>13. Claims' \subseteq Claims \union {<<id, m>>}
    <3>1. \A r \in Recs' : <<r.op[1], r.msg>> \in Claims \union {<<id, m>>}
      BY <2>4, <2>8, Zenon DEF Claims
    <3>2. \A n \in Msgs : pid'[n] # 0 => <<pid'[n], n>> \in Claims \union {<<id, m>>}
      <4>1. \A n \in Msgs : n = m => <<pid'[n], n>> = <<id, m>>
        BY Zenon
      <4>2. \A n \in Msgs : n # m => pid'[n] = pid[n]
        BY Zenon
      <4>3. \A n \in Msgs : pid[n] # 0 => <<pid[n], n>> \in Claims
        BY Zenon DEF Claims
      <4> QED
        BY <4>1, <4>2, <4>3, Zenon
    <3> QED
      BY <3>1, <3>2, <1>ClaimsIn, Zenon
  <2>14. Phases' /\ Recovering' /\ Found'
    <3>1. mode' = "up" /\ mode' # "recover"
      BY <2>3
    <3> QED
      BY <2>1, <2>3, <3>1, Zenon DEF Phases, Recovering, Found, recovery
  <2>15. /\ Covered' = Covered /\ Stores' = Stores
         /\ \A x \in Owed' : x \in Pairs /\ (x = w \/ (x \in Owed /\ stage'[x] = stage[x]))
    <3>1. Covered' = Covered /\ Stores' = Stores
      BY <2>3, Zenon DEF Covered, Stores, disk
    <3>2. \A x \in Owed' : x \in Pairs /\ (x = w \/ (x \in Owed /\ stage'[x] = stage[x]))
      BY <2>3, <2>6, Zenon DEF Owed, Unasked
    <3> QED
      BY <3>1, <3>2, Zenon
  <2>16. Kept'
    <3>1. \A x \in Owed' : stage'[x] = "acked" => x \in Covered /\ onQueue'[x] > 0
      BY <2>1, <2>3, <2>6, <2>15, Zenon DEF Kept
    <3> QED
      BY <2>15, <3>1, Zenon DEF Kept
  <2>17. Entered'
    <3>1. ASSUME NEW x \in entering'
          PROVE  /\ stage'[Pair(x)] = "sent" /\ onQueue'[Pair(x)] = 0
                 /\ x.at = "schedule" /\ Pair(x) \in Owed' => Pair(x) \in Covered
                 /\ x.op \notin OpsOf(Scheduled)
      <4>1. CASE x = e
        <5>1. e.op \notin OpsOf(Scheduled) /\ e.at # "schedule"
          BY <2>2, <2>4, Zenon DEF OpsOf
        <5> QED
          BY <2>3, <2>5, <2>6, <2>10, <4>1, <5>1, Zenon
      <4>2. CASE x \in entering
        <5>1. Pair(x) \in Pairs /\ Pair(x) # w
          BY <2>9, <4>2, Zenon DEF Recs, Working
        <5> QED
          BY <2>1, <2>3, <2>6, <2>15, <4>2, <5>1, Zenon DEF Entered
      <4> QED
        BY <2>3, <4>1, <4>2, Zenon
    <3>2. \A x, y \in entering' : Pair(x) = Pair(y) => x = y
      <4>1. \A x \in entering : Pair(x) # w
        BY <2>9, Zenon DEF Recs, Working
      <4> QED
        BY <2>1, <2>3, <2>5, <4>1, Zenon DEF Entered
    <3>3. \A d \in leaving : stage'[Pair(d)] \in {"asked", "done"}
      <4>1. \A d \in leaving : Pair(d) \in Pairs /\ Pair(d) # w /\ stage[Pair(d)] \in {"asked", "done"}
        BY <2>1, <2>9, Zenon DEF Recs, Entered
      <4> QED
        BY <2>6, <4>1, Zenon
    <3>4. OpsOf(Scheduled)' = OpsOf(Scheduled) /\ leaving' = leaving
      BY <2>3, <2>8, Zenon DEF OpsOf
    <3> QED
      BY <2>15, <3>1, <3>2, <3>3, <3>4, Zenon DEF Entered
  <2>18. Stored'
    <3>1. \A t \in storing \union Scheduled : Pair(t) \in Owed' => Pair(t) \in Owed
      <4>1. \A t \in storing \union Scheduled : Pair(t) # w
        BY <2>9, Zenon DEF Recs, Working
      <4> QED
        BY <2>15, <4>1, Zenon
    <3> QED
      BY <2>1, <2>3, <2>8, <2>15, <3>1, Zenon DEF Stored
  <2> QED
    BY <2>7, <2>11, <2>12, <2>13, <2>14, <2>16, <2>17, <2>18, Zenon DEF StoreInv

\* A call of enqueue takes its message from the fresh ones and adds none.
<1>LessFresh.
    ASSUME TypeOK, NEW m \in Msgs, NEW q \in Queues, NEW id, EnqueueBegin(m, q, id)
    PROVE  \A n \in Fresh' : n \in Fresh /\ n # m
  <2> USE <1>LessFresh
  <2> SUFFICES ASSUME NEW n \in Fresh' PROVE n \in Fresh /\ n # m
    BY Zenon
  <2>1. /\ stage \in [Pairs -> Stages] /\ <<m, q>> \in Pairs
        /\ stage' = [stage EXCEPT ![<<m, q>>] = "sent"]
    BY Zenon DEF TypeOK, Pairs, EnqueueBegin
  <2>2. n \in Msgs /\ \A p \in Queues : stage'[<<n, p>>] = "none"
    BY Zenon DEF Fresh
  <2>3. stage'[<<m, q>>] = "sent" /\ "sent" # "none"
    BY <2>1
  <2>4. n # m
    BY <2>2, <2>3, Zenon
  <2>5. ASSUME NEW p \in Queues PROVE stage[<<n, p>>] = "none"
    <3>1. <<n, p>> \in Pairs /\ <<n, p>> # <<m, q>>
      BY <2>2, <2>4 DEF Pairs
    <3> QED
      BY <2>1, <2>2, <3>1, Zenon
  <2> QED
    BY <2>2, <2>4, <2>5, Zenon DEF Fresh

\* A new message gets the next id, which is above all that are in use.
<1>EnqueueNewStep.
    ASSUME NEW m \in Msgs, NEW q \in Queues, EnqueueNew(m, q)
    PROVE  StoreInv'
  <2> USE <1>EnqueueNewStep
  <2>1. TypeOK /\ Named /\ Sent
    BY Zenon DEF StoreInv
  <2>2. /\ m \in Fresh /\ \A n \in Fresh : m <= n
        /\ nextId' = nextId + 1 /\ pid' = [pid EXCEPT ![m] = nextId]
        /\ EnqueueBegin(m, q, nextId) /\ dupMap' = dupMap
    BY Zenon DEF EnqueueNew
  <2>3. mode = "up" /\ mode' = "up"
    BY <2>2, Zenon DEF EnqueueBegin
  <2>4. /\ \A c \in Claims : c[1] \in Msgs /\ c[2] \in Msgs \ Fresh /\ c[1] <= c[2]
        /\ \A c \in Claims : pid[c[2]] # 0 /\ c[1] < nextId
        /\ nextId <= m
    BY <2>1, <2>2, <2>3, Zenon DEF Named
  <2>5. nextId \in Msgs /\ nextId' \in 1..(MaxMsgs + 1)
    <3>1. nextId \in 1..(MaxMsgs + 1)
      BY <2>1, Zenon DEF TypeOK
    <3> QED
      BY <2>2, <2>4, <3>1, Assumptions DEF Msgs
  <2>6. /\ pid' \in [Msgs -> 0..MaxMsgs] /\ dupMap' \subseteq Ops
        /\ \A n \in Msgs : pid'[n] = (IF n = m THEN nextId ELSE pid[n])
    <3>1. nextId \in 0..MaxMsgs
      BY <2>5, Assumptions DEF Msgs
    <3>2. pid \in [Msgs -> 0..MaxMsgs] /\ dupMap \subseteq Ops
      BY <2>1, Zenon DEF TypeOK
    <3> QED
      BY <2>2, <3>1, <3>2, Zenon
  <2>7. ASSUME NEW n \in Fresh' PROVE n \in Fresh /\ n # m /\ m < n
    <3>1. n \in Fresh /\ n # m
      BY <2>1, <2>2, <1>LessFresh, Zenon
    <3>2. m <= n /\ n \in Msgs
      BY <2>2, <3>1, Zenon DEF Fresh
    <3>3. m < n
      BY <3>1, <3>2, Assumptions DEF Msgs
    <3> QED
      BY <3>1, <3>3, Zenon
  <2>8. ASSUME NEW t \in Scheduled, t.op = <<nextId, q>> PROVE FALSE
    <3>1. <<t.op[1], t.msg>> \in Claims
      BY Zenon DEF Claims, Recs, Working
    <3>2. t.op[1] < nextId
      BY <2>4, <3>1
    <3> QED
      BY <2>5, <2>8, <3>2, Assumptions DEF Msgs
  <2>9. ASSUME Claims' \subseteq Claims \union {<<nextId, m>>} PROVE Named'
    <3>1. ASSUME NEW c \in Claims', NEW d \in Claims' PROVE c[1] = d[1] <=> c[2] = d[2]
      <4>1. ASSUME NEW a \in Claims PROVE a[1] # nextId /\ a[2] # m
        <5>1. a[1] \in Msgs /\ a[1] < nextId /\ a[2] \notin Fresh
          BY <2>4, Zenon
        <5> QED
          BY <2>2, <2>5, <5>1, Assumptions DEF Msgs
      <4>2. \A a, b \in Claims : a[1] = b[1] <=> a[2] = b[2]
        BY <2>1, Zenon DEF Named
      <4>3. <<nextId, m>>[1] = nextId /\ <<nextId, m>>[2] = m
        OBVIOUS
      <4> QED
        BY <2>9, <4>1, <4>2, <4>3, Zenon
    <3>2. ASSUME NEW c \in Claims'
          PROVE  /\ c[1] \in Msgs /\ c[2] \in Msgs \ Fresh' /\ c[1] <= c[2]
                 /\ pid'[c[2]] # 0 /\ c[1] < nextId'
      <4>1. CASE c \in Claims
        <5>1. /\ c[1] \in Msgs /\ c[2] \in Msgs \ Fresh /\ c[1] <= c[2]
              /\ pid[c[2]] # 0 /\ c[1] < nextId
          BY <2>4, <4>1, Zenon
        <5>2. c[2] \notin Fresh' /\ c[2] # m
          BY <2>2, <2>7, <5>1, Zenon
        <5>3. pid'[c[2]] # 0
          BY <2>6, <5>1, <5>2, Zenon
        <5>4. c[1] < nextId'
          BY <2>2, <2>5, <5>1, Assumptions DEF Msgs
        <5> QED
          BY <5>1, <5>2, <5>3, <5>4, Zenon
      <4>2. CASE c = <<nextId, m>>
        <5>1. c[1] = nextId /\ c[2] = m
          BY <4>2
        <5>2. m \notin Fresh'
          BY <2>7, Zenon
        <5>3. pid'[m] = nextId
          BY <2>6, Zenon
        <5>4. nextId # 0 /\ nextId < nextId'
          BY <2>2, <2>5, Assumptions DEF Msgs
        <5> QED
          BY <2>4, <2>5, <5>1, <5>2, <5>3, <5>4, Zenon
      <4> QED
        BY <2>9, <4>1, <4>2, Zenon
    <3>3. ASSUME NEW n \in Fresh' PROVE nextId' <= n
      <4>1. m < n /\ n \in Msgs
        BY <2>7, Zenon DEF Fresh
      <4> QED
        BY <2>2, <2>4, <2>5, <4>1, Assumptions DEF Msgs
    <3> QED
      BY <3>1, <3>2, <3>3, Zenon DEF Named
  <2>10. /\ \A n \in Fresh' : n \in Fresh /\ m < n
         /\ \A t \in Scheduled : t.op # <<nextId, q>>
         /\ Claims' \subseteq Claims \union {<<nextId, m>>} => Named'
    BY <2>7, <2>8, <2>9, Zenon
  <2> QED
    BY <2>2, <2>5, <2>6, <2>10, <1>EnqueueBeginStep, Zenon

\* A message that has its id is enqueued on one more queue.
<1>EnqueueAgainStep.
    ASSUME NEW m \in Msgs, NEW q \in Queues, EnqueueAgain(m, q)
    PROVE  StoreInv'
  <2> USE <1>EnqueueAgainStep
  <2>1. TypeOK /\ Named /\ Sent
    BY Zenon DEF StoreInv
  <2>2. /\ pid[m] # 0 /\ dupMap' = dupMap \union {<<pid[m], q>>}
        /\ EnqueueBegin(m, q, pid[m]) /\ nextId' = nextId /\ pid' = pid
    BY Zenon DEF EnqueueAgain
  <2>3. mode = "up" /\ mode' = "up" /\ stage[<<m, q>>] = "none"
    BY <2>2, Zenon DEF EnqueueBegin
  <2>4. pid[m] \in Msgs /\ <<pid[m], m>> \in Claims
    <3>1. pid[m] \in 0..MaxMsgs
      BY <2>1, Zenon DEF TypeOK
    <3> QED
      BY <2>2, <3>1, Assumptions DEF Msgs, Claims
  <2>5. m \notin Fresh
    BY <2>1, <2>4 DEF Named
  <2>6. /\ pid' \in [Msgs -> 0..MaxMsgs] /\ nextId' \in 1..(MaxMsgs + 1) /\ dupMap' \subseteq Ops
        /\ \A n \in Msgs : pid'[n] = (IF n = m THEN pid[m] ELSE pid[n])
    <3>1. \A n \in Msgs : n = m => pid[n] = pid[m]
      BY Zenon
    <3>2. <<pid[m], q>> \in Ops
      BY <2>4, Zenon DEF Ops
    <3>3. pid \in [Msgs -> 0..MaxMsgs] /\ nextId \in 1..(MaxMsgs + 1) /\ dupMap \subseteq Ops
      BY <2>1, Zenon DEF TypeOK
    <3> QED
      BY <2>2, <3>1, <3>2, <3>3, Zenon
  <2>7. \A n \in Fresh' : n \in Fresh /\ m < n
    BY <2>1, <2>2, <2>5, <1>LessFresh, Zenon DEF Sent
  <2>8. ASSUME NEW t \in Scheduled, t.op = <<pid[m], q>> PROVE FALSE
    <3>1. t \in Recs /\ <<t.op[1], t.msg>> \in Claims
      BY Zenon DEF Claims, Recs, Working
    <3>2. t.op[1] = pid[m] /\ t.op[2] = q
      BY <2>8
    <3>3. t.msg = m
      BY <2>1, <2>4, <3>1, <3>2 DEF Named
    <3>4. Pair(t) = <<m, q>>
      BY <3>2, <3>3, Zenon DEF Pair
    <3> QED
      BY <2>1, <2>3, <3>1, <3>4, Zenon DEF Sent
  <2>9. ASSUME Claims' \subseteq Claims \union {<<pid[m], m>>} PROVE Named'
    <3>1. Claims' \subseteq Claims
      BY <2>4, <2>9, Zenon
    <3>2. \A c, d \in Claims' : c[1] = d[1] <=> c[2] = d[2]
      BY <2>1, <3>1, Zenon DEF Named
    <3>3. \A c \in Claims' : /\ c[1] \in Msgs /\ c[2] \in Msgs \ Fresh' /\ c[1] <= c[2]
                             /\ pid'[c[2]] # 0 /\ c[1] < nextId'
      BY <2>1, <2>2, <2>3, <2>7, <3>1, Zenon DEF Named
    <3>4. \A n \in Fresh' : nextId' <= n
      BY <2>1, <2>2, <2>3, <2>7, Zenon DEF Named
    <3> QED
      BY <3>2, <3>3, <3>4, Zenon DEF Named
  <2>10. /\ \A t \in Scheduled : t.op # <<pid[m], q>>
         /\ Claims' \subseteq Claims \union {<<pid[m], m>>} => Named'
    BY <2>8, <2>9, Zenon
  <2> QED
    BY <2>2, <2>4, <2>6, <2>7, <2>10, <1>EnqueueBeginStep, Zenon

(***************************************************************************)
(* dequeue() is called: the message is no longer owed, and its insertion,  *)
(* if it has not begun, need not take place.                               *)
(***************************************************************************)
<1>DequeueBeginStep.
    ASSUME NEW w \in Pairs, DequeueBegin(w)
    PROVE  StoreInv'
  <2> USE <1>DequeueBeginStep
  <2>1. TypeOK /\ Named /\ Sent /\ Phases /\ Kept /\ Entered /\ Stored
    BY Zenon DEF StoreInv
  <2>2. PICK op, d : /\ op = <<pid[w[1]], w[2]>>
                     /\ d = [op |-> op, msg |-> w[1], exec |-> ~(Smart /\ op \in pendMap)]
    BY Zenon
  <2>3. /\ mode = "up" /\ onQueue[w] > 0
        /\ onQueue' = [onQueue EXCEPT ![w] = @ - 1]
        /\ stage' = [stage EXCEPT ![w] = IF @ = "done" THEN @ ELSE "asked"]
        /\ pendMap' = pendMap \ {op} /\ leaving' = leaving \union {d}
        /\ UNCHANGED <<nextId, lastPid, gapPidSet, dupMap, entering, enqPool, storing, deleting, pid,
                       disk, mode, recovery, victims, escapes, crashes>>
    BY <2>2, Zenon DEF DequeueBegin
  <2>4. /\ w[1] \in Msgs /\ w[2] \in Queues /\ w = <<w[1], w[2]>> /\ pid[w[1]] # 0 /\ stage[w] # "none"
        /\ pid[w[1]] \in Msgs
    <3>1. w[1] \in Msgs /\ w[2] \in Queues /\ w = <<w[1], w[2]>>
      BY DEF Pairs
    <3>2. pid[w[1]] # 0 /\ stage[w] # "none"
      BY <2>1, <2>3, Zenon DEF Sent
    <3>3. pid[w[1]] \in 0..MaxMsgs
      BY <2>1, <3>1, Zenon DEF TypeOK
    <3>4. pid[w[1]] \in Msgs
      BY <3>2, <3>3, Assumptions DEF Msgs
    <3> QED
      BY <3>1, <3>2, <3>4, Zenon
  <2>5. op \in Ops /\ op[1] = pid[w[1]] /\ op[2] = w[2]
    BY <2>2, <2>4 DEF Ops
  <2>6. /\ d \in [op : Ops, msg : Msgs, exec : BOOLEAN] /\ d.op = op /\ d.msg = w[1] /\ Pair(d) = w
    <3>1. \A b \in BOOLEAN :
              /\ [op |-> op, msg |-> w[1], exec |-> b].op = op
              /\ [op |-> op, msg |-> w[1], exec |-> b].msg = w[1]
              /\ [op |-> op, msg |-> w[1], exec |-> b] \in [op : Ops, msg : Msgs, exec : BOOLEAN]
      BY <2>4, <2>5
    <3>2. \E b \in BOOLEAN : d = [op |-> op, msg |-> w[1], exec |-> b]
      <4>1. CASE Smart /\ op \in pendMap
        BY <2>2, <4>1, Zenon
      <4>2. CASE ~(Smart /\ op \in pendMap)
        BY <2>2, <4>2, Zenon
      <4> QED
        BY <4>1, <4>2, Zenon
    <3>3. d \in [op : Ops, msg : Msgs, exec : BOOLEAN] /\ d.op = op /\ d.msg = w[1]
      BY <3>1, <3>2, Zenon
    <3> QED
      BY <2>4, <2>5, <3>3, Zenon DEF Pair
  <2>7. /\ stage'[w] \in {"asked", "done"}
        /\ \A x \in Pairs : x # w => stage'[x] = stage[x] /\ onQueue'[x] = onQueue[x]
        /\ stage' \in [Pairs -> Stages] /\ onQueue' \in [Pairs -> Nat]
    <3>1. /\ stage \in [Pairs -> Stages] /\ onQueue \in [Pairs -> Nat]
          /\ "asked" \in Stages /\ "done" \in Stages
      BY <2>1, Zenon DEF TypeOK, Stages
    <3>2. onQueue[w] - 1 \in Nat
      <4>1. onQueue[w] \in Nat
        BY <3>1, Zenon
      <4> QED
        BY <2>3, <4>1
    <3> QED
      BY <2>3, <3>1, <3>2, Zenon
  <2>8. TypeOK'
    <3>1. pendMap' \subseteq Ops
      BY <2>1, <2>3, Zenon DEF TypeOK
    <3>2. leaving' \subseteq [op : Ops, msg : Msgs, exec : BOOLEAN]
      BY <2>1, <2>3, <2>6, Zenon DEF TypeOK
    <3> QED
      BY <2>1, <2>3, <2>7, <3>1, <3>2, Zenon DEF TypeOK, disk, recovery, escapes
  <2>9. Recs' \subseteq Recs \union {d} /\ Scheduled' = Scheduled
    BY <2>3, Zenon DEF Recs, Working, Scheduled, disk, recovery
  <2>10. SameNone
    BY <2>4, <2>7, Zenon DEF SameNone
  <2>11. <<pid[w[1]], w[1]>> \in Claims
    BY <2>4, Zenon DEF Claims
  <2>12. Claims' \subseteq Claims
    <3>1. \A r \in Recs' : <<r.op[1], r.msg>> \in Claims
      <4>1. <<d.op[1], d.msg>> \in Claims
        BY <2>5, <2>6, <2>11, Zenon
      <4>2. \A r \in Recs : <<r.op[1], r.msg>> \in Claims
        BY Zenon DEF Claims
      <4> QED
        BY <2>9, <4>1, <4>2, Zenon
    <3>2. \A m \in Msgs : pid'[m] # 0 => <<pid'[m], m>> \in Claims
      BY <2>3, Zenon DEF Claims
    <3> QED
      BY <3>1, <3>2, <1>ClaimsIn, Zenon
  <2>13. Named' /\ Sent' /\ Phases' /\ Recovering' /\ Found'
    <3>1. \A r \in Recs' : stage'[Pair(r)] # "none"
      <4>1. \A r \in Recs : Pair(r) \in Pairs /\ stage[Pair(r)] # "none"
        BY <2>1, RecsTyped, Zenon DEF Sent
      <4> QED
        BY <2>6, <2>7, <2>9, <4>1, Zenon
    <3>2. \A x \in Pairs : onQueue'[x] > 0 => pid[x[1]] # 0 /\ stage[x] # "none"
      BY <2>1, <2>4, <2>7, Zenon DEF Sent
    <3> QED
      BY <2>3, <2>10, <2>12, <3>1, <3>2, <1>UpFrame, Zenon
  <2>14. w \notin Owed' /\ Owed' \subseteq Owed /\ Covered' = Covered /\ Stores' = Stores
    <3>1. Unasked' \subseteq Unasked /\ w \notin Unasked'
      BY <2>7, Zenon DEF Unasked
    <3> QED
      BY <2>3, <3>1, Zenon DEF Owed, Covered, Stores, disk
  <2>15. Kept'
    <3>1. ASSUME NEW x \in Owed', stage'[x] = "acked"
          PROVE  x \in Covered /\ onQueue'[x] > 0
      <4>1. x \in Pairs /\ x # w /\ x \in Owed
        BY <2>14, Zenon DEF Owed, Unasked
      <4> QED
        BY <2>1, <2>3, <2>7, <3>1, <4>1, Zenon DEF Kept
    <3> QED
      BY <2>14, <3>1, Zenon DEF Kept
  <2>16. Entered'
    <3>1. ASSUME NEW e \in entering
          PROVE  /\ stage'[Pair(e)] = "sent" /\ onQueue'[Pair(e)] = 0
                 /\ e.at = "schedule" /\ Pair(e) \in Owed' => Pair(e) \in Covered
                 /\ e.op \notin OpsOf(Scheduled)
      <4>1. Pair(e) \in Pairs
        BY <2>1, RecsTyped, Zenon DEF Recs, Working
      <4>2. onQueue[Pair(e)] = 0
        BY <2>1, Zenon DEF Entered
      <4>3. Pair(e) # w
        BY <2>3, <4>2
      <4> QED
        BY <2>1, <2>7, <2>14, <4>1, <4>3, Zenon DEF Entered
    <3>2. \A x \in leaving' : stage'[Pair(x)] \in {"asked", "done"}
      <4>1. \A x \in leaving : Pair(x) \in Pairs /\ stage[Pair(x)] \in {"asked", "done"}
        BY <2>1, RecsTyped, Zenon DEF Entered, Recs
      <4> QED
        BY <2>3, <2>6, <2>7, <4>1, Zenon
    <3> QED
      BY <2>1, <2>3, <2>9, <2>14, <3>1, <3>2, Zenon DEF Entered, OpsOf
  <2>17. Stored'
    <3>1. ASSUME NEW t \in Scheduled, Smart, t.op \notin pendMap' PROVE Pair(t) \notin Owed'
      <4>1. CASE t.op = op
        <5>1. t \in Recs
          BY Zenon DEF Recs, Working
        <5>2. <<t.op[1], t.msg>> \in Claims
          BY <5>1, Zenon DEF Claims
        <5>3. t.msg = w[1]
          BY <2>1, <2>5, <2>11, <4>1, <5>2 DEF Named
        <5>4. Pair(t) = w
          BY <2>4, <2>5, <4>1, <5>3, Zenon DEF Pair
        <5> QED
          BY <2>14, <5>4, Zenon
      <4>2. CASE t.op # op
        BY <2>1, <2>3, <2>14, <3>1, <4>2, Zenon DEF Stored
      <4> QED
        BY <4>1, <4>2, Zenon
    <3>2. \A t \in storing : t.at # "put" /\ Pair(t) \in Owed' => Pair(t) \in Stores
      BY <2>1, <2>14, Zenon DEF Stored
    <3> QED
      BY <2>1, <2>3, <2>9, <2>14, <3>1, <3>2, Zenon DEF Stored
  <2> QED
    BY <2>8, <2>13, <2>15, <2>16, <2>17, Zenon DEF StoreInv

(***************************************************************************)
(* dequeue() returns: either its deletion is logged and scheduled, or the  *)
(* enqueue is closed in the log, whose message is no longer owed.          *)
(***************************************************************************)
<1>DequeueEndStep.
    ASSUME NEW d \in leaving, DequeueEnd(d)
    PROVE  StoreInv'
  <2> USE <1>DequeueEndStep
  <2>1. TypeOK /\ Named /\ Sent /\ Phases /\ Kept /\ Entered /\ Stored
    BY Zenon DEF StoreInv
  <2>2. mode = "up"
    BY <2>1, Zenon DEF Phases
  <2>3. PICK g : g = [op |-> d.op, msg |-> d.msg, at |-> "wait"]
    BY Zenon
  <2>4. /\ d \in Recs /\ d.op \in Ops /\ Pair(d) \in Pairs /\ stage[Pair(d)] \in {"asked", "done"}
        /\ Pair(d) \notin Owed
        /\ g \in [op : Ops, msg : Msgs \union {NoMsg}, at : {"wait", "log"}]
    <3>1. d \in Recs /\ d.op \in Ops /\ d.msg \in Msgs /\ Pair(d) \in Pairs
      BY <2>1, RecsTyped, Zenon DEF Recs
    <3>2. stage[Pair(d)] \in {"asked", "done"}
      BY <2>1, Zenon DEF Entered
    <3>3. Pair(d) \notin Owed
      BY <3>2, Zenon DEF Owed, Unasked
    <3>4. g \in [op : Ops, msg : Msgs \union {NoMsg}, at : {"wait", "log"}]
      BY <2>3, <3>1
    <3> QED
      BY <3>1, <3>2, <3>3, <3>4, Zenon
  <2>5. /\ leaving' = leaving \ {d}
        /\ stage' = [stage EXCEPT ![Pair(d)] = "done"]
        /\ \/ enqLog' = enqLog /\ deqLog' = deqLog \union {d.op} /\ deleting' = deleting \union {g}
           \/ enqLog' = Without(enqLog, {d.op}) /\ deqLog' = deqLog /\ deleting' = deleting
        /\ UNCHANGED <<ids, entering, enqPool, storing, broker, db, mode, recovery, victims, escapes, crashes>>
    BY <2>3, Zenon DEF DequeueEnd, LogDequeueStart
  <2>6. /\ enqLog' \subseteq enqLog
        /\ \A r \in enqLog : r \in enqLog' \/ Pair(r) = Pair(d)
    <3>1. \A r \in enqLog : r.op = d.op => Pair(r) = Pair(d)
      BY <2>1, <2>4, SameOp, Zenon DEF Recs
    <3> QED
      BY <2>5, <3>1, Zenon DEF Without
  <2>7. /\ stage'[Pair(d)] = "done" /\ stage' \in [Pairs -> Stages]
        /\ \A x \in Pairs : x # Pair(d) => stage'[x] = stage[x]
    BY <2>1, <2>4, <2>5, Zenon DEF TypeOK, Stages
  <2>8. TypeOK'
    <3>1. /\ deqLog' \subseteq Ops /\ enqLog' \subseteq Tasks
          /\ deleting' \subseteq [op : Ops, msg : Msgs \union {NoMsg}, at : {"wait", "log"}]
          /\ leaving' \subseteq [op : Ops, msg : Msgs, exec : BOOLEAN]
      BY <2>1, <2>4, <2>5, <2>6, Zenon DEF TypeOK
    <3> QED
      BY <2>1, <2>5, <2>7, <3>1, Zenon DEF TypeOK, ids, broker, recovery, escapes
  <2>9. Scheduled' = Scheduled /\ Recs' \subseteq Recs
    BY <2>5, <2>6, Zenon DEF Recs, Working, Scheduled, recovery
  <2>10. Named' /\ Sent' /\ Phases' /\ Recovering' /\ Found'
    <3>1. Moved
      BY <2>9, Zenon DEF Moved
    <3>2. SameNone
      BY <2>4, <2>7, Zenon DEF SameNone
    <3>3. \A x \in Pairs : onQueue'[x] > 0 => pid[x[1]] # 0 /\ stage[x] # "none"
      BY <2>1, <2>5, Zenon DEF Sent, broker
    <3> QED
      BY <2>2, <2>5, <3>1, <3>2, <3>3, <1>UpStep, Zenon DEF ids, broker
  <2>11. Owed' = Owed /\ Stores' = Stores
    <3>1. Unasked' = Unasked
      BY <2>4, <2>7, Zenon DEF Unasked
    <3> QED
      BY <2>5, <3>1, Zenon DEF Owed, Stores
  <2>12. \A x \in Owed : x \in Covered => x \in Covered'
    BY <2>4, <2>5, <2>6, Zenon DEF Covered
  <2>13. Kept'
    <3>1. \A x \in Owed : stage'[x] = stage[x]
      BY <2>4, <2>7, Zenon DEF Owed, Unasked
    <3>2. \A x \in Owed : stage'[x] = "acked" => x \in Covered' /\ onQueue'[x] > 0
      BY <2>1, <2>2, <2>5, <2>12, <3>1, Zenon DEF Kept, broker
    <3> QED
      BY <2>11, <3>2, Zenon DEF Kept
  <2>14. Entered'
    <3>1. ASSUME NEW e \in entering
          PROVE  /\ stage'[Pair(e)] = "sent" /\ onQueue'[Pair(e)] = 0
                 /\ e.at = "schedule" /\ Pair(e) \in Owed => Pair(e) \in Covered'
                 /\ e.op \notin OpsOf(Scheduled)
      <4>1. Pair(e) \in Pairs
        BY <2>1, RecsTyped, Zenon DEF Recs, Working
      <4>2. Pair(e) # Pair(d)
        BY <2>1, <2>4, Zenon DEF Entered
      <4> QED
        BY <2>1, <2>5, <2>7, <2>12, <4>1, <4>2, Zenon DEF Entered, broker
    <3>2. \A x \in leaving' : stage'[Pair(x)] \in {"asked", "done"}
      <4>1. \A x \in leaving : Pair(x) \in Pairs /\ stage[Pair(x)] \in {"asked", "done"}
        BY <2>1, RecsTyped, Zenon DEF Entered, Recs
      <4> QED
        BY <2>5, <2>7, <4>1, Zenon
    <3> QED
      BY <2>1, <2>5, <2>9, <2>11, <3>1, <3>2, Zenon DEF Entered, OpsOf
  <2>15. Stored'
    BY <2>1, <2>5, <2>9, <2>11, Zenon DEF Stored, ids
  <2> QED
    BY <2>8, <2>10, <2>13, <2>14, <2>15, Zenon DEF StoreInv

(***************************************************************************)
(* What is left to show for a step of a task: which tasks and records it   *)
(* leaves, and that no copy of a message still owed is lost.               *)
(***************************************************************************)
<1>TaskStep.
    ASSUME mode = "up", TypeOK', Moved, Owed' \subseteq Owed,
           UNCHANGED <<mode, nextId, broker, recovery, stage, entering, leaving>>,
           \A x \in Owed' : (x \in Covered => x \in Covered') /\ (x \in Stores => x \in Stores'),
           Scheduled' \subseteq Scheduled,
           \A i, j \in DOMAIN enqPool' : enqPool'[i].op = enqPool'[j].op => i = j,
           Smart => \A t \in Scheduled' : t.op \in pendMap' \/ t.op \notin pendMap,
           \A t \in storing' : t \in storing \/ (t.at # "put" /\ Pair(t) \in Owed' => Pair(t) \in Stores')
    PROVE  StoreInv'
  <2> USE <1>TaskStep
  <2>1. TypeOK /\ Named /\ Sent /\ Phases /\ Kept /\ Entered /\ Stored
    BY Zenon DEF StoreInv
  <2>2. Named' /\ Sent' /\ Phases' /\ Recovering' /\ Found'
    <3>1. SameNone
      BY Zenon DEF SameNone
    <3>2. \A x \in Pairs : onQueue'[x] > 0 => pid[x[1]] # 0 /\ stage[x] # "none"
      BY <2>1, Zenon DEF Sent, broker
    <3> QED
      BY <3>1, <3>2, <1>UpStep, Zenon DEF broker
  <2>3. Kept'
    <3>1. \A x \in Owed' : stage'[x] = "acked" => x \in Covered' /\ onQueue'[x] > 0
      BY <2>1, Zenon DEF Kept, broker
    <3> QED
      BY <3>1, Zenon DEF Kept
  <2>4. Entered'
    <3>1. ASSUME NEW e \in entering
          PROVE  /\ stage'[Pair(e)] = "sent" /\ onQueue'[Pair(e)] = 0
                 /\ e.at = "schedule" /\ Pair(e) \in Owed' => Pair(e) \in Covered'
                 /\ e.op \notin OpsOf(Scheduled')
      <4>1. /\ stage[Pair(e)] = "sent" /\ onQueue[Pair(e)] = 0
            /\ e.at = "schedule" /\ Pair(e) \in Owed => Pair(e) \in Covered
            /\ e.op \notin OpsOf(Scheduled)
        BY <2>1, Zenon DEF Entered
      <4>2. e.op \notin OpsOf(Scheduled')
        BY <4>1, Zenon DEF OpsOf
      <4> QED
        BY <4>1, <4>2, Zenon DEF broker
    <3>2. /\ \A e, f \in entering : Pair(e) = Pair(f) => e = f
          /\ \A x \in leaving : stage'[Pair(x)] \in {"asked", "done"}
      BY <2>1, Zenon DEF Entered
    <3> QED
      BY <3>1, <3>2, Zenon DEF Entered, OpsOf
  <2>5. Stored'
    <3>1. \A t \in storing' : t.at # "put" /\ Pair(t) \in Owed' => Pair(t) \in Stores'
      BY <2>1, Zenon DEF Stored
    <3>2. Smart => \A t \in Scheduled' : t.op \in pendMap' \/ Pair(t) \notin Owed'
      BY <2>1, Zenon DEF Stored
    <3> QED
      BY <3>1, <3>2, Zenon DEF Stored
  <2> QED
    BY <2>2, <2>3, <2>4, <2>5, Zenon DEF StoreInv

\* A worker takes a task: it is told not to insert what is no longer owed.
<1>TakeStoreStep.
    ASSUME TakeStore
    PROVE  StoreInv'
  <2> USE <1>TakeStoreStep
  <2>1. TypeOK /\ Named /\ Sent /\ Phases /\ Stored
    BY Zenon DEF StoreInv
  <2>2. mode = "up"
    BY <2>1, Zenon DEF Phases, TakeStore
  <2>3. PICK t, at, s : /\ t = Head(enqPool) /\ at = (IF Smart => t.op \in pendMap THEN "put" ELSE "log")
                        /\ s = [op |-> t.op, msg |-> t.msg, at |-> at]
    BY Zenon
  <2>4. /\ enqPool # <<>> /\ enqPool' = Tail(enqPool)
        /\ storing' = storing \union {s} /\ pendMap' = pendMap \ {t.op}
        /\ UNCHANGED <<nextId, lastPid, gapPidSet, dupMap, entering, leaving, deleting, broker, disk, mode,
                       recovery, stage, victims, escapes, crashes>>
    BY <2>3, Zenon DEF TakeStore
  <2>5. /\ enqPool' \in Seq(Tasks) /\ 1 \in DOMAIN enqPool /\ t = enqPool[1]
        /\ \A i \in DOMAIN enqPool' : /\ i + 1 \in DOMAIN enqPool /\ i + 1 # 1
                                      /\ enqPool'[i] = enqPool[i + 1]
        /\ \A i, j \in DOMAIN enqPool' : i + 1 = j + 1 => i = j
    <3>1. enqPool \in Seq(Tasks)
      BY <2>1, Zenon DEF TypeOK
    <3> QED
      BY <2>3, <2>4, <3>1
  <2>6. t \in Scheduled /\ t \in Recs /\ t.op \in Ops /\ t.msg \in Msgs
    <3>1. t \in Scheduled
      BY <2>5, Zenon DEF Scheduled
    <3> QED
      BY <2>1, <3>1, RecsTyped, Zenon DEF Recs, Working
  <2>7. /\ s.op = t.op /\ s.msg = t.msg /\ s.at = at
        /\ s \in [op : Ops, msg : Msgs, at : {"put", "log", "add"}]
    <3>1. at \in {"put", "log", "add"}
      BY <2>3, Zenon
    <3> QED
      BY <2>3, <2>6, <3>1
  <2>8. TypeOK'
    BY <2>1, <2>4, <2>5, <2>7, Zenon DEF TypeOK, broker, disk, recovery, escapes
  <2>9. \A u \in Scheduled' : u \in Scheduled /\ u.op # t.op
    <3>1. ASSUME NEW u \in Scheduled' PROVE u \in Scheduled /\ u.op # t.op
      <4>1. PICK i \in DOMAIN enqPool' : u = enqPool'[i]
        BY Zenon DEF Scheduled
      <4>2. i + 1 \in DOMAIN enqPool /\ i + 1 # 1 /\ u = enqPool[i + 1]
        BY <2>5, <4>1, Zenon
      <4> QED
        BY <2>1, <2>5, <4>2, Zenon DEF Scheduled, Stored
    <3> QED
      BY <3>1, Zenon
  <2>10. Moved
    <3>1. Recs' \subseteq Recs \union {s}
      BY <2>4, <2>9, Zenon DEF Recs, Working, disk, recovery
    <3> QED
      BY <2>6, <2>7, <3>1, Zenon DEF Moved
  <2>11. Owed' = Owed /\ Covered' = Covered /\ Stores' = Stores
    BY <2>4, Zenon DEF Owed, Unasked, Covered, Stores, disk
  <2>12. ASSUME NEW i \in DOMAIN enqPool', NEW j \in DOMAIN enqPool', enqPool'[i].op = enqPool'[j].op
         PROVE  i = j
    <3>1. /\ i + 1 \in DOMAIN enqPool /\ enqPool'[i] = enqPool[i + 1]
          /\ j + 1 \in DOMAIN enqPool /\ enqPool'[j] = enqPool[j + 1]
      BY <2>5, Zenon
    <3>2. i + 1 = j + 1
      BY <2>1, <2>12, <3>1, Zenon DEF Stored
    <3> QED
      BY <2>5, <3>2, Zenon
  <2>13. s.at # "put" => Pair(s) \notin Owed
    <3>1. s.at # "put" => Smart /\ t.op \notin pendMap
      BY <2>3, <2>7, Zenon
    <3> QED
      BY <2>1, <2>6, <2>7, <3>1, Zenon DEF Stored, Pair
  <2> QED
    BY <2>2, <2>4, <2>8, <2>9, <2>10, <2>11, <2>12, <2>13, <1>TaskStep, Zenon

\* enqueue_data: the message is in the database, its own or an equal record.
<1>PutStep.
    ASSUME NEW t \in storing, Put(t)
    PROVE  StoreInv'
  <2> USE <1>PutStep
  <2>1. TypeOK /\ Named /\ Sent /\ Phases /\ Stored
    BY Zenon DEF StoreInv
  <2>2. mode = "up"
    BY <2>1, Zenon DEF Phases, Working
  <2>3. PICK s, g : s = [t EXCEPT !.at = "log"] /\ g = [op |-> t.op, msg |-> t.msg]
    BY Zenon
  <2>4. /\ storing' = (storing \ {t}) \union {s}
        /\ db' = (IF t.op \in OpsOf(db) THEN db ELSE db \union {g})
        /\ UNCHANGED <<ids, entering, leaving, enqPool, deleting, broker, enqLog, deqLog, mode, recovery,
                       stage, victims, escapes, crashes>>
    BY <2>3, Zenon DEF Put, StoreGoto
  <2>5. /\ s.op = t.op /\ s.msg = t.msg /\ g.op = t.op /\ g.msg = t.msg /\ g \in Tasks
        /\ s \in [op : Ops, msg : Msgs, at : {"put", "log", "add"}]
    BY <2>1, <2>3, Zenon DEF TypeOK, Tasks
  <2>6. TypeOK'
    <3>1. db' \subseteq Tasks /\ storing' \subseteq [op : Ops, msg : Msgs, at : {"put", "log", "add"}]
      BY <2>1, <2>4, <2>5, Zenon DEF TypeOK
    <3> QED
      BY <2>1, <2>4, <3>1, Zenon DEF TypeOK, ids, broker, recovery, escapes
  <2>7. db \subseteq db' /\ db' \subseteq db \union {g} /\ Pair(t) \in Stores' /\ Pair(s) = Pair(t)
    <3>1. db \subseteq db' /\ db' \subseteq db \union {g} /\ Pair(s) = Pair(t) /\ Pair(g) = Pair(t)
      BY <2>4, <2>5, Zenon DEF Pair
    <3>2. CASE t.op \in OpsOf(db)
      <4>1. PICK r \in db : r.op = t.op
        BY <3>2, Zenon DEF OpsOf
      <4>2. Pair(r) = Pair(t)
        BY <2>1, <4>1, SameOp, Zenon DEF Recs, Working
      <4> QED
        BY <3>1, <4>2, Zenon DEF Stores
    <3>3. CASE t.op \notin OpsOf(db)
      BY <2>4, <3>1, <3>3, Zenon DEF Stores
    <3> QED
      BY <3>1, <3>2, <3>3, Zenon
  <2>8. Scheduled' = Scheduled
    BY <2>4, Zenon DEF Scheduled
  <2>9. Moved
    <3>1. Recs' \subseteq Recs \union {s, g} /\ t \in Recs
      BY <2>4, <2>7, <2>8, Zenon DEF Recs, Working, recovery
    <3> QED
      BY <2>5, <3>1, Zenon DEF Moved
  <2>10. Owed' = Owed /\ Covered \subseteq Covered' /\ Stores \subseteq Stores'
    BY <2>4, <2>7, Zenon DEF Owed, Unasked, Covered, Stores
  <2>11. /\ \A i, j \in DOMAIN enqPool' : enqPool'[i].op = enqPool'[j].op => i = j
         /\ nextId' = nextId /\ pendMap' = pendMap
    BY <2>1, <2>4, Zenon DEF Stored, ids
  <2>12. \A u \in storing' : u \in storing \/ (u.at # "put" /\ Pair(u) \in Owed' => Pair(u) \in Stores')
    BY <2>4, <2>7, Zenon
  <2> QED
    BY <2>2, <2>4, <2>6, <2>8, <2>9, <2>10, <2>11, <2>12, <1>TaskStep, Zenon

\* The completion is logged of what is in the database, or not owed.
<1>StoreLogStep.
    ASSUME NEW t \in storing, StoreLog(t)
    PROVE  StoreInv'
  <2> USE <1>StoreLogStep
  <2>1. TypeOK /\ Named /\ Sent /\ Phases /\ Stored
    BY Zenon DEF StoreInv
  <2>2. mode = "up"
    BY <2>1, Zenon DEF Phases, Working
  <2>3. PICK s : s = [t EXCEPT !.at = "add"]
    BY Zenon
  <2>4. /\ storing' = (storing \ {t}) \union {s} /\ enqLog' = Without(enqLog, {t.op}) /\ t.at = "log"
        /\ UNCHANGED <<ids, entering, leaving, enqPool, deleting, broker, db, deqLog, mode, recovery,
                       stage, victims, escapes, crashes>>
    BY <2>3, Zenon DEF StoreLog, StoreGoto
  <2>5. /\ s.op = t.op /\ s.msg = t.msg
        /\ s \in [op : Ops, msg : Msgs, at : {"put", "log", "add"}]
    BY <2>1, <2>3, Zenon DEF TypeOK
  <2>6. TypeOK'
    <3>1. enqLog' \subseteq Tasks /\ storing' \subseteq [op : Ops, msg : Msgs, at : {"put", "log", "add"}]
      BY <2>1, <2>4, <2>5, Zenon DEF TypeOK, Without
    <3> QED
      BY <2>1, <2>4, <3>1, Zenon DEF TypeOK, ids, broker, recovery, escapes
  <2>7. Scheduled' = Scheduled
    BY <2>4, Zenon DEF Scheduled
  <2>8. Moved
    <3>1. Recs' \subseteq Recs \union {s} /\ t \in Recs
      BY <2>4, <2>7, Zenon DEF Recs, Working, recovery, Without
    <3> QED
      BY <2>5, <3>1, Zenon DEF Moved
  <2>9. Owed' = Owed /\ Stores' = Stores /\ Pair(s) = Pair(t) /\ (Pair(t) \in Owed => Pair(t) \in Stores)
    <3>1. Owed' = Owed /\ Stores' = Stores /\ Pair(s) = Pair(t)
      BY <2>4, <2>5, Zenon DEF Owed, Unasked, Stores, Pair
    <3>2. t.at # "put"
      BY <2>4
    <3> QED
      BY <2>1, <3>1, <3>2, Zenon DEF Stored
  <2>10. \A x \in Owed : x \in Covered => x \in Covered'
    <3>1. ASSUME NEW x \in Owed, x \in Covered PROVE x \in Covered'
      <4>1. PICK r \in db \union enqLog : x = Pair(r)
        BY <3>1, Zenon DEF Covered
      <4>2. CASE r \in db \/ r.op # t.op
        BY <2>4, <4>1, <4>2, Zenon DEF Covered, Without
      <4>3. CASE r \in enqLog /\ r.op = t.op
        <5>1. Pair(r) = Pair(t)
          BY <2>1, <4>3, SameOp, Zenon DEF Recs, Working
        <5>2. x \in Stores
          BY <2>9, <3>1, <4>1, <5>1, Zenon
        <5> QED
          BY <2>4, <5>2, Zenon DEF Stores, Covered
      <4> QED
        BY <4>1, <4>2, <4>3, Zenon
    <3> QED
      BY <3>1, Zenon
  <2>11. /\ \A i, j \in DOMAIN enqPool' : enqPool'[i].op = enqPool'[j].op => i = j
         /\ nextId' = nextId /\ pendMap' = pendMap
    BY <2>1, <2>4, Zenon DEF Stored, ids
  <2>12. \A u \in storing' : u \in storing \/ (u.at # "put" /\ Pair(u) \in Owed' => Pair(u) \in Stores')
    BY <2>4, <2>9, Zenon
  <2> QED
    BY <2>2, <2>4, <2>6, <2>7, <2>8, <2>9, <2>10, <2>11, <2>12, <1>TaskStep, Zenon

\* The id is reported to the tracker.
<1>StoreAddStep.
    ASSUME NEW t \in storing, StoreAdd(t)
    PROVE  StoreInv'
  <2> USE <1>StoreAddStep
  <2>1. TypeOK /\ Named /\ Sent /\ Phases /\ Stored
    BY Zenon DEF StoreInv
  <2>2. mode = "up"
    BY <2>1, Zenon DEF Phases, Working
  <2>3. /\ storing' = storing \ {t} /\ dupMap' = dupMap \ {t.op}
        /\ UNCHANGED <<nextId, pendMap, entering, leaving, enqPool, deleting, broker, disk, mode, recovery,
                       stage, victims, escapes, crashes>>
    BY Zenon DEF StoreAdd
  <2>4. lastPid' \in 0..MaxMsgs /\ gapPidSet' \subseteq Msgs
    <3>1. t.op[1] \in Msgs /\ lastPid \in 0..MaxMsgs /\ gapPidSet \subseteq Msgs
      BY <2>1, RecsTyped, Zenon DEF Recs, Working, TypeOK
    <3>2. /\ AddPid(lastPid, gapPidSet, t.op[1]).last \in 0..MaxMsgs
          /\ AddPid(lastPid, gapPidSet, t.op[1]).gap \subseteq Msgs
      BY <3>1, AddPidTyped, Zenon
    <3> QED
      BY <3>1, <3>2, Zenon DEF StoreAdd
  <2>5. TypeOK'
    BY <2>1, <2>3, <2>4, Zenon DEF TypeOK, broker, disk, recovery, escapes
  <2>6. Scheduled' = Scheduled /\ Owed' = Owed /\ Covered' = Covered /\ Stores' = Stores
    BY <2>3, Zenon DEF Scheduled, Owed, Unasked, Covered, Stores, disk
  <2>7. Moved
    <3>1. Recs' \subseteq Recs
      BY <2>3, <2>6, Zenon DEF Recs, Working, recovery, disk
    <3> QED
      BY <3>1, Zenon DEF Moved
  <2>8. \A i, j \in DOMAIN enqPool' : enqPool'[i].op = enqPool'[j].op => i = j
    BY <2>1, <2>3, Zenon DEF Stored
  <2> QED
    BY <2>2, <2>3, <2>5, <2>6, <2>7, <2>8, <1>TaskStep, Zenon

(***************************************************************************)
(* async_dequeue() deletes: what it drops of another message it does to a  *)
(* victim.                                                                 *)
(***************************************************************************)
<1>RemoveMsgStep.
    ASSUME NEW d \in deleting, RemoveMsg(d)
    PROVE  StoreInv'
  <2> USE <1>RemoveMsgStep
  <2>1. TypeOK /\ Named /\ Sent /\ Phases /\ Stored
    BY Zenon DEF StoreInv
  <2>2. mode = "up"
    BY <2>1, Zenon DEF Phases
  <2>3. PICK g, gone : g = [d EXCEPT !.at = "log"] /\ gone = {r \in db : r.op = d.op}
    BY Zenon
  <2>4. /\ db' = db \ gone /\ deleting' = (deleting \ {d}) \union {g}
        /\ victims' = victims \union {Pair(r) : r \in {h \in gone : Pair(h) \in Unasked}}
        /\ overtaken' = overtaken \union
                {Pair(e) : e \in {e \in enqLog : e.op = d.op /\ Pair(e) \notin Unasked}}
        /\ UNCHANGED <<ids, entering, leaving, enqPool, storing, broker, enqLog, deqLog, mode, recovery,
                       stage, reopened, interrupted, unlogged, crashes>>
    BY <2>3, Zenon DEF RemoveMsg
  <2>5. TypeOK'
    <3>1. g \in [op : Ops, msg : Msgs \union {NoMsg}, at : {"wait", "log"}]
      BY <2>1, <2>3, Zenon DEF TypeOK
    <3>2. \A r \in db \union enqLog : Pair(r) \in Pairs
      BY <2>1, RecsTyped, Zenon DEF Recs
    <3>3. UNION {victims', overtaken', reopened', interrupted', unlogged'} \subseteq Pairs
      <4>1. victims' \subseteq victims \union Pairs /\ overtaken' \subseteq overtaken \union Pairs
        BY <2>3, <2>4, <3>2, Zenon
      <4>2. UNION {victims, overtaken, reopened, interrupted, unlogged} \subseteq Pairs
        BY <2>1, Zenon DEF TypeOK
      <4>3. UNCHANGED <<reopened, interrupted, unlogged>>
        BY <2>4, Zenon
      <4> QED
        BY <4>1, <4>2, <4>3
    <3>4. db' \subseteq Tasks /\ deleting' \subseteq [op : Ops, msg : Msgs \union {NoMsg}, at : {"wait", "log"}]
      BY <2>1, <2>4, <3>1, Zenon DEF TypeOK
    <3> QED
      BY <2>1, <2>4, <3>3, <3>4, Zenon DEF TypeOK, ids, broker, recovery
  <2>6. Scheduled' = Scheduled /\ Owed' \subseteq Owed
    BY <2>4, Zenon DEF Scheduled, Owed, Unasked
  <2>7. Moved
    <3>1. Recs' \subseteq Recs
      BY <2>4, <2>6, Zenon DEF Recs, Working, recovery
    <3> QED
      BY <3>1, Zenon DEF Moved
  <2>8. ASSUME NEW r \in db, Pair(r) \in Owed' PROVE r \in db'
    <3>1. Pair(r) \in Unasked /\ Pair(r) \notin victims'
      BY <2>4, <2>8, Zenon DEF Owed, Unasked
    <3> QED
      BY <2>4, <3>1, Zenon
  <2>9. \A x \in Owed' : (x \in Covered => x \in Covered') /\ (x \in Stores => x \in Stores')
    BY <2>4, <2>8, Zenon DEF Covered, Stores
  <2>10. /\ \A i, j \in DOMAIN enqPool' : enqPool'[i].op = enqPool'[j].op => i = j
         /\ nextId' = nextId /\ pendMap' = pendMap
    BY <2>1, <2>4, Zenon DEF Stored, ids
  <2> QED
    BY <2>2, <2>4, <2>5, <2>6, <2>7, <2>9, <2>10, <1>TaskStep, Zenon

\* The completion of a deletion is logged.
<1>RemoveLogStep.
    ASSUME NEW d \in deleting, RemoveLog(d)
    PROVE  StoreInv'
  <2> USE <1>RemoveLogStep
  <2>1. TypeOK /\ Named /\ Sent /\ Phases /\ Stored
    BY Zenon DEF StoreInv
  <2>2. mode = "up"
    BY <2>1, Zenon DEF Phases
  <2>3. /\ deqLog' = deqLog \ {d.op} /\ deleting' = deleting \ {d}
        /\ unlogged' = unlogged \union
            {Pair(o) : o \in {o \in deleting \ {d} : o.op = d.op /\ o.msg # NoMsg}}
        /\ UNCHANGED <<ids, entering, leaving, enqPool, storing, broker, db, enqLog, mode, recovery, stage,
                       victims, overtaken, reopened, interrupted, crashes>>
    BY Zenon DEF RemoveLog, LogDequeueComplete
  <2>4. TypeOK'
    <3>1. \A o \in deleting : o.msg # NoMsg => Pair(o) \in Pairs
      <4>1. \A o \in deleting : o.op \in Ops /\ o.msg \in Msgs \union {NoMsg}
        BY <2>1 DEF TypeOK
      <4>2. \A o \in Ops : o[2] \in Queues
        BY DEF Ops
      <4> QED
        BY <4>1, <4>2, Zenon DEF Pair, Pairs
    <3>2. UNION {victims', overtaken', reopened', interrupted', unlogged'} \subseteq Pairs
      <4>1. unlogged' \subseteq unlogged \union Pairs
        BY <2>3, <3>1, Zenon
      <4>2. UNION {victims, overtaken, reopened, interrupted, unlogged} \subseteq Pairs
        BY <2>1, Zenon DEF TypeOK
      <4>3. UNCHANGED <<victims, overtaken, reopened, interrupted>>
        BY <2>3, Zenon
      <4> QED
        BY <4>1, <4>2, <4>3
    <3>3. deqLog' \subseteq Ops /\ deleting' \subseteq [op : Ops, msg : Msgs \union {NoMsg}, at : {"wait", "log"}]
      BY <2>1, <2>3, Zenon DEF TypeOK
    <3> QED
      BY <2>1, <2>3, <3>2, <3>3, Zenon DEF TypeOK, ids, broker, recovery
  <2>5. Scheduled' = Scheduled /\ Owed' = Owed /\ Covered' = Covered /\ Stores' = Stores
    BY <2>3, Zenon DEF Scheduled, Owed, Unasked, Covered, Stores
  <2>6. Moved
    <3>1. Recs' \subseteq Recs
      BY <2>3, <2>5, Zenon DEF Recs, Working, recovery
    <3> QED
      BY <3>1, Zenon DEF Moved
  <2>7. /\ \A i, j \in DOMAIN enqPool' : enqPool'[i].op = enqPool'[j].op => i = j
        /\ nextId' = nextId /\ pendMap' = pendMap
    BY <2>1, <2>3, Zenon DEF Stored, ids
  <2> QED
    BY <2>2, <2>3, <2>4, <2>5, <2>6, <2>7, <1>TaskStep, Zenon

(***************************************************************************)
(* What is left to show for a step that leaves no process up: nothing of   *)
(* calls and tasks, of which there are none.                               *)
(***************************************************************************)
<1>DownStep.
    ASSUME TypeOK', mode' # "up", UNCHANGED stage, Recs' \subseteq Recs, Claims' \subseteq Claims,
           entering' = {}, leaving' = {}, enqPool' = <<>>, storing' = {}, deleting' = {},
           \A w \in Pairs : onQueue'[w] > 0 => pid'[w[1]] # 0 /\ stage[w] # "none",
           mode' # "recover" => aeset' = {} /\ discard' = {} /\ closing' = <<>>,
           mode' = "read" => highestRid' = 0 /\ \A m \in Msgs : pid'[m] = 0,
           Kept', Recovering', Found'
    PROVE  StoreInv'
  <2> USE <1>DownStep
  <2>1. Named /\ Sent
    BY Zenon DEF StoreInv
  <2>2. Scheduled' = {} /\ DOMAIN enqPool' = {}
    BY DEF Scheduled
  <2>3. Fresh' = Fresh
    BY Zenon DEF Fresh
  <2>4. Named'
    BY <2>1, <2>3, Zenon DEF Named
  <2>5. Sent'
    BY <2>1, <2>3, Zenon DEF Sent
  <2>6. Phases'
    BY <2>2, Zenon DEF Phases, Working
  <2>7. Entered' /\ Stored'
    BY <2>2, Zenon DEF Entered, Stored
  <2> QED
    BY <2>4, <2>5, <2>6, <2>7, Zenon DEF StoreInv

\* A crash: only the disk is left.
<1>CrashStep.
    ASSUME Crash
    PROVE  StoreInv'
  <2> USE <1>CrashStep
  <2>1. TypeOK /\ Named /\ Sent /\ Kept
    BY Zenon DEF StoreInv
  <2>2. /\ mode' = "read" /\ todo' = {}
        /\ entering' = {} /\ leaving' = {} /\ enqPool' = <<>> /\ storing' = {} /\ deleting' = {}
        /\ pid' = [m \in Msgs |-> 0] /\ onQueue' = [w \in Pairs |-> 0]
        /\ adset' = {} /\ aeset' = {} /\ discard' = {} /\ closing' = <<>>
        /\ highestRid' = 0 /\ localLastPid' = 0
        /\ UNCHANGED <<disk, stage, victims, overtaken, unlogged>>
    BY Zenon DEF Crash
  <2>3. TypeOK'
    <3>1. /\ nextId' \in 1..(MaxMsgs + 1) /\ lastPid' \in 0..MaxMsgs
          /\ highestRid' \in 0..MaxMsgs /\ localLastPid' \in 0..MaxMsgs
      BY <2>2, Assumptions DEF Crash
    <3>2. crashes' \in 0..MaxCrashes
      <4>1. crashes \in 0..MaxCrashes
        BY <2>1, Zenon DEF TypeOK
      <4> QED
        BY <4>1, Assumptions DEF Crash
    <3>3. pid' \in [Msgs -> 0..MaxMsgs] /\ onQueue' \in [Pairs -> Nat]
      BY <2>2, Assumptions
    <3>4. enqPool' \in Seq(Tasks) /\ closing' \in Seq([log : {"enq", "deq"}, ops : SUBSET Ops])
      BY <2>2
    <3>5. UNION {victims', overtaken', reopened', interrupted', unlogged'} \subseteq Pairs
      <4>1. \A r \in db : Pair(r) \in Pairs
        BY <2>1, RecsTyped, Zenon DEF Recs
      <4>2. Reopening \subseteq Pairs /\ Interrupting \subseteq Pairs
        BY <4>1, Zenon DEF Reopening, Interrupting
      <4>3. UNION {victims, overtaken, reopened, interrupted, unlogged} \subseteq Pairs
        BY <2>1, Zenon DEF TypeOK
      <4>4. reopened' = reopened \union Reopening /\ interrupted' = interrupted \union Interrupting
        BY Zenon DEF Crash
      <4>5. UNCHANGED <<victims, overtaken, unlogged>>
        BY <2>2, Zenon
      <4> QED
        BY <4>2, <4>3, <4>4, <4>5
    <3>6. gapPidSet' = {} /\ dupMap' = {} /\ pendMap' = {}
      BY Zenon DEF Crash
    <3> QED
      BY <2>1, <2>2, <3>1, <3>2, <3>3, <3>4, <3>5, <3>6, Zenon DEF TypeOK, disk
  <2>4. Recs' \subseteq Recs
    <3>1. Scheduled' = {}
      BY <2>2 DEF Scheduled
    <3> QED
      BY <2>2, <3>1, Zenon DEF Recs, Working, disk
  <2>5. Claims' \subseteq Claims
    <3>1. \A r \in Recs' : <<r.op[1], r.msg>> \in Claims
      BY <2>4, Zenon DEF Claims
    <3>2. \A m \in Msgs : pid'[m] = 0
      BY <2>2, Zenon
    <3> QED
      BY <3>1, <3>2, <1>ClaimsIn, Zenon
  <2>6. \A w \in Pairs : ~(onQueue'[w] > 0)
    <3>1. \A w \in Pairs : onQueue'[w] = 0
      BY <2>2, Zenon
    <3> QED
      BY <3>1
  <2>7. mode' # "up" /\ mode' # "recover" /\ \A m \in Msgs : pid'[m] = 0
    BY <2>2
  <2>8. Kept' /\ Recovering' /\ Found'
    <3>1. Owed' = Owed /\ Covered' = Covered
      BY <2>2, Zenon DEF Owed, Unasked, Covered, disk
    <3> QED
      BY <2>1, <2>2, <2>7, <3>1, Zenon DEF Kept, Recovering, Found
  <2> QED
    BY <2>2, <2>3, <2>4, <2>5, <2>6, <2>7, <2>8, <1>DownStep, Zenon

\* Recovery reads the logs, and has found nothing yet.
<1>ReadLogsStep.
    ASSUME ReadLogs
    PROVE  StoreInv'
  <2> USE <1>ReadLogsStep
  <2>1. TypeOK /\ Named /\ Sent /\ Kept /\ Phases
    BY Zenon DEF StoreInv
  <2>2. /\ mode = "read" /\ mode' = "recover" /\ todo' = Queues /\ adset' = deqLog /\ aeset' = enqLog
        /\ UNCHANGED <<ids, tasks, broker, disk, discard, closing, highestRid, localLastPid, stage, victims,
                       escapes, crashes>>
    BY Zenon DEF ReadLogs
  <2>3. /\ mode # "up" /\ mode # "recover" /\ mode' # "up" /\ mode' # "read"
    BY <2>2
  <2>4. /\ Working = {} /\ leaving = {} /\ deleting = {} /\ enqPool = <<>> /\ discard = {} /\ closing = <<>>
        /\ highestRid = 0 /\ \A m \in Msgs : pid[m] = 0
    BY <2>1, <2>2, <2>3, Zenon DEF Phases
  <2>5. TypeOK'
    BY <2>1, <2>2, Zenon DEF TypeOK, ids, tasks, broker, disk, escapes
  <2>6. Recs' \subseteq Recs
    BY <2>2, Zenon DEF Recs, Working, Scheduled, disk, tasks
  <2>7. Claims' \subseteq Claims
    <3>1. Moved /\ pid' = pid
      BY <2>2, <2>6, Zenon DEF Moved, broker
    <3> QED
      BY <3>1, <1>MovedClaims, Zenon
  <2>8. Kept'
    <3>1. \A w \in Owed' : w \in Owed /\ w[2] \in todo'
      <4>1. \A w \in Pairs : w[2] \in Queues
        BY DEF Pairs
      <4> QED
        BY <2>2, <4>1, Zenon DEF Owed, Unasked
    <3> QED
      BY <2>1, <2>2, <2>3, <3>1, Zenon DEF Kept, Covered, disk
  <2>9. Recovering'
    <3>1. DOMAIN closing' = {} /\ discard' = {}
      BY <2>2, <2>4
    <3> QED
      BY <2>2, <3>1, Zenon DEF Recovering, disk
  <2>10. Found'
    <3>1. \A r \in db' \union aeset' : r.op[2] \in todo'
      <4>1. \A r \in db \union enqLog : r.op[2] \in Queues
        BY <2>1, RecsTyped, Zenon DEF Recs
      <4> QED
        BY <2>2, <4>1, Zenon DEF disk
    <3>2. highestRid' = 0 /\ \A m \in Msgs : pid'[m] = 0 /\ 0 < m
      <4>1. \A m \in Msgs : 0 < m
        BY Assumptions DEF Msgs
      <4> QED
        BY <2>2, <2>4, <4>1, Zenon DEF broker
    <3>3. 0 <= 0 /\ \A m \in Fresh' : m \in Msgs
      <4>1. 0 <= 0
        OBVIOUS
      <4> QED
        BY <4>1, Zenon DEF Fresh
    <3> QED
      BY <3>1, <3>2, <3>3, Zenon DEF Found
  <2>11. entering' = {} /\ leaving' = {} /\ enqPool' = <<>> /\ storing' = {} /\ deleting' = {}
    BY <2>2, <2>4, Zenon DEF Working, tasks
  <2>12. \A w \in Pairs : onQueue'[w] > 0 => pid'[w[1]] # 0 /\ stage[w] # "none"
    BY <2>1, <2>2, Zenon DEF Sent, broker
  <2> QED
    BY <2>2, <2>3, <2>5, <2>6, <2>7, <2>8, <2>9, <2>10, <2>11, <2>12, <1>DownStep, Zenon

(***************************************************************************)
(* decodeAndRecoverMsg for queue q.  Of what the logs and the database     *)
(* hold of a message still owed something is put on the queue, unless it   *)
(* is dropped for a dequeue of another message.                            *)
(***************************************************************************)
<1>RecoverQueueStep.
    ASSUME NEW q \in Queues, RecoverQueue(q)
    PROVE  StoreInv'
  <2> USE <1>RecoverQueueStep
  <2>1. TypeOK /\ Named /\ Sent /\ Phases /\ Kept /\ Recovering /\ Found
    BY Zenon DEF StoreInv
  <2> DEFINE present == AlreadyEnqueued(q)
             fromLog == FromLog(q)
             fromDb == On(Persistent(db), q)
             accepted == {r \in fromDb : r.op \in adset \ OpsOf(Useless)}
             copies(w) == Cardinality({r \in fromDb \ accepted : Pair(r) = w})
                             + Cardinality({e \in fromLog : Pair(e) = w})
             found == (fromDb \ accepted) \union fromLog
             newPid(m) == IF \E r \in found : r.msg = m
                          THEN (CHOOSE r \in fromDb \union fromLog : r.msg = m).op[1]
                          ELSE pid[m]
             dropped == {r \in Persistent(Useless) \union accepted : Pair(r) \in Unasked}
  <2>2. /\ present = AlreadyEnqueued(q) /\ fromLog = FromLog(q) /\ fromDb = On(Persistent(db), q)
        /\ accepted = {r \in fromDb : r.op \in adset \ OpsOf(Useless)}
    OBVIOUS
  <2>3. /\ mode = "recover" /\ closing = <<>> /\ q \in todo /\ todo' = todo \ {q}
        /\ aeset' = aeset \ (Useless \union Transients \union present)
        /\ adset' = adset \ (OpsOf(Useless) \union OpsOf(accepted))
        /\ enqLog' = Without(enqLog, OpsOf(present))
        /\ closing' = Completions(accepted)
        /\ discard' = discard \union OpsOf(On(db, q) \ fromDb) \union OpsOf(accepted)
        /\ localLastPid' = Later(localLastPid, MaxId(fromDb))
        /\ highestRid' = Later(highestRid, MaxId(fromDb \union fromLog))
        /\ onQueue' = [w \in Pairs |-> onQueue[w] + copies(w)]
        /\ pid' = [m \in Msgs |-> newPid(m)]
        /\ victims' = victims \union {Pair(r) : r \in dropped}
        /\ UNCHANGED <<ids, tasks, db, deqLog, mode, stage, escapes, crashes>>
    BY Zenon DEF RecoverQueue, NextQueue, RegisterDiscards
  <2> HIDE DEF present, fromLog, fromDb, accepted
  <2>4. /\ mode # "up" /\ mode' # "up" /\ mode' = "recover" /\ mode' # "read"
        /\ Working = {} /\ leaving = {} /\ deleting = {} /\ enqPool = <<>>
    <3>1. mode # "up" /\ mode' = "recover" /\ mode' # "up" /\ mode' # "read"
      BY <2>3
    <3> QED
      BY <2>1, <3>1, Zenon DEF Phases
  <2>5. /\ fromDb \subseteq db /\ accepted \subseteq fromDb /\ fromLog \subseteq aeset /\ present \subseteq aeset
        /\ Useless \subseteq aeset /\ Transients \subseteq aeset
        /\ \A e \in present : e.op \in OpsOf(db)
    BY <2>2, Zenon DEF On, Persistent, FromLog, AlreadyEnqueued, Checked, Useless, Transients
  <2>6. fromDb \subseteq Tasks /\ fromLog \subseteq Tasks /\ db \subseteq Tasks /\ aeset \subseteq Tasks
    BY <2>1, <2>5, Zenon DEF TypeOK
  <2>7. \A r \in db \union aeset \union enqLog :
           /\ r \in Recs /\ r.op \in Ops /\ r.msg \in Msgs /\ r.op[1] \in Msgs /\ r.op[2] \in Queues
           /\ Pair(r) \in Pairs /\ Pair(r)[1] = r.msg /\ Pair(r)[2] = r.op[2]
           /\ <<r.op[1], r.msg>> \in Claims
    <3>1. \A r \in Recs : Pair(r)[1] = r.msg /\ Pair(r)[2] = r.op[2]
      BY DEF Pair
    <3>2. \A r \in Recs : <<r.op[1], r.msg>> \in Claims
      BY Zenon DEF Claims
    <3> QED
      BY <2>1, <3>1, <3>2, RecsTyped, Zenon DEF Recs
  <2>8. \A r, s \in db \union aeset \union enqLog : r.op = s.op => Pair(r) = Pair(s)
    BY <2>1, <2>7, SameOp, Zenon
  <2>9. found \subseteq fromDb \union fromLog /\ found \subseteq db \union aeset
    BY <2>5, Zenon
  <2> HIDE DEF found
  \* The ids.
  <2>10. ASSUME NEW m \in Msgs
         PROVE  /\ pid'[m] = pid[m] \/ \E r \in fromDb \union fromLog : r.msg = m /\ pid'[m] = r.op[1]
                /\ (\E r \in found : r.msg = m) => \E r \in fromDb \union fromLog : r.msg = m /\ pid'[m] = r.op[1]
    <3>1. CASE \E r \in found : r.msg = m
      <4>1. PICK c : c = CHOOSE r \in fromDb \union fromLog : r.msg = m
        BY Zenon
      <4>2. \E r \in fromDb \union fromLog : r.msg = m
        BY <2>9, <3>1, Zenon
      <4>3. c \in fromDb \union fromLog /\ c.msg = m
        BY <4>1, <4>2, Zenon
      <4>4. pid'[m] = c.op[1]
        BY <2>3, <3>1, <4>1, Zenon
      <4> QED
        BY <4>3, <4>4, Zenon
    <3>2. CASE ~\E r \in found : r.msg = m
      BY <2>3, <3>2, Zenon
    <3> QED
      BY <3>1, <3>2, Zenon
  <2>11. \A r \in fromDb \union fromLog : r.op[1] \in Msgs /\ r.op[1] \in 0..MaxMsgs /\ r.op[1] # 0
    <3>1. \A i \in Msgs : i \in 0..MaxMsgs /\ i # 0
      BY Assumptions DEF Msgs
    <3> QED
      BY <2>5, <2>7, <3>1, Zenon
  <2>12. /\ \A m \in Msgs : pid[m] # 0 => pid'[m] # 0
         /\ \A r \in found : pid'[r.msg] # 0
    <3>1. \A m \in Msgs : pid[m] # 0 => pid'[m] # 0
      <4>1. ASSUME NEW m \in Msgs, pid[m] # 0 PROVE pid'[m] # 0
        <5>1. CASE pid'[m] = pid[m]
          BY <4>1, <5>1, Zenon
        <5>2. CASE \E r \in fromDb \union fromLog : r.msg = m /\ pid'[m] = r.op[1]
          BY <2>11, <5>2, Zenon
        <5> QED
          BY <2>10, <5>1, <5>2, Zenon
      <4> QED
        BY <4>1, Zenon
    <3>2. ASSUME NEW r \in found PROVE pid'[r.msg] # 0
      <4>1. r.msg \in Msgs
        BY <2>7, <2>9, Zenon
      <4>2. PICK s \in fromDb \union fromLog : pid'[r.msg] = s.op[1]
        BY <2>10, <4>1, Zenon
      <4> QED
        BY <2>11, <4>2, Zenon
    <3> QED
      BY <3>1, <3>2, Zenon
  <2>13. /\ highestRid \in 0..MaxMsgs /\ highestRid' \in 0..MaxMsgs /\ highestRid <= highestRid'
         /\ localLastPid' \in 0..MaxMsgs
         /\ \A r \in fromDb \union fromLog : r.op[1] <= highestRid'
         /\ highestRid' = highestRid \/ highestRid' = 0 \/ \E r \in fromDb \union fromLog : highestRid' = r.op[1]
    <3>1. PICK R : R = fromDb \union fromLog
      BY Zenon
    <3>2. R \in SUBSET Tasks /\ fromDb \in SUBSET Tasks
      BY <2>6, <3>1, Zenon
    <3>3. /\ MaxId(R) \in 0..MaxMsgs /\ MaxId(fromDb) \in 0..MaxMsgs
          /\ \A r \in R : r.op[1] <= MaxId(R)
          /\ MaxId(R) = 0 \/ \E r \in R : MaxId(R) = r.op[1]
      BY <3>2, MaxIdIs, Zenon
    <3>4. highestRid \in 0..MaxMsgs /\ localLastPid \in 0..MaxMsgs
      BY <2>1, Zenon DEF TypeOK
    <3>5. /\ highestRid' \in {highestRid, MaxId(R)} /\ highestRid' \in 0..MaxMsgs
          /\ highestRid <= highestRid' /\ MaxId(R) <= highestRid' /\ localLastPid' \in 0..MaxMsgs
      BY <2>3, <3>1, <3>3, <3>4, LaterIs, Zenon
    <3>6. ASSUME NEW r \in R PROVE r.op[1] <= highestRid'
      <4>1. r.op[1] \in 0..MaxMsgs /\ r.op[1] <= MaxId(R)
        BY <2>11, <3>1, <3>3, Zenon
      <4>2. MaxId(R) \in 0..MaxMsgs /\ highestRid' \in 0..MaxMsgs /\ MaxId(R) <= highestRid'
        BY <3>3, <3>5, Zenon
      <4> QED
        BY <4>1, <4>2, Assumptions
    <3> QED
      BY <3>1, <3>3, <3>4, <3>5, <3>6, Zenon
  \* The copies put on the queue.
  <2>14. ASSUME NEW w \in Pairs
         PROVE  /\ onQueue'[w] \in Nat
                /\ onQueue[w] > 0 => onQueue'[w] > 0
                /\ (\E r \in found : Pair(r) = w) => onQueue'[w] > 0
                /\ onQueue'[w] > 0 => onQueue[w] > 0 \/ \E r \in found : Pair(r) = w
    <3>1. PICK A, B : A = {r \in fromDb \ accepted : Pair(r) = w} /\ B = {e \in fromLog : Pair(e) = w}
      BY Zenon
    <3>2. onQueue'[w] = onQueue[w] + (Cardinality(A) + Cardinality(B)) /\ onQueue[w] \in Nat
      <4>1. onQueue \in [Pairs -> Nat]
        BY <2>1, Zenon DEF TypeOK
      <4> QED
        BY <2>3, <3>1, <4>1, Zenon
    <3>3. A \in SUBSET Tasks /\ B \in SUBSET Tasks
      BY <2>6, <3>1, Zenon
    <3>4. IsFiniteSet(A) /\ IsFiniteSet(B)
      BY <3>3, RecordsFinite, Zenon
    <3>5. /\ Cardinality(A) \in Nat /\ (Cardinality(A) = 0 <=> A = {})
          /\ Cardinality(B) \in Nat /\ (Cardinality(B) = 0 <=> B = {})
      BY <3>4, FS_CardinalityType, FS_EmptySet, Zenon
    <3>6. (\E r \in found : Pair(r) = w) <=> (A # {} \/ B # {})
      BY <3>1, Zenon DEF found
    <3> QED
      <4>1. PICK a, b, n : a = Cardinality(A) /\ b = Cardinality(B) /\ n = onQueue[w]
        BY Zenon
      <4>2. a \in Nat /\ b \in Nat /\ n \in Nat
        BY <3>2, <3>5, <4>1, Zenon
      <4>3. /\ n + (a + b) \in Nat
            /\ n > 0 => n + (a + b) > 0
            /\ a # 0 \/ b # 0 => n + (a + b) > 0
            /\ n + (a + b) > 0 => n > 0 \/ a # 0 \/ b # 0
        BY <4>2
      <4> QED
        BY <3>2, <3>5, <3>6, <4>1, <4>3, Zenon
  <2>15. TypeOK'
    <3>1. pid' \in [Msgs -> 0..MaxMsgs]
      <4>1. \A m \in Msgs : pid'[m] \in 0..MaxMsgs
        <5>1. \A m \in Msgs : pid[m] \in 0..MaxMsgs
          BY <2>1, Zenon DEF TypeOK
        <5> QED
          BY <2>10, <2>11, <5>1, Zenon
      <4> HIDE DEF newPid
      <4>2. pid' = [m \in Msgs |-> pid'[m]]
        BY <2>3, Zenon
      <4> QED
        BY <4>1, <4>2, Zenon
    <3>2. onQueue' \in [Pairs -> Nat]
      <4>1. onQueue' = [w \in Pairs |-> onQueue'[w]]
        BY <2>3, Zenon
      <4> QED
        BY <2>14, <4>1, Zenon
    <3>3. /\ todo' \subseteq Queues /\ aeset' \subseteq Tasks /\ adset' \subseteq Ops /\ enqLog' \subseteq Tasks
      BY <2>1, <2>3, Zenon DEF TypeOK, Without
    <3>4. /\ OpsOf(Transients) \subseteq Ops /\ OpsOf(accepted) \subseteq Ops /\ OpsOf(Useless) \subseteq Ops
          /\ OpsOf(On(db, q) \ fromDb) \subseteq Ops
      BY <2>5, <2>7, Zenon DEF OpsOf, On
    <3>5. closing' \in Seq([log : {"enq", "deq"}, ops : SUBSET Ops])
      <4>1. PICK a, b, c : a = OpsOf(Transients) /\ b = OpsOf(accepted) /\ c = OpsOf(Useless)
        BY Zenon
      <4>2. /\ [log |-> "enq", ops |-> a] \in [log : {"enq", "deq"}, ops : SUBSET Ops]
            /\ [log |-> "deq", ops |-> b] \in [log : {"enq", "deq"}, ops : SUBSET Ops]
            /\ [log |-> "enq", ops |-> c] \in [log : {"enq", "deq"}, ops : SUBSET Ops]
            /\ [log |-> "deq", ops |-> c] \in [log : {"enq", "deq"}, ops : SUBSET Ops]
        BY <3>4, <4>1
      <4>3. closing' = << [log |-> "enq", ops |-> a], [log |-> "deq", ops |-> b],
                          [log |-> "enq", ops |-> c], [log |-> "deq", ops |-> c] >>
        BY <2>3, <4>1, Zenon DEF Completions
      <4>4. \A S : \A x1, x2, x3, x4 \in S : <<x1, x2, x3, x4>> \in Seq(S)
        OBVIOUS
      <4> QED
        BY <4>2, <4>3, <4>4, Zenon
    <3>6. discard' \subseteq Ops
      BY <2>1, <2>3, <3>4, Zenon DEF TypeOK
    <3>7. UNION {victims', overtaken', reopened', interrupted', unlogged'} \subseteq Pairs
      <4>1. victims' \subseteq victims \union Pairs
        BY <2>3, Zenon DEF Unasked
      <4>2. UNION {victims, overtaken, reopened, interrupted, unlogged} \subseteq Pairs
        BY <2>1, Zenon DEF TypeOK
      <4>3. UNCHANGED <<overtaken, reopened, interrupted, unlogged>>
        BY <2>3, Zenon DEF escapes
      <4> QED
        BY <4>1, <4>2, <4>3
    <3> QED
      BY <2>1, <2>3, <2>13, <3>1, <3>2, <3>3, <3>5, <3>6, <3>7, Zenon DEF TypeOK, ids, tasks
  <2> HIDE DEF copies
  <2>16. Recs' \subseteq Recs /\ Claims' \subseteq Claims
    <3>1. Recs' \subseteq Recs
      BY <2>3, Zenon DEF Recs, Working, Scheduled, Without, tasks
    <3>2. \A r \in Recs' : <<r.op[1], r.msg>> \in Claims
      BY <3>1, Zenon DEF Claims
    <3>3. ASSUME NEW m \in Msgs, pid'[m] # 0 PROVE <<pid'[m], m>> \in Claims
      <4>1. CASE pid'[m] = pid[m]
        BY <3>3, <4>1, Zenon DEF Claims
      <4>2. CASE \E r \in fromDb \union fromLog : r.msg = m /\ pid'[m] = r.op[1]
        BY <2>5, <2>7, <4>2, Zenon
      <4> QED
        BY <2>10, <4>1, <4>2, Zenon
    <3> QED
      BY <3>1, <3>2, <3>3, <1>ClaimsIn, Zenon
  <2>17. \A w \in Pairs : onQueue'[w] > 0 => pid'[w[1]] # 0 /\ stage[w] # "none"
    <3>1. ASSUME NEW w \in Pairs, onQueue'[w] > 0 PROVE pid'[w[1]] # 0 /\ stage[w] # "none"
      <4>1. CASE onQueue[w] > 0
        <5>1. w[1] \in Msgs
          BY DEF Pairs
        <5> QED
          BY <2>1, <2>12, <4>1, <5>1, Zenon DEF Sent
      <4>2. CASE \E r \in found : Pair(r) = w
        <5>1. PICK r \in found : Pair(r) = w
          BY <4>2, Zenon
        <5>2. w[1] = r.msg /\ r \in Recs
          BY <2>7, <2>9, <5>1, Zenon
        <5> QED
          BY <2>1, <2>12, <5>1, <5>2, Zenon DEF Sent
      <4> QED
        BY <2>14, <3>1, <4>1, <4>2, Zenon
    <3> QED
      BY <3>1, Zenon
  \* What is owed after the step has not been dropped by it.
  <2>18. /\ \A w \in Owed' : w \in Owed /\ w \in Pairs /\ w[1] \notin TransientMsgs
         /\ \A r \in Useless \union accepted : Pair(r) \notin Owed'
         /\ \A r \in Transients \union (On(db, q) \ fromDb) : Pair(r) \notin Owed'
    <3>1. \A w \in Owed' : /\ w \in Owed /\ w \in Unasked /\ w \in Pairs /\ w[1] \notin TransientMsgs
                           /\ w \notin victims'
      BY <2>3, Zenon DEF Owed, Unasked
    <3>2. ASSUME NEW r \in Useless \union accepted PROVE Pair(r) \notin Owed'
      <4>1. Pair(r)[1] = r.msg
        BY <2>5, <2>7, Zenon
      <4>2. Pair(r) \in Unasked /\ r.msg \notin TransientMsgs => Pair(r) \in victims'
        BY <2>3, Zenon DEF Persistent
      <4> QED
        BY <3>1, <4>1, <4>2, Zenon
    <3>3. ASSUME NEW r \in Transients \union (On(db, q) \ fromDb) PROVE Pair(r) \notin Owed'
      <4>1. r \in db \union aeset /\ r.msg \in TransientMsgs
        BY <2>2, <2>5, Zenon DEF Transients, On, Persistent
      <4> QED
        BY <2>7, <3>1, <4>1, Zenon
    <3> QED
      BY <3>1, <3>2, <3>3, Zenon
  <2> HIDE DEF dropped
  <2>19. \A r \in enqLog : r \in aeset
    <3>1. DOMAIN closing = {}
      BY <2>3
    <3> QED
      BY <2>1, <2>3, <3>1, Zenon DEF Recovering
  <2>20. ASSUME NEW w \in Owed', w \in Covered
         PROVE  /\ w \in Covered'
                /\ w[2] = q => \E r \in found : Pair(r) = w
    <3>1. w \in Owed /\ w[1] \notin TransientMsgs
      BY <2>18, Zenon
    <3>2. CASE \E r \in db : Pair(r) = w
      <4>1. PICK r \in db : Pair(r) = w
        BY <3>2, Zenon
      <4>2. w \in Covered'
        BY <2>3, <4>1, Zenon DEF Covered
      <4>3. ASSUME w[2] = q PROVE r \in found
        <5>1. r.msg = w[1] /\ r.op[2] = w[2]
          BY <2>7, <4>1, Zenon
        <5>2. r \in fromDb
          BY <2>2, <3>1, <4>3, <5>1, Zenon DEF On, Persistent
        <5>3. r \notin accepted
          BY <2>18, <4>1, Zenon
        <5> QED
          BY <5>2, <5>3, Zenon DEF found
      <4> QED
        BY <4>1, <4>2, <4>3, Zenon
    <3>3. CASE ~\E r \in db : Pair(r) = w
      <4>1. PICK r \in enqLog : Pair(r) = w
        BY <2>20, <3>3, Zenon DEF Covered
      <4>2. r \in aeset /\ r \notin Useless
        BY <2>18, <2>19, <4>1, Zenon
      <4>3. r.op \notin OpsOf(db)
        <5>1. ASSUME NEW s \in db, s.op = r.op PROVE FALSE
          BY <2>8, <3>3, <4>1, <5>1, Zenon
        <5> QED
          BY <5>1, Zenon DEF OpsOf
      <4>4. r.op \notin OpsOf(present)
        BY <2>5, <4>3, Zenon DEF OpsOf
      <4>5. w \in Covered'
        BY <2>3, <4>1, <4>4, Zenon DEF Covered, Without
      <4>6. ASSUME w[2] = q PROVE r \in found
        <5>1. r.msg = w[1] /\ r.op[2] = w[2]
          BY <2>7, <4>1, Zenon
        <5>2. r \notin AlreadyEnqueued(q)
          BY <2>2, <4>4, Zenon DEF OpsOf
        <5>3. r \in fromLog
          BY <2>2, <3>1, <4>2, <4>6, <5>1, <5>2, Zenon DEF FromLog, On, Persistent
        <5> QED
          BY <5>3, Zenon DEF found
      <4> QED
        BY <4>1, <4>5, <4>6, Zenon
    <3> QED
      BY <3>2, <3>3, Zenon
  <2>21. Kept'
    <3>1. ASSUME NEW w \in Owed', stage'[w] = "acked"
          PROVE  w \in Covered' /\ (w[2] \notin todo' => onQueue'[w] > 0)
      <4>1. w \in Owed /\ w \in Pairs /\ stage[w] = "acked"
        BY <2>3, <2>18, <3>1, Zenon
      <4>2. w \in Covered /\ (w[2] \notin todo => onQueue[w] > 0)
        BY <2>1, <2>3, <4>1, Zenon DEF Kept
      <4>3. w \in Covered'
        BY <2>20, <4>2, Zenon
      <4>4. ASSUME w[2] \notin todo' PROVE onQueue'[w] > 0
        <5>1. CASE w[2] \notin todo
          BY <2>14, <4>1, <4>2, <5>1, Zenon
        <5>2. CASE w[2] = q
          BY <2>14, <2>20, <4>1, <4>2, <5>2, Zenon
        <5> QED
          BY <2>3, <4>4, <5>1, <5>2, Zenon
      <4> QED
        BY <4>3, <4>4, Zenon
    <3> QED
      BY <2>4, <3>1, Zenon DEF Kept
  <2>22. Recovering'
    <3>1. /\ DOMAIN closing' = {1, 2, 3, 4}
          /\ closing'[1].log = "enq" /\ closing'[1].ops = OpsOf(Transients)
          /\ closing'[3].log = "enq" /\ closing'[3].ops = OpsOf(Useless)
          /\ closing'[2].log # "enq" /\ closing'[4].log # "enq"
      <4>1. PICK a, b, c : a = OpsOf(Transients) /\ b = OpsOf(accepted) /\ c = OpsOf(Useless)
        BY Zenon
      <4>2. closing' = << [log |-> "enq", ops |-> a], [log |-> "deq", ops |-> b],
                          [log |-> "enq", ops |-> c], [log |-> "deq", ops |-> c] >>
        BY <2>3, <4>1, Zenon DEF Completions
      <4>3. /\ DOMAIN closing' = {1, 2, 3, 4}
            /\ closing'[1].log = "enq" /\ closing'[1].ops = a
            /\ closing'[3].log = "enq" /\ closing'[3].ops = c
            /\ closing'[2].log # "enq" /\ closing'[4].log # "enq"
        BY <4>2
      <4> QED
        BY <4>1, <4>3, Zenon
    <3>2. \A r \in enqLog' : r \in enqLog /\ r \in aeset /\ r \notin present
      BY <2>3, <2>19, Zenon DEF Without, OpsOf
    <3>3. ASSUME NEW r \in enqLog'
          PROVE  r \in aeset' \/ \E i \in DOMAIN closing' : closing'[i].log = "enq" /\ r.op \in closing'[i].ops
      <4>1. CASE r \in Useless
        BY <3>1, <4>1, Zenon DEF OpsOf
      <4>2. CASE r \in Transients
        BY <3>1, <4>2, Zenon DEF OpsOf
      <4>3. CASE r \notin Useless /\ r \notin Transients
        BY <2>3, <3>2, <4>3, Zenon
      <4> QED
        BY <4>1, <4>2, <4>3, Zenon
    <3>4. ASSUME NEW r \in enqLog', Pair(r) \in Owed' PROVE r \in aeset'
      BY <2>3, <2>18, <3>2, <3>4, Zenon
    <3>5. ASSUME NEW r \in enqLog', NEW i \in DOMAIN closing', closing'[i].log = "enq", r.op \in closing'[i].ops
          PROVE  Pair(r) \notin Owed'
      <4>1. r.op \in OpsOf(Transients) \/ r.op \in OpsOf(Useless)
        BY <3>1, <3>5, Zenon
      <4>2. PICK s \in Transients \union Useless : s.op = r.op
        BY <4>1, OpsOfIs, Zenon
      <4>3. Pair(s) = Pair(r)
        BY <2>5, <2>8, <3>2, <4>2, Zenon
      <4> QED
        BY <2>18, <4>3, Zenon
    <3>6. ASSUME NEW r \in db', r.op \in discard' PROVE Pair(r) \notin Owed'
      <4>1. CASE r.op \in discard
        BY <2>1, <2>3, <2>18, <4>1, Zenon DEF Recovering
      <4>2. CASE r.op \in OpsOf(On(db, q) \ fromDb) \/ r.op \in OpsOf(accepted)
        <5>1. PICK s \in (On(db, q) \ fromDb) \union accepted : s.op = r.op
          BY <4>2, OpsOfIs, Zenon
        <5>2. s \in db
          BY <2>5, Zenon DEF On
        <5>3. Pair(s) = Pair(r)
          BY <2>3, <2>8, <5>1, <5>2, Zenon
        <5> QED
          BY <2>18, <5>3, Zenon
      <4> QED
        BY <2>3, <3>6, <4>1, <4>2, Zenon
    <3>7. Useless' = {} /\ Transients' = {}
      <4>1. Useless' = {}
        BY <2>3, Zenon DEF Useless
      <4>2. Transients' = {}
        <5>1. ASSUME NEW e \in Transients' PROVE FALSE
          <6>1. e \in aeset' /\ e.msg \in TransientMsgs
            BY Zenon DEF Transients
          <6>2. e \in aeset /\ e \notin Useless /\ e \notin Transients
            BY <2>3, <6>1, Zenon
          <6> QED
            BY <6>1, <6>2, Zenon DEF Transients
        <5> QED
          BY <5>1, Zenon
      <4> QED
        BY <4>1, <4>2, Zenon
    <3> QED
      BY <3>3, <3>4, <3>5, <3>6, <3>7, Zenon DEF Recovering
  <2>23. Found'
    <3>1. ASSUME NEW r \in found PROVE pid'[r.msg] # 0 /\ r.op[1] <= highestRid'
      BY <2>9, <2>12, <2>13, Zenon
    <3>2. ASSUME NEW r \in db \union aeset, pid[r.msg] # 0, r.op[1] <= highestRid
          PROVE  pid'[r.msg] # 0 /\ r.op[1] <= highestRid'
      <4>1. r.msg \in Msgs /\ r.op[1] \in Msgs
        BY <2>7, Zenon
      <4>2. r.op[1] <= highestRid'
        BY <2>13, <3>2, <4>1, Assumptions DEF Msgs
      <4> QED
        BY <2>12, <3>2, <4>1, <4>2, Zenon
    <3>3. ASSUME NEW r \in db', r.op[2] \notin todo'
          PROVE  r.op \in discard' \/ (pid'[r.msg] # 0 /\ r.op[1] <= highestRid')
      <4>1. r \in db
        BY <2>3, Zenon
      <4>2. CASE r.op[2] \notin todo
        BY <2>1, <2>3, <3>2, <4>1, <4>2, Zenon DEF Found
      <4>3. CASE r.op[2] = q /\ r \notin found
        <5>1. r \in On(db, q)
          BY <4>1, <4>3, Zenon DEF On
        <5>2. r \in (On(db, q) \ fromDb) \/ r \in accepted
          BY <4>3, <5>1, Zenon DEF found
        <5> QED
          BY <2>3, <5>2, Zenon DEF OpsOf
      <4> QED
        BY <2>3, <3>1, <3>3, <4>2, <4>3, Zenon
    <3>4. ASSUME NEW r \in aeset', r.op[2] \notin todo'
          PROVE  pid'[r.msg] # 0 /\ r.op[1] <= highestRid'
      <4>1. r \in aeset /\ r \notin Useless /\ r \notin Transients /\ r \notin present
        BY <2>3, Zenon
      <4>2. CASE r.op[2] \notin todo
        BY <2>1, <2>3, <3>2, <4>1, <4>2, Zenon DEF Found
      <4>3. CASE r.op[2] = q
        <5>1. r \in fromLog
          BY <2>2, <4>1, <4>3, Zenon DEF FromLog, On, Persistent, Transients
        <5> QED
          BY <3>1, <5>1, Zenon DEF found
      <4> QED
        BY <2>3, <3>4, <4>2, <4>3, Zenon
    <3>5. ASSUME NEW m \in Msgs PROVE pid'[m] <= highestRid'
      <4>1. CASE pid'[m] = pid[m]
        <5>1. pid[m] \in 0..MaxMsgs /\ pid[m] <= highestRid
          BY <2>1, <2>3, Zenon DEF TypeOK, Found
        <5> QED
          BY <2>13, <4>1, <5>1, Assumptions
      <4>2. CASE \E r \in fromDb \union fromLog : r.msg = m /\ pid'[m] = r.op[1]
        BY <2>13, <4>2, Zenon
      <4> QED
        BY <2>10, <4>1, <4>2, Zenon
    <3>6. ASSUME NEW m \in Fresh' PROVE highestRid' < m
      <4>1. m \in Fresh /\ m \in Msgs
        BY <2>3, Zenon DEF Fresh
      <4>2. CASE highestRid' = highestRid
        BY <2>1, <2>3, <4>1, <4>2, Zenon DEF Found
      <4>3. CASE highestRid' = 0
        BY <4>1, <4>3, Assumptions DEF Msgs
      <4>4. CASE \E r \in fromDb \union fromLog : highestRid' = r.op[1]
        <5>1. PICK r \in fromDb \union fromLog : highestRid' = r.op[1]
          BY <4>4, Zenon
        <5>2. <<r.op[1], r.msg>> \in Claims /\ r.msg \in Msgs /\ r.op[1] \in Msgs
          BY <2>5, <2>7, Zenon
        <5>3. r.msg \notin Fresh /\ r.op[1] <= r.msg
          BY <2>1, <5>2 DEF Named
        <5>4. r.msg < m
          BY <2>1, <4>1, <5>2, <5>3, Zenon DEF Sent
        <5> QED
          BY <4>1, <5>1, <5>2, <5>3, <5>4, Assumptions DEF Msgs
      <4> QED
        BY <2>13, <4>2, <4>3, <4>4, Zenon
    <3> QED
      BY <3>3, <3>4, <3>5, <3>6, Zenon DEF Found
  <2>24. entering' = {} /\ leaving' = {} /\ enqPool' = <<>> /\ storing' = {} /\ deleting' = {} /\ stage' = stage
    BY <2>3, <2>4, Zenon DEF Working, tasks
  <2> QED
    BY <2>4, <2>15, <2>16, <2>17, <2>21, <2>22, <2>23, <2>24, <1>DownStep, Zenon

\* Completions are logged of what recovery has done with.
<1>LogMassStep.
    ASSUME LogMass
    PROVE  StoreInv'
  <2> USE <1>LogMassStep
  <2>1. TypeOK /\ Named /\ Sent /\ Phases /\ Kept /\ Recovering /\ Found
    BY Zenon DEF StoreInv
  <2>2. PICK c : c = Head(closing)
    BY Zenon
  <2>3. /\ closing # <<>> /\ closing' = Tail(closing)
        /\ enqLog' = (IF c.log = "enq" THEN Without(enqLog, c.ops) ELSE enqLog)
        /\ deqLog' = (IF c.log = "deq" THEN deqLog \ c.ops ELSE deqLog)
        /\ UNCHANGED <<ids, tasks, broker, db, mode, todo, adset, aeset, discard, highestRid, localLastPid,
                       stage, victims, escapes, crashes>>
    BY <2>2, Zenon DEF LogMass
  <2>4. /\ mode = "recover" /\ mode # "up" /\ mode # "read"
        /\ Working = {} /\ leaving = {} /\ deleting = {} /\ enqPool = <<>>
    <3>1. mode = "recover"
      BY <2>1, <2>3, Zenon DEF Phases
    <3>2. mode # "up" /\ mode # "read"
      BY <3>1
    <3> QED
      BY <2>1, <3>1, <3>2, Zenon DEF Phases
  <2>5. /\ closing' \in Seq([log : {"enq", "deq"}, ops : SUBSET Ops]) /\ 1 \in DOMAIN closing /\ c = closing[1]
        /\ \A i \in DOMAIN closing' : i + 1 \in DOMAIN closing /\ closing'[i] = closing[i + 1]
        /\ \A i \in DOMAIN closing : i = 1 \/ (i - 1 \in DOMAIN closing' /\ closing'[i - 1] = closing[i])
    <3>1. closing \in Seq([log : {"enq", "deq"}, ops : SUBSET Ops])
      BY <2>1, Zenon DEF TypeOK
    <3>2. PICK S : S = [log : {"enq", "deq"}, ops : SUBSET Ops]
      BY Zenon
    <3>3. closing \in Seq(S)
      BY <3>1, <3>2, Zenon
    <3>4. /\ closing' \in Seq(S) /\ 1 \in DOMAIN closing /\ c = closing[1]
          /\ \A i \in DOMAIN closing' : i + 1 \in DOMAIN closing /\ closing'[i] = closing[i + 1]
          /\ \A i \in DOMAIN closing : i = 1 \/ (i - 1 \in DOMAIN closing' /\ closing'[i - 1] = closing[i])
      BY <2>2, <2>3, <3>3
    <3> QED
      BY <3>2, <3>4, Zenon
  <2>6. /\ enqLog' \subseteq enqLog
        /\ \A r \in enqLog : r \in enqLog' <=> ~(c.log = "enq" /\ r.op \in c.ops)
    BY <2>3, Zenon DEF Without
  <2>7. TypeOK'
    <3>1. enqLog' \subseteq Tasks /\ deqLog' \subseteq Ops
      BY <2>1, <2>3, <2>6, Zenon DEF TypeOK
    <3> QED
      BY <2>1, <2>3, <2>5, <3>1, Zenon DEF TypeOK, ids, tasks, broker, escapes
  <2>8. Recs' \subseteq Recs /\ Claims' \subseteq Claims
    <3>1. Recs' \subseteq Recs
      BY <2>3, <2>6, Zenon DEF Recs, Working, Scheduled, tasks
    <3>2. Moved /\ pid' = pid
      BY <2>3, <3>1, Zenon DEF Moved, broker
    <3> QED
      BY <3>1, <3>2, <1>MovedClaims, Zenon
  <2>9. Owed' = Owed /\ Stores' = Stores
    BY <2>3, Zenon DEF Owed, Unasked, Stores
  <2>10. \A w \in Owed : w \in Covered => w \in Covered'
    <3>1. \A r \in enqLog : Pair(r) \in Owed => r \in enqLog'
      BY <2>1, <2>4, <2>5, <2>6, Zenon DEF Recovering
    <3> QED
      BY <2>3, <3>1, Zenon DEF Covered
  <2>11. Kept'
    BY <2>1, <2>3, <2>9, <2>10, Zenon DEF Kept, broker
  <2>12. Recovering'
    <3>1. ASSUME NEW r \in enqLog'
          PROVE  /\ r \in aeset' \/ \E i \in DOMAIN closing' : closing'[i].log = "enq" /\ r.op \in closing'[i].ops
                 /\ Pair(r) \in Owed' => r \in aeset' \/ Pair(r) \in Stores'
                 /\ \A i \in DOMAIN closing' : closing'[i].log = "enq" /\ r.op \in closing'[i].ops =>
                        Pair(r) \notin Owed'
      <4>1. r \in enqLog /\ ~(closing[1].log = "enq" /\ r.op \in closing[1].ops)
        BY <2>5, <2>6, Zenon
      <4>2. /\ r \in aeset \/ \E i \in DOMAIN closing : closing[i].log = "enq" /\ r.op \in closing[i].ops
            /\ Pair(r) \in Owed => r \in aeset \/ Pair(r) \in Stores
            /\ \A i \in DOMAIN closing : closing[i].log = "enq" /\ r.op \in closing[i].ops => Pair(r) \notin Owed
        BY <2>1, <2>4, <4>1, Zenon DEF Recovering
      <4>3. r \in aeset' \/ \E i \in DOMAIN closing' : closing'[i].log = "enq" /\ r.op \in closing'[i].ops
        <5>1. CASE r \in aeset
          BY <2>3, <5>1, Zenon
        <5>2. CASE r \notin aeset
          <6>1. PICK i \in DOMAIN closing : closing[i].log = "enq" /\ r.op \in closing[i].ops
            BY <4>2, <5>2, Zenon
          <6>2. i # 1
            BY <4>1, <6>1, Zenon
          <6>3. i - 1 \in DOMAIN closing' /\ closing'[i - 1] = closing[i]
            BY <2>5, <6>2, Zenon
          <6> QED
            BY <6>1, <6>3, Zenon
        <5> QED
          BY <5>1, <5>2, Zenon
      <4>4. \A i \in DOMAIN closing' : closing'[i].log = "enq" /\ r.op \in closing'[i].ops => Pair(r) \notin Owed'
        BY <2>5, <2>9, <4>2, Zenon
      <4> QED
        BY <2>3, <2>9, <4>2, <4>3, <4>4, Zenon
    <3>2. \A r \in db' : r.op \in discard' => Pair(r) \notin Owed'
      BY <2>1, <2>3, <2>4, <2>9, Zenon DEF Recovering
    <3>3. todo' # Queues => Useless' = {} /\ Transients' = {}
      <4>1. Useless' = Useless /\ Transients' = Transients
        BY <2>3, Zenon DEF Useless, Transients
      <4> QED
        BY <2>1, <2>3, <2>4, <4>1, Zenon DEF Recovering
    <3> QED
      BY <3>1, <3>2, <3>3, Zenon DEF Recovering
  <2>13. Found'
    BY <2>1, <2>3, Zenon DEF Found, Fresh, broker
  <2>14. /\ entering' = {} /\ leaving' = {} /\ enqPool' = <<>> /\ storing' = {} /\ deleting' = {}
         /\ mode' # "up" /\ mode' # "read" /\ mode' = "recover"
    BY <2>3, <2>4, Zenon DEF Working, tasks
  <2>15. \A w \in Pairs : onQueue'[w] > 0 => pid'[w[1]] # 0 /\ stage[w] # "none"
    BY <2>1, <2>3, Zenon DEF Sent, broker
  <2> QED
    BY <2>3, <2>7, <2>8, <2>11, <2>12, <2>13, <2>14, <2>15, <1>DownStep, Zenon

\* The journals discard what was registered, none of which is owed.
<1>DiscardStep.
    ASSUME NEW op \in discard, Discard(op)
    PROVE  StoreInv'
  <2> USE <1>DiscardStep
  <2>1. TypeOK /\ Named /\ Sent /\ Phases /\ Kept /\ Recovering /\ Found
    BY Zenon DEF StoreInv
  <2>2. /\ mode = "recover" /\ db' = Without(db, {op}) /\ discard' = discard \ {op}
        /\ UNCHANGED <<ids, tasks, broker, enqLog, deqLog, mode, todo, adset, aeset, closing, highestRid,
                       localLastPid, stage, victims, escapes, crashes>>
    BY Zenon DEF Discard, Discarding
  <2>3. /\ mode # "up" /\ mode # "read"
        /\ Working = {} /\ leaving = {} /\ deleting = {} /\ enqPool = <<>>
    <3>1. mode # "up" /\ mode # "read"
      BY <2>2
    <3> QED
      BY <2>1, <3>1, Zenon DEF Phases
  <2>4. db' \subseteq db /\ \A r \in db : r \in db' \/ Pair(r) \notin Owed
    <3>1. \A r \in db : r.op = op => Pair(r) \notin Owed
      BY <2>1, <2>2, Zenon DEF Recovering
    <3> QED
      BY <2>2, <3>1, Zenon DEF Without
  <2>5. TypeOK'
    <3>1. db' \subseteq Tasks /\ discard' \subseteq Ops
      BY <2>1, <2>2, <2>4, Zenon DEF TypeOK
    <3> QED
      BY <2>1, <2>2, <3>1, Zenon DEF TypeOK, ids, tasks, broker, escapes
  <2>6. Recs' \subseteq Recs /\ Claims' \subseteq Claims
    <3>1. Recs' \subseteq Recs
      BY <2>2, <2>4, Zenon DEF Recs, Working, Scheduled, tasks
    <3>2. Moved /\ pid' = pid
      BY <2>2, <3>1, Zenon DEF Moved, broker
    <3> QED
      BY <3>1, <3>2, <1>MovedClaims, Zenon
  <2>7. Owed' = Owed
    BY <2>2, Zenon DEF Owed, Unasked
  <2>8. \A w \in Owed : (w \in Covered => w \in Covered') /\ (w \in Stores => w \in Stores')
    BY <2>2, <2>4, Zenon DEF Covered, Stores
  <2>9. Kept'
    BY <2>1, <2>2, <2>7, <2>8, Zenon DEF Kept, broker
  <2>10. Recovering'
    <3>1. ASSUME NEW r \in enqLog'
          PROVE  /\ r \in aeset' \/ \E i \in DOMAIN closing' : closing'[i].log = "enq" /\ r.op \in closing'[i].ops
                 /\ Pair(r) \in Owed' => r \in aeset' \/ Pair(r) \in Stores'
                 /\ \A i \in DOMAIN closing' : closing'[i].log = "enq" /\ r.op \in closing'[i].ops =>
                        Pair(r) \notin Owed'
      <4>1. /\ r \in aeset \/ \E i \in DOMAIN closing : closing[i].log = "enq" /\ r.op \in closing[i].ops
            /\ Pair(r) \in Owed => r \in aeset \/ Pair(r) \in Stores
            /\ \A i \in DOMAIN closing : closing[i].log = "enq" /\ r.op \in closing[i].ops => Pair(r) \notin Owed
        BY <2>1, <2>2, Zenon DEF Recovering
      <4>2. closing' = closing /\ aeset' = aeset
        BY <2>2, Zenon
      <4> QED
        BY <2>7, <2>8, <4>1, <4>2, Zenon
    <3>2. \A r \in db' : r.op \in discard' => Pair(r) \notin Owed'
      BY <2>1, <2>2, <2>4, <2>7, Zenon DEF Recovering
    <3>3. todo' # Queues => Useless' = {} /\ Transients' = {}
      <4>1. Useless' = Useless /\ Transients' = Transients
        BY <2>2, Zenon DEF Useless, Transients
      <4> QED
        BY <2>1, <2>2, <4>1, Zenon DEF Recovering
    <3> QED
      BY <3>1, <3>2, <3>3, Zenon DEF Recovering
  <2>11. Found'
    <3>1. \A r \in db' : r \in db /\ (r.op \in discard => r.op \in discard')
      BY <2>2, <2>4, Zenon DEF Without
    <3>2. \A r \in db' : r.op[2] \notin todo =>
              r.op \in discard' \/ (pid[r.msg] # 0 /\ r.op[1] <= highestRid)
      BY <2>1, <2>2, <3>1, Zenon DEF Found
    <3> QED
      BY <2>1, <2>2, <3>2, Zenon DEF Found, Fresh, broker
  <2>12. /\ entering' = {} /\ leaving' = {} /\ enqPool' = <<>> /\ storing' = {} /\ deleting' = {}
         /\ mode' # "up" /\ mode' # "read" /\ mode' = "recover"
    BY <2>2, <2>3, Zenon DEF Working, tasks
  <2>13. \A w \in Pairs : onQueue'[w] > 0 => pid'[w[1]] # 0 /\ stage[w] # "none"
    BY <2>1, <2>2, Zenon DEF Sent, broker
  <2> QED
    BY <2>2, <2>5, <2>6, <2>9, <2>10, <2>11, <2>12, <2>13, <1>DownStep, Zenon

(***************************************************************************)
(* The process is up again: the next id is above every id found, and what  *)
(* the log still holds is in the pool.                                     *)
(***************************************************************************)
<1>ResurrectStep.
    ASSUME Resurrect
    PROVE  StoreInv'
  <2> USE <1>ResurrectStep
  <2>1. TypeOK /\ Named /\ Sent /\ Phases /\ Kept /\ Recovering /\ Found
    BY Zenon DEF StoreInv
  <2>2. mode = "recover" /\ todo = {} /\ closing = <<>> /\ discard = {}
    BY Zenon DEF Resurrect, Discarding
  <2>3. /\ Useless = {} /\ OpsOf(Useless) = {}
        /\ aeset \ Useless = aeset
    <3>1. todo # Queues
      BY <2>2, Assumptions, Zenon
    <3>2. Useless = {}
      BY <2>1, <2>2, <3>1, Zenon DEF Recovering
    <3> QED
      BY <3>2, Zenon DEF OpsOf
  <2>4. PICK n, s : /\ n = Cardinality(aeset) /\ s \in [1..n -> aeset] /\ Range(s) = aeset /\ enqPool' = s
                    /\ \A i, j \in 1..n : i < j =>
                          s[i].op[2] < s[j].op[2] \/ (s[i].op[2] = s[j].op[2] /\ s[i].op[1] < s[j].op[1])
    <3>1. PICK left : left = aeset \ Useless
      BY Zenon
    <3>2. \E s \in [1..Cardinality(left) -> left] :
              /\ Range(s) = left
              /\ \A i, j \in 1..Cardinality(left) : i < j =>
                    s[i].op[2] < s[j].op[2] \/ (s[i].op[2] = s[j].op[2] /\ s[i].op[1] < s[j].op[1])
              /\ enqPool' = s
      BY <3>1, Zenon DEF Resurrect
    <3>3. left = aeset
      BY <2>3, <3>1, Zenon
    <3> QED
      BY <3>2, <3>3, Zenon
  <2>5. /\ mode' = "up" /\ nextId' = highestRid + 1 /\ lastPid' = localLastPid /\ gapPidSet' = {}
        /\ pendMap' = (IF Smart THEN OpsOf(aeset) ELSE {})
        /\ deleting' = {[op |-> o, msg |-> NoMsg, at |-> "wait"] : o \in adset}
        /\ enqLog' \subseteq enqLog /\ enqLog \subseteq enqLog' /\ deqLog' \subseteq deqLog
        /\ adset' = {} /\ aeset' = {}
        /\ UNCHANGED <<dupMap, entering, leaving, storing, broker, db, todo, discard, closing, highestRid,
                       localLastPid, stage, victims, escapes, crashes>>
    <3>1. adset \ OpsOf(Useless) = adset
      BY <2>3, Zenon
    <3>2. deleting' = {[op |-> o, msg |-> NoMsg, at |-> "wait"] : o \in adset}
      BY <3>1, Zenon DEF Resurrect
    <3>3. pendMap' = (IF Smart THEN OpsOf(aeset) ELSE {})
      BY <2>3, Zenon DEF Resurrect
    <3>4. enqLog' \subseteq enqLog /\ enqLog \subseteq enqLog' /\ deqLog' \subseteq deqLog
      BY <2>3, Zenon DEF Resurrect, Without
    <3> QED
      BY <3>2, <3>3, <3>4, Zenon DEF Resurrect
  <2>6. /\ mode # "up" /\ mode' # "recover" /\ mode' # "read"
        /\ Working = {} /\ leaving = {} /\ entering = {} /\ storing = {}
    <3>1. mode # "up" /\ mode' # "recover" /\ mode' # "read"
      BY <2>2, <2>5
    <3>2. Working = {} /\ leaving = {}
      BY <2>1, <3>1, Zenon DEF Phases
    <3> QED
      BY <3>1, <3>2, Zenon DEF Working
  <2>7. enqPool' \in Seq(aeset) /\ DOMAIN enqPool' = 1..n /\ n \in Nat
    <3>1. IsFiniteSet(aeset)
      BY <2>1, RecordsFinite, Zenon DEF TypeOK
    <3>2. n \in Nat
      BY <2>4, <3>1, FS_CardinalityType, Zenon
    <3> QED
      BY <2>4, <3>2
  <2>8. Scheduled' = aeset
    <3>1. Range(s) = {s[i] : i \in DOMAIN s}
      BY Zenon DEF Range
    <3>2. Scheduled' = {enqPool'[i] : i \in DOMAIN enqPool'}
      BY Zenon DEF Scheduled
    <3>3. enqPool' = s /\ Range(s) = aeset
      BY <2>4, Zenon
    <3> QED
      BY <3>1, <3>2, <3>3, Zenon
  <2>9. \A r \in enqLog : r \in aeset
    <3>1. DOMAIN closing = {}
      BY <2>2
    <3> QED
      BY <2>1, <2>2, <3>1, Zenon DEF Recovering
  <2>10. Recs' \subseteq db \union aeset /\ Recs' \subseteq Recs
    <3>1. Recs' \subseteq db \union aeset
      BY <2>5, <2>6, <2>8, <2>9, Zenon DEF Recs, Working
    <3> QED
      BY <3>1, Zenon DEF Recs
  <2>11. highestRid \in 0..MaxMsgs /\ nextId' \in 1..(MaxMsgs + 1) /\ nextId' = highestRid + 1
    <3>1. highestRid \in 0..MaxMsgs
      BY <2>1, Zenon DEF TypeOK
    <3>2. nextId' = highestRid + 1
      BY <2>5, Zenon
    <3>3. MaxMsgs \in Nat
      BY Assumptions, Zenon
    <3> QED
      BY <3>1, <3>2, <3>3
  <2>12. TypeOK'
    <3>1. enqPool' \in Seq(Tasks)
      <4>1. aeset \subseteq Tasks
        BY <2>1, Zenon DEF TypeOK
      <4> QED
        BY <2>7, <4>1
    <3>2. deleting' \subseteq [op : Ops, msg : Msgs \union {NoMsg}, at : {"wait", "log"}]
      <4>1. \A o \in Ops : [op |-> o, msg |-> NoMsg, at |-> "wait"]
                              \in [op : Ops, msg : Msgs \union {NoMsg}, at : {"wait", "log"}]
        OBVIOUS
      <4>2. adset \subseteq Ops
        BY <2>1, Zenon DEF TypeOK
      <4> QED
        BY <2>5, <4>1, <4>2, Zenon
    <3>3. pendMap' \subseteq Ops
      <4>1. OpsOf(aeset) \subseteq Ops
        BY <2>1, RecsTyped, Zenon DEF OpsOf, Recs
      <4> QED
        BY <2>5, <4>1, Zenon
    <3>4. enqLog' \subseteq Tasks /\ deqLog' \subseteq Ops
      BY <2>1, <2>5, Zenon DEF TypeOK
    <3> QED
      BY <2>1, <2>5, <2>11, <3>1, <3>2, <3>3, <3>4, Zenon DEF TypeOK, broker, escapes
  <2>13. Fresh' = Fresh
    BY <2>5, Zenon DEF Fresh
  <2>14. Claims' \subseteq Claims
    <3>1. Moved /\ pid' = pid
      BY <2>5, <2>10, Zenon DEF Moved, broker
    <3> QED
      BY <3>1, <1>MovedClaims, Zenon
  <2>15. Named'
    <3>1. ASSUME NEW r \in Recs' PROVE pid[r.msg] # 0 /\ r.op[1] <= highestRid /\ r.op[1] \in Msgs
      <4>1. r.op[1] \in Msgs
        BY <2>1, <2>10, RecsTyped, Zenon
      <4>2. pid[r.msg] # 0 /\ r.op[1] <= highestRid
        BY <2>1, <2>2, <2>10, Zenon DEF Found
      <4> QED
        BY <4>1, <4>2, Zenon
    <3>2. Claims' \subseteq {c \in Claims : pid[c[2]] # 0 /\ c[1] <= highestRid}
      <4>1. ASSUME NEW r \in Recs'
            PROVE  <<r.op[1], r.msg>> \in {c \in Claims : pid[c[2]] # 0 /\ c[1] <= highestRid}
        <5>1. <<r.op[1], r.msg>> \in Claims
          BY <2>10, Zenon DEF Claims
        <5>2. <<r.op[1], r.msg>>[1] = r.op[1] /\ <<r.op[1], r.msg>>[2] = r.msg
          OBVIOUS
        <5> QED
          BY <3>1, <5>1, <5>2, Zenon
      <4>2. ASSUME NEW m \in Msgs, pid'[m] # 0
            PROVE  <<pid'[m], m>> \in {c \in Claims : pid[c[2]] # 0 /\ c[1] <= highestRid}
        <5>1. pid'[m] = pid[m] /\ pid[m] # 0 /\ pid[m] <= highestRid
          BY <2>1, <2>2, <2>5, <4>2, Zenon DEF broker, Found
        <5>2. <<pid[m], m>> \in Claims
          BY <5>1, Zenon DEF Claims
        <5>3. <<pid[m], m>>[1] = pid[m] /\ <<pid[m], m>>[2] = m
          OBVIOUS
        <5> QED
          BY <5>1, <5>2, <5>3, Zenon
      <4> QED
        BY <4>1, <4>2, <1>ClaimsIn, Zenon
    <3>3. ASSUME NEW c \in Claims' PROVE pid'[c[2]] # 0 /\ c[1] < nextId'
      <4>1. c[1] <= highestRid /\ pid[c[2]] # 0 /\ c[1] \in Msgs
        BY <2>1, <3>2, Zenon DEF Named
      <4>2. c[1] < nextId'
        BY <2>11, <4>1, Assumptions DEF Msgs
      <4> QED
        BY <2>5, <4>1, <4>2, Zenon DEF broker
    <3>4. ASSUME NEW m \in Fresh' PROVE nextId' <= m
      <4>1. m \in Msgs /\ highestRid < m
        BY <2>1, <2>2, <2>13, Zenon DEF Found, Fresh
      <4> QED
        BY <2>11, <4>1, Assumptions DEF Msgs
    <3> QED
      BY <2>1, <2>13, <2>14, <3>3, <3>4, Zenon DEF Named
  <2>16. Sent'
    BY <2>1, <2>5, <2>10, <2>13, Zenon DEF Sent, broker
  <2>17. Phases' /\ Recovering' /\ Found'
    BY <2>2, <2>5, <2>6, Zenon DEF Phases, Recovering, Found
  <2>18. Owed' = Owed /\ Covered' = Covered
    BY <2>5, Zenon DEF Owed, Unasked, Covered
  <2>19. Kept'
    <3>1. \A w \in Owed : stage[w] = "acked" => w \in Covered /\ onQueue[w] > 0
      BY <2>1, <2>2, Zenon DEF Kept
    <3> QED
      BY <2>5, <2>18, <3>1, Zenon DEF Kept, broker
  <2>20. Entered'
    BY <2>5, <2>6, Zenon DEF Entered
  <2>21. Stored'
    <3>1. ASSUME NEW i \in 1..n, NEW j \in 1..n, s[i].op = s[j].op PROVE i = j
      <4>1. \A k \in 1..n : s[k].op[1] \in Msgs /\ s[k].op[2] \in Queues
        BY <2>1, <2>4, RecsTyped, Zenon DEF Recs
      <4>2. s[i].op[1] \in Int /\ s[i].op[2] \in Int
        <5>1. s[i].op[1] \in Msgs /\ s[i].op[2] \in Queues
          BY <4>1, Zenon
        <5>2. (\A x \in Msgs : x \in Int) /\ (\A x \in Queues : x \in Int)
          BY Assumptions DEF Msgs
        <5> QED
          BY <5>1, <5>2, Zenon
      <4>3. ~(s[i].op[1] < s[i].op[1]) /\ ~(s[i].op[2] < s[i].op[2])
        BY <4>2
      <4>4. ~(i < j) /\ ~(j < i)
        BY <2>4, <3>1, <4>3, Zenon
      <4> QED
        BY <2>7, <4>4
    <3>2. Smart => \A t \in Scheduled' : t.op \in pendMap'
      BY <2>5, <2>8, Zenon DEF OpsOf
    <3>3. storing' = {} /\ DOMAIN enqPool' = 1..n /\ enqPool' = s
      BY <2>4, <2>5, <2>6, <2>7, Zenon
    <3>4. \A i, j \in DOMAIN enqPool' : enqPool'[i].op = enqPool'[j].op => i = j
      BY <3>1, <3>3, Zenon
    <3> QED
      BY <3>2, <3>3, <3>4, Zenon DEF Stored
  <2> QED
    BY <2>12, <2>15, <2>16, <2>17, <2>19, <2>20, <2>21, Zenon DEF StoreInv

\* The invariant does not depend on anything but the variables.
<1>StoreStutter.
    ASSUME UNCHANGED vars
    PROVE  StoreInv'
  <2> USE <1>StoreStutter
  <2>1. UNCHANGED <<nextId, lastPid, gapPidSet, dupMap, pendMap, entering, leaving, enqPool, storing, deleting,
                    pid, onQueue, db, enqLog, deqLog, mode, todo, adset, aeset, discard, closing, highestRid,
                    localLastPid, stage, victims, overtaken, reopened, interrupted, unlogged, crashes>>
    BY Zenon DEF vars, ids, tasks, broker, disk, recovery, escapes
  <2>2. /\ TypeOK' = TypeOK /\ Fresh' = Fresh /\ Unasked' = Unasked /\ Scheduled' = Scheduled
        /\ Stores' = Stores /\ Covered' = Covered /\ Useless' = Useless
    BY <2>1, Zenon DEF TypeOK, Fresh, Unasked, Scheduled, Stores, Covered, Useless
  <2>3. Owed' = Owed /\ Transients' = Transients /\ Working' = Working
    BY <2>1, <2>2, Zenon DEF Owed, Transients, Working
  <2>4. Recs' = Recs
    BY <2>1, <2>3, Zenon DEF Recs
  <2>5. Claims' = Claims
    BY <2>1, <2>4, Zenon DEF Claims
  <2>6. TypeOK' /\ Named' /\ Sent' /\ Phases'
    BY <2>1, <2>2, <2>3, <2>4, <2>5, Zenon DEF StoreInv, Named, Sent, Phases
  <2>7. Kept' /\ Entered' /\ Stored'
    BY <2>1, <2>2, <2>3, Zenon DEF StoreInv, Kept, Entered, Stored, OpsOf
  <2>8. Recovering' /\ Found'
    BY <2>1, <2>2, <2>3, Zenon DEF StoreInv, Recovering, Found
  <2> QED
    BY <2>6, <2>7, <2>8, Zenon DEF StoreInv

<1>1. CASE Broker
  BY <1>1, <1>EnqueueNewStep, <1>EnqueueAgainStep, <1>DequeueBeginStep, Zenon DEF Broker
<1>2. CASE Progress
  BY <1>2, <1>EnqueueLogStep, <1>EnqueueScheduleStep, <1>DequeueEndStep, <1>TakeStoreStep, <1>PutStep, <1>StoreLogStep,
     <1>StoreAddStep, <1>RemoveMsgStep, <1>RemoveLogStep, Zenon DEF Progress
<1>3. CASE Recover
  BY <1>3, <1>ReadLogsStep, <1>LogMassStep, <1>ResurrectStep, <1>RecoverQueueStep, <1>DiscardStep, Zenon DEF Recover
<1>4. CASE Crash
  BY <1>4, <1>CrashStep, Zenon
<1>5. CASE UNCHANGED vars
  BY <1>5, <1>StoreStutter, Zenon
<1> QED
  BY <1>1, <1>2, <1>3, <1>4, <1>5, Zenon DEF Next

-----------------------------------------------------------------------------
\* The invariant holds in the empty store.
LEMMA StoreInit ==
    ASSUME Init
    PROVE  StoreInv
<1>1. TypeOK
  <2>1. /\ nextId \in 1..(MaxMsgs + 1) /\ lastPid \in 0..MaxMsgs
        /\ highestRid \in 0..MaxMsgs /\ localLastPid \in 0..MaxMsgs /\ crashes \in 0..MaxCrashes
    BY Assumptions DEF Init
  <2>2. pid \in [Msgs -> 0..MaxMsgs] /\ onQueue \in [Pairs -> Nat] /\ stage \in [Pairs -> Stages]
    BY Assumptions DEF Init, Stages
  <2>3. enqPool \in Seq(Tasks) /\ closing \in Seq([log : {"enq", "deq"}, ops : SUBSET Ops])
    BY DEF Init
  <2>4. UNION {victims, overtaken, reopened, interrupted, unlogged} \subseteq Pairs
    <3>1. victims = {} /\ overtaken = {} /\ reopened = {} /\ interrupted = {} /\ unlogged = {}
      BY Zenon DEF Init
    <3> QED
      BY <3>1
  <2> QED
    BY <2>1, <2>2, <2>3, <2>4, Zenon DEF TypeOK, Init
<1>2. /\ mode = "up" /\ mode # "recover" /\ mode # "read" /\ DOMAIN enqPool = {} /\ nextId = 1
      /\ \A w \in Pairs : ~(onQueue[w] > 0)
  BY DEF Init
<1>3. /\ \A w \in Pairs : stage[w] = "none"
      /\ \A m \in Msgs : pid[m] = 0
  BY Zenon DEF Init
<1>4. Scheduled = {}
  BY <1>2, Zenon DEF Scheduled
<1>5. Recs = {} /\ Working = {} /\ leaving = {} /\ deleting = {} /\ enqPool = <<>> /\ aeset = {}
      /\ discard = {} /\ closing = <<>> /\ entering = {} /\ storing = {}
  BY <1>4, Zenon DEF Recs, Working, Init
<1>6. Claims = {}
  BY <1>3, <1>5, Zenon DEF Claims
<1>7. Fresh = Msgs
  BY <1>3, Zenon DEF Fresh, Pairs
<1>8. Named /\ Sent
  <2>1. \A m \in Fresh : nextId <= m
    BY <1>2, <1>7, Assumptions DEF Msgs
  <2> QED
    BY <1>2, <1>5, <1>6, <1>7, <2>1, Zenon DEF Named, Sent
<1>9. Unasked = {}
  BY <1>3, Zenon DEF Unasked
<1>10. Kept /\ Phases /\ Recovering /\ Found
  BY <1>2, <1>5, <1>9, Zenon DEF Kept, Owed, Phases, Recovering, Found
<1>11. Entered /\ Stored
  BY <1>2, <1>4, <1>5, Zenon DEF Entered, Stored
<1> QED
  BY <1>1, <1>8, <1>10, <1>11, Zenon DEF StoreInv

(***************************************************************************)
(* The invariant of the message path, for any number of messages, queues,  *)
(* threads, workers and crashes, and any option: ids in use name one       *)
(* message each, what is owed has a copy on disk and is on its queue, and  *)
(* recovery at each of its steps has lost none of it.                      *)
(***************************************************************************)
THEOREM StoreInvariance == Spec => []StoreInv
<1>1. Init => StoreInv
  BY StoreInit, Zenon
<1>2. StoreInv /\ [Next]_vars => StoreInv'
  BY StoreStep, Zenon
<1> QED
  BY <1>1, <1>2, PTL DEF Spec

\* Every variable of the message path keeps its type.
THEOREM StoreTypes == Spec => []TypeOK
<1>1. StoreInv => TypeOK
  BY Zenon DEF StoreInv
<1> QED
  BY <1>1, StoreInvariance, PTL

(***************************************************************************)
(* No loss: over any crashes, a persistent message whose enqueue returned  *)
(* and whose dequeue was not asked for is on its queue when the broker is  *)
(* up and is in the database or in the enqueue log, unless a dequeue of    *)
(* another message dropped it.                                             *)
(***************************************************************************)
THEOREM NeverLost == Spec => []NoLoss
<1>1. StoreInv => NoLoss
  <2> SUFFICES ASSUME StoreInv, mode = "up", NEW w \in Pairs,
                      stage[w] = "acked", w[1] \notin TransientMsgs, w \notin victims
               PROVE  onQueue[w] > 0 /\ Copies(w) # {}
    BY Zenon DEF NoLoss
  <2>1. w \in Owed
    BY Zenon DEF Owed, Unasked
  <2>2. w \in Covered /\ onQueue[w] > 0
    BY <2>1, Zenon DEF StoreInv, Kept
  <2> QED
    BY <2>2, Zenon DEF Covered, Copies
<1> QED
  BY <1>1, StoreInvariance, PTL
===============================================================================
