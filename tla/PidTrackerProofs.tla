---------------------------- MODULE PidTrackerProofs ----------------------------
(***************************************************************************)
(* Proofs about PidTracker, for any number of queues, messages and         *)
(* threads, any number of tries and either setting of the options. First   *)
(* the gap loop of addPid, type correctness, and the two invariants about  *)
(* who owns which task.                                                    *)
(***************************************************************************)
EXTENDS PidTracker, WellFoundedInduction, TLAPS

(***************************************************************************)
(* A nonempty set of natural numbers has a least element.                  *)
(***************************************************************************)
LEMMA LeastNatural ==
    ASSUME NEW T \in SUBSET Nat, T # {}
    PROVE  \E x \in T : \A y \in T : x <= y
<1>1. \E x \in T : \A y \in T : ~(<<y, x>> \in OpToRel(<, Nat))
  BY NatLessThanWellFounded, WFMin, Zenon
<1>2. PICK x \in T : \A y \in T : ~(<<y, x>> \in OpToRel(<, Nat))
  BY <1>1, Zenon
<1>3. \A y \in T : ~(y < x)
  BY <1>2, Zenon DEF OpToRel
<1> QED
  BY <1>3

(***************************************************************************)
(* The gap loop of addPid has an end: EndOfRun is the last id of the       *)
(* unbroken run of ids of the gap set that starts after `last'.            *)
(***************************************************************************)
LEMMA EndOfRunExists ==
    ASSUME NEW last \in 0..MaxPid, NEW gap \in SUBSET Pids
    PROVE  /\ EndOfRun(last, gap) \in {last} \union gap
           /\ EndOfRun(last, gap) \in last..MaxPid
           /\ \A i \in (last + 1)..EndOfRun(last, gap) : i \in gap
           /\ EndOfRun(last, gap) + 1 \notin gap
<1> DEFINE T == {m \in Nat : m > last /\ m \notin gap}
<1> USE Assumptions
<1>1. MaxPid + 1 \in T
  BY DEF Pids
<1>2. PICK m \in T : \A y \in T : m <= y
  BY <1>1, LeastNatural, Zenon
<1>3. /\ m - 1 \in Nat
      /\ m - 1 >= last
      /\ m - 1 <= MaxPid
      /\ m = (m - 1) + 1
      /\ m \notin gap
  BY <1>1, <1>2
<1>4. \A i \in (last + 1)..(m - 1) : i \in gap
  BY <1>2
<1>5. m - 1 \in {last} \union gap
  BY <1>3, <1>4
<1>6. \E n \in {last} \union gap :
        /\ n >= last
        /\ \A i \in (last + 1)..n : i \in gap
        /\ n + 1 \notin gap
  BY <1>3, <1>4, <1>5, Zenon
<1>7. /\ EndOfRun(last, gap) \in {last} \union gap
      /\ EndOfRun(last, gap) >= last
      /\ \A i \in (last + 1)..EndOfRun(last, gap) : i \in gap
      /\ EndOfRun(last, gap) + 1 \notin gap
  BY <1>6, Zenon DEF EndOfRun
<1>8. \A n \in {last} \union gap : n >= last => n \in last..MaxPid
  BY DEF Pids
<1> QED
  BY <1>7, <1>8, Zenon

(***************************************************************************)
(* Within the window of an int, the cast in addPid is plain subtraction.   *)
(***************************************************************************)
LEMMA IntDiffExact ==
    ASSUME NEW a \in 0..MaxPid, NEW b \in 0..MaxPid
    PROVE  IntDiff(a, b) = a - b
<1> USE Assumptions
<1> DEFINE m == (a - b) % (2 * HalfInt)
<1>1. CASE a >= b
  <2>1. m = a - b
    BY <1>1
  <2> QED BY <2>1, <1>1 DEF IntDiff
<1>2. CASE a < b
  <2>1. m = (a - b) + 2 * HalfInt
    BY <1>2
  <2> QED BY <2>1, <1>2 DEF IntDiff
<1> QED BY <1>1, <1>2

-----------------------------------------------------------------------------
(***************************************************************************)
(* What the section of addPid under pidMutex does to lastPid and gapPidSet *)
(* for the pid it reports: nothing becomes tracked but that pid, and       *)
(* lastPid never goes back.                                                *)
(***************************************************************************)
LEMMA AddMainEffect ==
    ASSUME TypeOK, Ownership, NEW t \in Adders, AddMain(t)
    PROVE  /\ lastPid' \in 0..MaxPid /\ gapPidSet' \subseteq Pids
           /\ lastPid <= lastPid'
           /\ lastPid' < nextId /\ \A i \in gapPidSet' : i < nextId
           /\ \A p \in Pids : (p <= lastPid' \/ p \in gapPidSet') =>
                  p <= lastPid \/ p \in gapPidSet \/ p = adderOp[t][1]
<1> DEFINE pid == adderOp[t][1]
           base == Max2(pid, lastPid)
           end == EndOfRun(base, gapPidSet)
<1> USE Assumptions
<1>1. /\ adderOp[t] \in Ops
      /\ adderOp[t] \in enqueued
  BY Zenon DEF AddMain, Ownership, TypeOK
<1>2. /\ pid \in Pids /\ pid < nextId /\ lastPid \in 0..MaxPid
      /\ base \in 0..MaxPid /\ base >= lastPid /\ base \in {pid, lastPid}
  BY <1>1 DEF TypeOK, Ownership, Ops, Pids, Max2
<1>3. gapPidSet \in SUBSET Pids /\ nextId \in Nat
  BY DEF TypeOK
<1>4. IntDiff(pid, lastPid) = pid - lastPid
  <2>1. pid \in 0..MaxPid
    BY <1>2 DEF Pids
  <2> QED
    BY <1>2, <2>1, IntDiffExact, Zenon
<1>5. CASE gapPidSet' \subseteq gapPidSet \union {pid} /\ lastPid' = lastPid
  BY <1>2, <1>3, <1>5 DEF Ownership
<1>6. CASE /\ pid - lastPid <= 1
           /\ gapPidSet' \subseteq gapPidSet
           /\ lastPid' = end
  <2>1. /\ end \in {base} \union gapPidSet
        /\ end \in base..MaxPid
        /\ \A i \in (base + 1)..end : i \in gapPidSet
    BY <1>2, <1>3, EndOfRunExists, Zenon
  <2> HIDE DEF end, base
  <2>2. end < nextId /\ end >= lastPid /\ end \in 0..MaxPid
    BY <1>2, <1>3, <2>1 DEF Ownership, Pids
  <2>3. ASSUME NEW p \in Pids, p <= end, p > lastPid, p # pid
        PROVE  p \in gapPidSet
    <3>1. p \in (base + 1)..end
      BY <1>2, <1>6, <2>2, <2>3 DEF Pids
    <3> QED
      BY <2>1, <3>1, Zenon
  <2>4. ASSUME NEW p \in Pids, p <= end \/ p \in gapPidSet'
        PROVE  p <= lastPid \/ p \in gapPidSet \/ p = pid
    <3>1. CASE p <= lastPid
      BY <3>1, Zenon
    <3>2. CASE p > lastPid /\ p <= end
      BY <2>3, <3>2, Zenon
    <3> QED
      BY <1>2, <1>6, <2>4, <3>1, <3>2 DEF Pids
  <2> QED
    BY <1>2, <1>3, <1>6, <2>2, <2>4, Zenon DEF Ownership
<1>7. \/ gapPidSet' \subseteq gapPidSet \union {pid} /\ lastPid' = lastPid
      \/ /\ pid - lastPid <= 1
         /\ gapPidSet' \subseteq gapPidSet
         /\ lastPid' = end
  <2>1. /\ lastPid' = AddPid(lastPid, gapPidSet, pid).last
        /\ gapPidSet' = AddPid(lastPid, gapPidSet, pid).gap
    BY Zenon DEF AddMain
  <2>2. CASE pid - lastPid > 1
    BY <1>4, <2>1, <2>2, Zenon DEF AddPid
  <2>3. CASE ~(pid - lastPid > 1)
    <3>1. /\ lastPid' = end
          /\ gapPidSet' = {i \in gapPidSet : i > end}
      BY <1>4, <2>1, <2>3, Zenon DEF AddPid
    <3> QED
      BY <1>2, <2>3, <3>1 DEF Pids
  <2> QED
    BY <2>2, <2>3, Zenon
<1> QED
  BY <1>5, <1>6, <1>7, Zenon

-----------------------------------------------------------------------------
(***************************************************************************)
(* Type correctness.                                                       *)
(***************************************************************************)
LEMMA TypeInit == Init => TypeOK
<1> SUFFICES ASSUME Init PROVE TypeOK
  BY Zenon
<1>1. lastPid \in 0..MaxPid /\ nextId \in 1..(MaxPid + 1)
  BY Assumptions DEF Init
<1>2. /\ adderPc \in [Adders -> AdderPcs] /\ adderOp \in [Adders -> Ops \union {NoOp}]
      /\ waiterPc \in [Waiters -> WaiterPcs] /\ waiterOp \in [Waiters -> Ops \union {NoOp}]
      /\ tries \in [Waiters -> Nat]
  BY Zenon DEF Init, AdderPcs, WaiterPcs
<1>3. stopped \in BOOLEAN /\ finalPc \in FinalPcs
  BY Zenon DEF Init, FinalPcs
<1> QED
  BY <1>1, <1>2, <1>3, Zenon DEF Init, TypeOK

\* Every step keeps the types.
LEMMA TypeStep == TypeOK /\ Ownership /\ [Next]_vars => TypeOK'
<1> SUFFICES ASSUME TypeOK, Ownership, [Next]_vars
             PROVE  TypeOK'
  BY Zenon
<1> USE Assumptions DEF TypeOK, tracker, adders, waiters, broker
<1>1. ASSUME NEW q \in Queues, EnqueueNew(q) PROVE TypeOK'
  BY <1>1 DEF EnqueueNew, Schedule, Ops, Pids
<1>2. ASSUME NEW p \in Pids, NEW q \in Queues, EnqueueAgain(p, q) PROVE TypeOK'
  BY <1>2 DEF EnqueueAgain, Schedule, Ops
<1>3. ASSUME NEW op \in Ops, Dequeue(op) PROVE TypeOK'
  BY <1>3, Zenon DEF Dequeue
<1>4. ASSUME NEW t \in Adders, AdderStep(t) PROVE TypeOK'
  <2>1. ASSUME NEW op \in Ops, TakeStore(t, op) PROVE TypeOK'
    BY <2>1, Zenon DEF TakeStore, AdderPcs
  <2>2. ASSUME Put(t) PROVE TypeOK'
    BY <2>2, Zenon DEF Put, AdderGoto, AdderPcs, Ownership
  <2>3. ASSUME AddDup(t) PROVE TypeOK'
    BY <2>3, Zenon DEF AddDup, AdderGoto, AdderPcs
  <2>4. ASSUME NotifyDup(t) PROVE TypeOK'
    BY <2>4, Zenon DEF NotifyDup, WakeAll, AdderGoto, AdderPcs, WaiterPcs
  <2>5. ASSUME AddMain(t) PROVE TypeOK'
    <3>1. lastPid' \in 0..MaxPid /\ gapPidSet' \subseteq Pids
      BY <2>5, AddMainEffect, Zenon
    <3> QED
      BY <2>5, <3>1, Zenon DEF AddMain, AdderGoto, AdderReturn, AdderPcs
  <2>6. ASSUME NotifyMain(t) PROVE TypeOK'
    BY <2>6, SMTT(20) DEF NotifyMain, WakeAll, AdderReturn, AdderPcs, WaiterPcs
  <2> QED
    BY <1>4, <2>1, <2>2, <2>3, <2>4, <2>5, <2>6, Zenon DEF AdderStep
<1>5. ASSUME NEW t \in Waiters, WaiterStep(t) PROVE TypeOK'
  <2> USE DEF WaiterGoto, WaiterReturn, WaiterPcs
  <2>1. ASSUME NEW op \in Ops, TakeDequeue(t, op) PROVE TypeOK'
    BY <2>1, Zenon DEF TakeDequeue
  <2>2. ASSUME NEW op \in Ops, BeginLoad(t, op) PROVE TypeOK'
    BY <2>2, Zenon DEF BeginLoad
  <2>3. ASSUME DupTest(t) PROVE TypeOK'
    BY <2>3, Zenon DEF DupTest
  <2>4. ASSUME DupWoken(t) PROVE TypeOK'
    BY <2>4 DEF DupWoken, AfterWait
  <2>5. ASSUME MainTest(t) PROVE TypeOK'
    BY <2>5, Zenon DEF MainTest
  <2>6. ASSUME MainWoken(t) PROVE TypeOK'
    BY <2>6 DEF MainWoken, AfterWait
  <2>7. ASSUME Reschedule(t) PROVE TypeOK'
    BY <2>7 DEF Reschedule, Ownership
  <2>8. ASSUME LoadRetry(t) \/ Load(t) PROVE TypeOK'
    BY <2>8 DEF LoadRetry, Load
  <2>9. ASSUME Remove(t) PROVE TypeOK'
    BY <2>9, Zenon DEF Remove
  <2>10. ASSUME Spurious(t) PROVE TypeOK'
    BY <2>10, Zenon DEF Spurious
  <2> QED
    BY <1>5, <2>1, <2>2, <2>3, <2>4, <2>5, <2>6, <2>7, <2>8, <2>9, <2>10, Zenon
       DEF WaiterStep, WaiterProgress
<1>6. ASSUME Finalize PROVE TypeOK'
  BY <1>6, Zenon DEF Finalize, FinalProgress, SetStopped, StopNotifyMain, StopNotifyDup,
              ClearPools, WaitPools, FinalStep, WakeAll, FinalPcs, WaiterPcs
<1>7. CASE UNCHANGED vars
  BY <1>7, Zenon DEF vars
<1> QED
  BY <1>1, <1>2, <1>3, <1>4, <1>5, <1>6, <1>7, Zenon DEF Next, Broker

-----------------------------------------------------------------------------
(***************************************************************************)
(* The parts of the inductive invariant, one lemma each.                   *)
(***************************************************************************)

\* The mark for no operation is none.
LEMMA NoOpNotInOps == NoOp \notin Ops
  BY Assumptions DEF NoOp, Ops, Pids

\* Tasks stay in one place and ids stay below the sequence.
LEMMA OwnershipStep == TypeOK /\ Ownership /\ [Next]_vars => Ownership'
<1> SUFFICES ASSUME TypeOK, Ownership, [Next]_vars
             PROVE  Ownership'
  BY Zenon
<1> USE Assumptions, NoOpNotInOps DEF TypeOK, Ownership, tracker, adders, waiters, broker
<1>1. ASSUME NEW q \in Queues, EnqueueNew(q) PROVE Ownership'
  <2>1. <<nextId, q>> \notin enqueued
    BY DEF Ops
  <2>2. \A op \in enqueued' : op[1] < nextId'
    BY <1>1 DEF EnqueueNew, Schedule, Ops, Pids
  <2>3. lastPid' < nextId' /\ \A p \in gapPidSet' : p < nextId'
    BY <1>1 DEF EnqueueNew, Pids
  <2> QED
    BY <1>1, <2>1, <2>2, <2>3, Zenon DEF EnqueueNew, Schedule
<1>2. ASSUME NEW p \in Pids, NEW q \in Queues, EnqueueAgain(p, q) PROVE Ownership'
  BY <1>2 DEF EnqueueAgain, Schedule
<1>3. ASSUME NEW op \in Ops, Dequeue(op) PROVE Ownership'
  BY <1>3, Zenon DEF Dequeue
<1>4. ASSUME NEW t \in Adders, AdderStep(t) PROVE Ownership'
  <2>1. ASSUME NEW op \in Ops, TakeStore(t, op) PROVE Ownership'
    BY <2>1 DEF TakeStore
  <2>2. ASSUME Put(t) PROVE Ownership'
    BY <2>2, Zenon DEF Put, AdderGoto
  <2>3. ASSUME AddDup(t) PROVE Ownership'
    BY <2>3, Zenon DEF AddDup, AdderGoto
  <2>4. ASSUME NotifyDup(t) PROVE Ownership'
    BY <2>4, Zenon DEF NotifyDup, WakeAll, AdderGoto
  <2>5. ASSUME AddMain(t) PROVE Ownership'
    <3>1. lastPid' < nextId /\ \A i \in gapPidSet' : i < nextId
      BY <2>5, AddMainEffect, Zenon
    <3> QED
      BY <2>5, <3>1 DEF AddMain, AdderGoto, AdderReturn
  <2>6. ASSUME NotifyMain(t) PROVE Ownership'
    BY <2>6, Zenon DEF NotifyMain, WakeAll, AdderReturn
  <2> QED
    BY <1>4, <2>1, <2>2, <2>3, <2>4, <2>5, <2>6, Zenon DEF AdderStep
<1>5. ASSUME NEW t \in Waiters, WaiterStep(t) PROVE Ownership'
  <2> USE DEF WaiterGoto, WaiterReturn
  <2>1. ASSUME NEW op \in Ops, TakeDequeue(t, op) PROVE Ownership'
    BY <2>1 DEF TakeDequeue
  <2>2. ASSUME NEW op \in Ops, BeginLoad(t, op) PROVE Ownership'
    BY <2>2 DEF BeginLoad
  <2>3. ASSUME DupTest(t) PROVE Ownership'
    BY <2>3, Zenon DEF DupTest
  <2>4. ASSUME DupWoken(t) PROVE Ownership'
    BY <2>4 DEF DupWoken, AfterWait
  <2>5. ASSUME MainTest(t) PROVE Ownership'
    BY <2>5, Zenon DEF MainTest
  <2>6. ASSUME MainWoken(t) PROVE Ownership'
    BY <2>6 DEF MainWoken, AfterWait
  <2>7. ASSUME Reschedule(t) PROVE Ownership'
    BY <2>7 DEF Reschedule
  <2>8. ASSUME LoadRetry(t) \/ Load(t) PROVE Ownership'
    BY <2>8 DEF LoadRetry, Load
  <2>9. ASSUME Remove(t) PROVE Ownership'
    BY <2>9, Zenon DEF Remove
  <2>10. ASSUME Spurious(t) PROVE Ownership'
    BY <2>10 DEF Spurious
  <2> QED
    BY <1>5, <2>1, <2>2, <2>3, <2>4, <2>5, <2>6, <2>7, <2>8, <2>9, <2>10, Zenon
       DEF WaiterStep, WaiterProgress
<1>6. ASSUME Finalize PROVE Ownership'
  BY <1>6 DEF Finalize, FinalProgress, SetStopped, StopNotifyMain, StopNotifyDup,
              ClearPools, WaitPools, FinalStep, WakeAll
<1>7. CASE UNCHANGED vars
  BY <1>7, Zenon DEF vars
<1> QED
  BY <1>1, <1>2, <1>3, <1>4, <1>5, <1>6, <1>7, Zenon DEF Next, Broker

\* Exactly one of enqueueCheck and dequeueCheck finds an operation in pendMap.
LEMMA PendingStep == TypeOK /\ Ownership /\ Pending /\ [Next]_vars => Pending'
<1> SUFFICES ASSUME TypeOK, Ownership, Pending, [Next]_vars
             PROVE  Pending'
  BY Zenon
<1> USE Assumptions, NoOpNotInOps
        DEF TypeOK, Ownership, Pending, Deleting, tracker, adders, waiters, broker
<1>1. ASSUME NEW q \in Queues, EnqueueNew(q) PROVE Pending'
  BY <1>1 DEF EnqueueNew, Schedule
<1>2. ASSUME NEW p \in Pids, NEW q \in Queues, EnqueueAgain(p, q) PROVE Pending'
  BY <1>2 DEF EnqueueAgain, Schedule
<1>3. ASSUME NEW op \in Ops, Dequeue(op) PROVE Pending'
  BY <1>3 DEF Dequeue
<1>4. ASSUME NEW t \in Adders, AdderStep(t) PROVE Pending'
  <2>1. ASSUME NEW op \in Ops, TakeStore(t, op) PROVE Pending'
    BY <2>1, Zenon DEF TakeStore
  <2>2. ASSUME Put(t) PROVE Pending'
    BY <2>2, Zenon DEF Put, AdderGoto
  <2>3. ASSUME AddDup(t) PROVE Pending'
    BY <2>3, Zenon DEF AddDup, AdderGoto
  <2>4. ASSUME NotifyDup(t) PROVE Pending'
    BY <2>4, Zenon DEF NotifyDup, AdderGoto
  <2>5. ASSUME AddMain(t) PROVE Pending'
    BY <2>5, Zenon DEF AddMain, AdderGoto, AdderReturn
  <2>6. ASSUME NotifyMain(t) PROVE Pending'
    BY <2>6, Zenon DEF NotifyMain, AdderReturn
  <2> QED
    BY <1>4, <2>1, <2>2, <2>3, <2>4, <2>5, <2>6, Zenon DEF AdderStep
<1>5. ASSUME NEW t \in Waiters, WaiterStep(t) PROVE Pending'
  <2> USE DEF WaiterGoto, WaiterReturn
  <2>1. ASSUME NEW op \in Ops, TakeDequeue(t, op) PROVE Pending'
    BY <2>1 DEF TakeDequeue
  <2>2. ASSUME NEW op \in Ops, BeginLoad(t, op) PROVE Pending'
    BY <2>2 DEF BeginLoad
  <2>3. ASSUME DupTest(t) \/ MainTest(t) \/ Spurious(t) PROVE Pending'
    BY <2>3, Zenon DEF DupTest, MainTest, Spurious
  <2>4. ASSUME DupWoken(t) \/ MainWoken(t) PROVE Pending'
    BY <2>4 DEF DupWoken, MainWoken, AfterWait
  <2>5. ASSUME Reschedule(t) PROVE Pending'
    BY <2>5 DEF Reschedule
  <2>6. ASSUME LoadRetry(t) \/ Load(t) PROVE Pending'
    BY <2>6 DEF LoadRetry, Load
  <2>7. ASSUME Remove(t) PROVE Pending'
    BY <2>7 DEF Remove
  <2> QED
    BY <1>5, <2>1, <2>2, <2>3, <2>4, <2>5, <2>6, <2>7, Zenon DEF WaiterStep, WaiterProgress
<1>6. ASSUME Finalize PROVE Pending'
  BY <1>6, Zenon DEF Finalize, FinalProgress, SetStopped, StopNotifyMain, StopNotifyDup,
              ClearPools, WaitPools, FinalStep
<1>7. CASE UNCHANGED vars
  BY <1>7, Zenon DEF vars
<1> QED
  BY <1>1, <1>2, <1>3, <1>4, <1>5, <1>6, <1>7, Zenon DEF Next, Broker

-----------------------------------------------------------------------------
(***************************************************************************)
(* What one step may do to an operation that is stored, and to the         *)
(* tracker's view of it.                                                   *)
(***************************************************************************)

\* An operation that is settled stays settled, whatever the threads do next.
LEMMA SettledStep ==
    ASSUME TypeOK, Ownership, [Next]_vars, NEW o \in enqueued, Settled(o)
    PROVE  Settled(o)'
<1> USE Assumptions, NoOpNotInOps
        DEF TypeOK, Ownership, Settled, Unstored, Deleting,
            tracker, adders, waiters, broker
<1>1. ASSUME NEW q \in Queues, EnqueueNew(q) PROVE Settled(o)'
  BY <1>1 DEF EnqueueNew, Schedule
<1>2. ASSUME NEW p \in Pids, NEW q \in Queues, EnqueueAgain(p, q) PROVE Settled(o)'
  BY <1>2, Zenon DEF EnqueueAgain, Schedule
<1>3. ASSUME NEW op \in Ops, Dequeue(op) PROVE Settled(o)'
  BY <1>3, Zenon DEF Dequeue
<1>4. ASSUME NEW t \in Adders, AdderStep(t) PROVE Settled(o)'
  <2>1. ASSUME NEW op \in Ops, TakeStore(t, op) PROVE Settled(o)'
    BY <2>1, Zenon DEF TakeStore
  <2>2. ASSUME Put(t) PROVE Settled(o)'
    BY <2>2, Zenon DEF Put, AdderGoto
  <2>3. ASSUME AddDup(t) PROVE Settled(o)'
    BY <2>3, Zenon DEF AddDup, AdderGoto
  <2>4. ASSUME NotifyDup(t) PROVE Settled(o)'
    BY <2>4, Zenon DEF NotifyDup, AdderGoto
  <2>5. ASSUME AddMain(t) PROVE Settled(o)'
    BY <2>5 DEF AddMain, AdderGoto, AdderReturn
  <2>6. ASSUME NotifyMain(t) PROVE Settled(o)'
    BY <2>6, Zenon DEF NotifyMain, AdderReturn
  <2> QED
    BY <1>4, <2>1, <2>2, <2>3, <2>4, <2>5, <2>6, Zenon DEF AdderStep
<1>5. ASSUME NEW t \in Waiters, WaiterStep(t) PROVE Settled(o)'
  <2> USE DEF WaiterGoto, WaiterReturn
  <2>1. ASSUME NEW op \in Ops, TakeDequeue(t, op) PROVE Settled(o)'
    BY <2>1, Zenon DEF TakeDequeue
  <2>2. ASSUME NEW op \in Ops, BeginLoad(t, op) PROVE Settled(o)'
    BY <2>2, Zenon DEF BeginLoad
  <2>3. ASSUME DupTest(t) \/ MainTest(t) \/ Spurious(t) PROVE Settled(o)'
    BY <2>3, Zenon DEF DupTest, MainTest, Spurious
  <2>4. ASSUME DupWoken(t) \/ MainWoken(t) PROVE Settled(o)'
    BY <2>4 DEF DupWoken, MainWoken, AfterWait
  <2>5. ASSUME Reschedule(t) PROVE Settled(o)'
    BY <2>5 DEF Reschedule
  <2>6. ASSUME LoadRetry(t) \/ Load(t) PROVE Settled(o)'
    BY <2>6 DEF LoadRetry, Load
  <2>7. ASSUME Remove(t) PROVE Settled(o)'
    BY <2>7 DEF Remove
  <2> QED
    BY <1>5, <2>1, <2>2, <2>3, <2>4, <2>5, <2>6, <2>7, Zenon DEF WaiterStep, WaiterProgress
<1>6. ASSUME Finalize PROVE Settled(o)'
  BY <1>6, Zenon DEF Finalize, FinalProgress, SetStopped, StopNotifyMain, StopNotifyDup,
              ClearPools, WaitPools, FinalStep
<1>7. CASE UNCHANGED vars
  BY <1>7, Zenon DEF vars
<1> QED
  BY <1>1, <1>2, <1>3, <1>4, <1>5, <1>6, <1>7, Zenon DEF Next, Broker

\* An operation in the middle of its report was already so, or has just come.
LEMMA ReportingStep ==
    ASSUME TypeOK, Ownership, [Next]_vars, NEW o \in enqueued, Reporting(o)'
    PROVE  Reporting(o)
<1> USE Assumptions, NoOpNotInOps
        DEF TypeOK, Ownership, Reporting, tracker, adders, waiters, broker
<1>1. ASSUME NEW q \in Queues, EnqueueNew(q) PROVE Reporting(o)
  BY <1>1 DEF EnqueueNew, Schedule
<1>2. ASSUME NEW p \in Pids, NEW q \in Queues, EnqueueAgain(p, q) PROVE Reporting(o)
  BY <1>2, Zenon DEF EnqueueAgain, Schedule
<1>3. ASSUME NEW op \in Ops, Dequeue(op) PROVE Reporting(o)
  BY <1>3, Zenon DEF Dequeue
<1>4. ASSUME NEW t \in Adders, AdderStep(t) PROVE Reporting(o)
  <2>1. ASSUME NEW op \in Ops, TakeStore(t, op) PROVE Reporting(o)
    BY <2>1, Zenon DEF TakeStore
  <2>2. ASSUME Put(t) PROVE Reporting(o)
    BY <2>2, Zenon DEF Put, AdderGoto
  <2>3. ASSUME AddDup(t) PROVE Reporting(o)
    BY <2>3 DEF AddDup, AdderGoto
  <2>4. ASSUME NotifyDup(t) PROVE Reporting(o)
    BY <2>4, Zenon DEF NotifyDup, AdderGoto
  <2>5. ASSUME AddMain(t) PROVE Reporting(o)
    BY <2>5 DEF AddMain, AdderGoto, AdderReturn
  <2>6. ASSUME NotifyMain(t) PROVE Reporting(o)
    BY <2>6, Zenon DEF NotifyMain, AdderReturn
  <2> QED
    BY <1>4, <2>1, <2>2, <2>3, <2>4, <2>5, <2>6, Zenon DEF AdderStep
<1>5. ASSUME NEW t \in Waiters, WaiterStep(t) PROVE Reporting(o)
  <2> USE DEF WaiterGoto, WaiterReturn
  <2>1. ASSUME NEW op \in Ops, TakeDequeue(t, op) PROVE Reporting(o)
    BY <2>1, Zenon DEF TakeDequeue
  <2>2. ASSUME NEW op \in Ops, BeginLoad(t, op) PROVE Reporting(o)
    BY <2>2, Zenon DEF BeginLoad
  <2>3. ASSUME DupTest(t) \/ MainTest(t) \/ Spurious(t) PROVE Reporting(o)
    BY <2>3, Zenon DEF DupTest, MainTest, Spurious
  <2>4. ASSUME DupWoken(t) \/ MainWoken(t) PROVE Reporting(o)
    BY <2>4, Zenon DEF DupWoken, MainWoken, AfterWait
  <2>5. ASSUME Reschedule(t) PROVE Reporting(o)
    BY <2>5, Zenon DEF Reschedule
  <2>6. ASSUME LoadRetry(t) \/ Load(t) PROVE Reporting(o)
    BY <2>6, Zenon DEF LoadRetry, Load
  <2>7. ASSUME Remove(t) PROVE Reporting(o)
    BY <2>7, Zenon DEF Remove
  <2> QED
    BY <1>5, <2>1, <2>2, <2>3, <2>4, <2>5, <2>6, <2>7, Zenon DEF WaiterStep, WaiterProgress
<1>6. ASSUME Finalize PROVE Reporting(o)
  BY <1>6, Zenon DEF Finalize, FinalProgress, SetStopped, StopNotifyMain, StopNotifyDup,
              ClearPools, WaitPools, FinalStep
<1>7. CASE UNCHANGED vars
  BY <1>7, SMTT(20) DEF vars
<1> QED
  BY <1>1, <1>2, <1>3, <1>4, <1>5, <1>6, <1>7, Zenon DEF Next, Broker

\* What one step may do to the tracker's view of an operation o.
Tracked(p) == p <= lastPid \/ p \in gapPidSet

Effect(o) ==
    /\ o \in enqueued' \ enqueued =>
          \/ o[1] = nextId /\ lastPid' = lastPid /\ gapPidSet' = gapPidSet
          \/ o \in dupMap' /\ ~Reporting(o)'
    /\ o \in enqueued /\ o \in dupMap' => o \in dupMap
    /\ o \in dupMap \ dupMap' =>
          \E t \in Adders : adderPc[t] = "addDup" /\ adderOp[t] = o
    /\ Tracked(o[1])' =>
          \/ Tracked(o[1])
          \/ \E t \in Adders : adderPc[t] = "addMain" /\ adderOp[t][1] = o[1]

\* Every step has the effect on each operation that Effect allows.
LEMMA EffectStep ==
    ASSUME TypeOK, Ownership, Next, NEW o \in Ops
    PROVE  Effect(o)
<1> USE Assumptions, NoOpNotInOps
        DEF TypeOK, Ownership, Effect, Tracked, Reporting, tracker, adders, waiters, broker
<1>1. ASSUME NEW q \in Queues, EnqueueNew(q) PROVE Effect(o)
  <2>1. /\ enqueued' = enqueued \union {<<nextId, q>>}
        /\ UNCHANGED <<lastPid, gapPidSet, dupMap>>
    BY <1>1, Zenon DEF EnqueueNew, Schedule
  <2> QED
    BY <2>1
<1>2. ASSUME NEW p \in Pids, NEW q \in Queues, EnqueueAgain(p, q) PROVE Effect(o)
  BY <1>2, Zenon DEF EnqueueAgain, Schedule
<1>3. ASSUME NEW op \in Ops, Dequeue(op) PROVE Effect(o)
  BY <1>3, SMTT(20) DEF Dequeue
<1>4. ASSUME NEW t \in Adders, AdderStep(t) PROVE Effect(o)
  <2>1. ASSUME NEW op \in Ops, TakeStore(t, op) PROVE Effect(o)
    BY <2>1, Zenon DEF TakeStore
  <2>2. ASSUME Put(t) PROVE Effect(o)
    BY <2>2, Zenon DEF Put, AdderGoto
  <2>3. ASSUME AddDup(t) PROVE Effect(o)
    BY <2>3, Zenon DEF AddDup, AdderGoto
  <2>4. ASSUME NotifyDup(t) PROVE Effect(o)
    BY <2>4, Zenon DEF NotifyDup, AdderGoto
  <2>5. ASSUME AddMain(t) PROVE Effect(o)
    <3>1. o[1] \in Pids
      BY Zenon DEF Ops
    <3>2. Tracked(o[1])' => Tracked(o[1]) \/ o[1] = adderOp[t][1]
      BY <2>5, <3>1, AddMainEffect, Zenon DEF Tracked
    <3> QED
      BY <2>5, <3>2, Zenon DEF AddMain, AdderGoto, AdderReturn
  <2>6. ASSUME NotifyMain(t) PROVE Effect(o)
    BY <2>6, Zenon DEF NotifyMain, AdderReturn
  <2> QED
    BY <1>4, <2>1, <2>2, <2>3, <2>4, <2>5, <2>6, Zenon DEF AdderStep
<1>5. ASSUME NEW t \in Waiters, WaiterStep(t) PROVE Effect(o)
  <2> USE DEF WaiterGoto, WaiterReturn
  <2>1. ASSUME NEW op \in Ops, TakeDequeue(t, op) PROVE Effect(o)
    BY <2>1, Zenon DEF TakeDequeue
  <2>2. ASSUME NEW op \in Ops, BeginLoad(t, op) PROVE Effect(o)
    BY <2>2, Zenon DEF BeginLoad
  <2>3. ASSUME DupTest(t) \/ MainTest(t) \/ Spurious(t) PROVE Effect(o)
    BY <2>3, Zenon DEF DupTest, MainTest, Spurious
  <2>4. ASSUME DupWoken(t) \/ MainWoken(t) PROVE Effect(o)
    BY <2>4, Zenon DEF DupWoken, MainWoken, AfterWait
  <2>5. ASSUME Reschedule(t) PROVE Effect(o)
    BY <2>5, Zenon DEF Reschedule
  <2>6. ASSUME LoadRetry(t) \/ Load(t) PROVE Effect(o)
    BY <2>6, Zenon DEF LoadRetry, Load
  <2>7. ASSUME Remove(t) PROVE Effect(o)
    BY <2>7, Zenon DEF Remove
  <2> QED
    BY <1>5, <2>1, <2>2, <2>3, <2>4, <2>5, <2>6, <2>7, Zenon DEF WaiterStep, WaiterProgress
<1>6. ASSUME Finalize PROVE Effect(o)
  BY <1>6, Zenon DEF Finalize, FinalProgress, SetStopped, StopNotifyMain, StopNotifyDup,
              ClearPools, WaitPools, FinalStep
<1> QED
  BY <1>1, <1>2, <1>3, <1>4, <1>5, <1>6, Zenon DEF Next, Broker

\* A worker that has left the insertion behind leaves a settled operation.
LEMMA StoredStep ==
    ASSUME TypeOK, Ownership, Pending, Reported, Next,
           NEW a \in Adders, adderPc[a]' \notin {"idle", "put"}
    PROVE  Settled(adderOp[a])'
<1>1. CASE adderPc[a] \notin {"idle", "put"} /\ adderOp[a]' = adderOp[a]
  <2>1. Settled(adderOp[a]) /\ adderOp[a] \in enqueued
    BY <1>1, Zenon DEF Reported, Ownership
  <2>2. \A o \in enqueued : Settled(o) => Settled(o)'
    BY SettledStep, Zenon
  <2>3. ASSUME NEW o \in enqueued, o = adderOp[a], Settled(o)'
        PROVE  Settled(adderOp[a])'
    <3>1. o = adderOp[a]'
      BY <1>1, <2>3, Zenon
    <3> QED
      BY <2>3, <3>1, Zenon DEF Settled, Unstored, Deleting
  <2> QED
    BY <2>1, <2>2, <2>3, Zenon
<1>2. ASSUME NEW op \in Ops, TakeStore(a, op) PROVE Settled(adderOp[a])'
  BY <1>2, Assumptions, NoOpNotInOps
     DEF TakeStore, TypeOK, Ownership, Pending, Settled, Unstored, Deleting, waiters, broker
<1>3. ASSUME Put(a) PROVE Settled(adderOp[a])'
  BY <1>3, Assumptions, NoOpNotInOps, Zenon
     DEF Put, AdderGoto, TypeOK, Ownership, Settled, Unstored, Deleting, waiters, broker
<1>4. \/ adderPc[a] \notin {"idle", "put"} /\ adderOp[a]' = adderOp[a]
      \/ \E op \in Ops : TakeStore(a, op)
      \/ Put(a)
  <2> USE DEF TypeOK, adders
  <2>1. ASSUME Broker \/ Finalize PROVE UNCHANGED adders
    BY <2>1, Zenon DEF Broker, Finalize, FinalProgress, EnqueueNew, EnqueueAgain, Dequeue, SetStopped,
             StopNotifyMain, StopNotifyDup, ClearPools, WaitPools, FinalStep
  <2>2. ASSUME NEW t \in Waiters, WaiterStep(t) PROVE UNCHANGED adders
    BY <2>2, Zenon DEF WaiterStep, WaiterProgress, TakeDequeue, BeginLoad, DupTest, MainTest, DupWoken,
             MainWoken, AfterWait, Spurious, Reschedule, LoadRetry, Remove, Load
  <2>3. ASSUME NEW t \in Adders, AdderStep(t)
        PROVE  \/ adderPc[a] \notin {"idle", "put"} /\ adderOp[a]' = adderOp[a]
               \/ \E op \in Ops : TakeStore(a, op)
               \/ Put(a)
    BY <2>3, Zenon DEF AdderStep, AddDup, NotifyDup, AddMain, NotifyMain, Put, TakeStore, AdderGoto,
             AdderReturn
  <2> QED
    BY <2>1, <2>2, <2>3, Zenon DEF Next
<1> QED
  BY <1>1, <1>2, <1>3, <1>4, Zenon

-----------------------------------------------------------------------------
(***************************************************************************)
(* Every step keeps what the waiters have learnt and what the tracker has  *)
(* reported.                                                               *)
(***************************************************************************)

\* A waiter keeps what it has learnt.
LEMMA WaitedStep ==
    ASSUME TypeOK, Ownership, Next, NEW w \in Waiters, Waited(w)
    PROVE  Waited(w)'
<1> USE Assumptions, NoOpNotInOps
        DEF TypeOK, Ownership, Waited, tracker, adders, waiters, broker
<1>1. ASSUME NEW q \in Queues, EnqueueNew(q) PROVE Waited(w)'
  BY <1>1, Zenon DEF EnqueueNew, Schedule
<1>2. ASSUME NEW p \in Pids, NEW q \in Queues, EnqueueAgain(p, q) PROVE Waited(w)'
  BY <1>2, Zenon DEF EnqueueAgain, Schedule
<1>3. ASSUME NEW op \in Ops, Dequeue(op) PROVE Waited(w)'
  BY <1>3, Zenon DEF Dequeue
<1>4. ASSUME NEW t \in Adders, AdderStep(t) PROVE Waited(w)'
  <2>1. ASSUME NEW op \in Ops, TakeStore(t, op) PROVE Waited(w)'
    BY <2>1, Zenon DEF TakeStore
  <2>2. ASSUME Put(t) PROVE Waited(w)'
    BY <2>2, Zenon DEF Put, AdderGoto
  <2>3. ASSUME AddDup(t) PROVE Waited(w)'
    BY <2>3, Zenon DEF AddDup, AdderGoto
  <2>4. ASSUME NotifyDup(t) PROVE Waited(w)'
    BY <2>4, Zenon DEF NotifyDup, WakeAll, AdderGoto
  <2>5. ASSUME AddMain(t) PROVE Waited(w)'
    <3>1. lastPid <= lastPid' /\ lastPid' \in 0..MaxPid
      BY <2>5, AddMainEffect, Zenon
    <3>2. waiterOp[w][1] \in Int
      BY DEF NoOp, Ops, Pids
    <3> QED
      BY <2>5, <3>1, <3>2 DEF AddMain, AdderGoto, AdderReturn
  <2>6. ASSUME NotifyMain(t) PROVE Waited(w)'
    BY <2>6, Zenon DEF NotifyMain, WakeAll, AdderReturn
  <2> QED
    BY <1>4, <2>1, <2>2, <2>3, <2>4, <2>5, <2>6, Zenon DEF AdderStep
<1>5. ASSUME NEW t \in Waiters, WaiterStep(t) PROVE Waited(w)'
  <2> USE DEF WaiterGoto, WaiterReturn
  <2>1. ASSUME NEW op \in Ops, TakeDequeue(t, op) PROVE Waited(w)'
    BY <2>1, Zenon DEF TakeDequeue
  <2>2. ASSUME NEW op \in Ops, BeginLoad(t, op) PROVE Waited(w)'
    BY <2>2, Zenon DEF BeginLoad
  <2>3. ASSUME DupTest(t) \/ MainTest(t) \/ Spurious(t) PROVE Waited(w)'
    <3>1. waiterOp[t][1] \in Int /\ lastPid \in Int
      BY DEF NoOp, Ops, Pids
    <3> QED
      BY <2>3, <3>1 DEF DupTest, MainTest, Spurious
  <2>4. ASSUME DupWoken(t) \/ MainWoken(t) PROVE Waited(w)'
    BY <2>4 DEF DupWoken, MainWoken, AfterWait
  <2>5. ASSUME Reschedule(t) PROVE Waited(w)'
    BY <2>5, Zenon DEF Reschedule
  <2>6. ASSUME LoadRetry(t) \/ Load(t) PROVE Waited(w)'
    BY <2>6 DEF LoadRetry, Load
  <2>7. ASSUME Remove(t) PROVE Waited(w)'
    BY <2>7, Zenon DEF Remove
  <2> QED
    BY <1>5, <2>1, <2>2, <2>3, <2>4, <2>5, <2>6, <2>7, Zenon DEF WaiterStep, WaiterProgress
<1>6. ASSUME Finalize PROVE Waited(w)'
  BY <1>6 DEF Finalize, FinalProgress, SetStopped, StopNotifyMain, StopNotifyDup,
              ClearPools, WaitPools, FinalStep, WakeAll
<1> QED
  BY <1>1, <1>2, <1>3, <1>4, <1>5, <1>6, Zenon DEF Next, Broker

\* What the tracker has reported is settled, and stays so.
LEMMA ReportedStep == TypeOK /\ Ownership /\ Pending /\ Reported /\ [Next]_vars => Reported'
<1> SUFFICES ASSUME TypeOK, Ownership, Pending, Reported, Next
             PROVE  Reported'
  <2>1. ASSUME TypeOK, Ownership, Pending, Reported, UNCHANGED vars
        PROVE  Reported'
    BY <2>1 DEF Reported, Waited, Settled, Unstored, Deleting, Reporting, vars, tracker, adders,
                waiters, broker
  <2> QED
    BY <2>1, Zenon
<1>1. \A o \in enqueued : Settled(o) => Settled(o)'
  BY SettledStep, Zenon
<1>2. \A o \in Ops : Effect(o)
  BY EffectStep, Zenon
<1>3. \A o \in enqueued : Reporting(o)' => Reporting(o)
  BY ReportingStep, Zenon
<1>4. enqueued' \subseteq Ops
  BY TypeStep, Zenon DEF TypeOK
<1>5. ASSUME NEW t \in Adders, adderPc[t] \in {"addDup", "addMain"}
      PROVE  adderOp[t] \in enqueued /\ Settled(adderOp[t])
  BY <1>5, Zenon DEF Reported, Ownership
<1>6. ASSUME NEW o \in enqueued \ dupMap', o \in dupMap
      PROVE  Settled(o)'
  BY <1>1, <1>2, <1>5, <1>6 DEF Effect, TypeOK
<1>7. \A a \in Adders : adderPc[a]' \notin {"idle", "put"} => Settled(adderOp[a])'
  BY StoredStep, Zenon
<1>8. ASSUME NEW o \in enqueued' \ dupMap', Tracked(o[1])'
      PROVE  Settled(o)'
  <2>1. CASE o \notin enqueued
    BY <1>2, <1>4, <1>8, <2>1 DEF Effect, Tracked, Ownership, TypeOK
  <2>2. CASE o \in enqueued /\ o \in dupMap
    BY <1>6, <1>8, <2>2, Zenon
  <2>3. CASE o \in enqueued /\ o \notin dupMap /\ Tracked(o[1])
    BY <1>1, <2>3, Zenon DEF Reported, Tracked
  <2>4. ASSUME o \in enqueued, o \notin dupMap,
               NEW t \in Adders, adderPc[t] = "addMain", adderOp[t][1] = o[1]
        PROVE  Settled(o)'
    <3>1. Reporting(adderOp[t])
      BY <2>4, Zenon DEF Reporting
    <3>2. Settled(o)
      BY <1>5, <2>4, <3>1, Zenon DEF Reported
    <3> QED
      BY <1>1, <2>4, <3>2, Zenon
  <2> QED
    BY <1>2, <1>4, <1>8, <2>1, <2>2, <2>3, <2>4, Zenon DEF Effect
<1>9. ASSUME NEW o \in enqueued', NEW r \in enqueued',
             Reporting(o)', r[1] = o[1], r # o, r \notin dupMap'
      PROVE  Settled(r)'
  <2>1. CASE o \in enqueued /\ r \in enqueued
    <3>1. CASE r \in dupMap
      BY <1>6, <1>9, <2>1, <3>1, Zenon
    <3>2. CASE r \notin dupMap
      BY <1>1, <1>3, <1>9, <2>1, <3>2, Zenon DEF Reported
    <3> QED
      BY <3>1, <3>2, Zenon
  <2>2. CASE o \notin enqueued /\ r \in enqueued
    BY <1>2, <1>4, <1>9, <2>2 DEF Effect, Ownership, TypeOK
  <2>3. CASE o \in enqueued /\ r \notin enqueued
    BY <1>2, <1>4, <1>9, <2>3 DEF Effect, Ownership, TypeOK
  <2>4. CASE o \notin enqueued /\ r \notin enqueued
    <3>1. ASSUME NEW t \in Adders, AdderStep(t) PROVE enqueued' = enqueued
      BY <3>1, Zenon DEF AdderStep, TakeStore, Put, AddDup, NotifyDup, AddMain, NotifyMain, broker
    <3>2. ASSUME NEW t \in Waiters, WaiterStep(t) PROVE enqueued' = enqueued
      BY <3>2, Zenon DEF WaiterStep, WaiterProgress, TakeDequeue, BeginLoad, DupTest, MainTest,
                  DupWoken, MainWoken, AfterWait, Spurious, Reschedule, LoadRetry, Remove,
                  Load, broker
    <3>3. ASSUME Finalize PROVE enqueued' = enqueued
      BY <3>3, Zenon DEF Finalize, FinalProgress, SetStopped, StopNotifyMain, StopNotifyDup,
                  ClearPools, WaitPools, FinalStep, broker
    <3>4. ASSUME Broker PROVE \E n : enqueued' \subseteq enqueued \union {n}
      BY <3>4, Zenon DEF Broker, EnqueueNew, EnqueueAgain, Dequeue, Schedule
    <3> QED
      BY <1>9, <2>4, <3>1, <3>2, <3>3, <3>4, Zenon DEF Next
  <2> QED
    BY <2>1, <2>2, <2>3, <2>4, Zenon
<1>10. \A t \in Waiters : Waited(t)'
  BY WaitedStep, Zenon DEF Reported
<1> QED
  BY <1>7, <1>8, <1>9, <1>10, Zenon DEF Reported, Tracked

-----------------------------------------------------------------------------
(***************************************************************************)
(* Until finalizeMe is called no task is dropped.                          *)
(***************************************************************************)

\* A step that leaves the queues of work and the database as they are.
Frame ==
    /\ UNCHANGED <<stopped, pendMap, enqPool, db, enqueued, dequeued>>
    /\ finalPc' = finalPc
    /\ \A o \in Ops : Unstored(o)' <=> Unstored(o)
    /\ \A o \in Ops : Deleting(o)' <=> Deleting(o)

\* A step that Frame describes keeps Running.
LEMMA RunningFrame == TypeOK /\ Running /\ Frame => Running'
<1> SUFFICES ASSUME TypeOK, Running, Frame, finalPc' = "running"
             PROVE  Running'
  BY Zenon DEF Running
<1>1. /\ db \subseteq Ops /\ enqueued \subseteq Ops /\ dequeued \subseteq Ops
  BY Zenon DEF TypeOK
<1>2. \A o \in Ops : Settled(o)' <=> Settled(o)
  BY Zenon DEF Frame, Settled
<1> QED
  BY <1>1, <1>2, Zenon DEF Frame, Running

\* The steps of a worker that has put its message, and the waiter's in general.
LEMMA AdderFrame ==
    ASSUME TypeOK, NEW t \in Adders, AddDup(t) \/ NotifyDup(t) \/ AddMain(t) \/ NotifyMain(t)
    PROVE  Frame
<1>1. adderPc \in [Adders -> AdderPcs] /\ adderOp \in [Adders -> Ops \union {NoOp}]
  BY Zenon DEF TypeOK
<1>2. /\ adderPc[t] # "put" /\ adderPc'[t] # "put"
      /\ \A a \in Adders \ {t} : adderPc'[a] = adderPc[a] /\ adderOp'[a] = adderOp[a]
  BY <1>1, Zenon DEF AddDup, NotifyDup, AddMain, NotifyMain, AdderGoto, AdderReturn
<1>3. UNCHANGED <<stopped, pendMap, enqPool, db, enqueued, dequeued, finalPc, deqPool, waiterOp>>
  BY Zenon DEF AddDup, NotifyDup, AddMain, NotifyMain, tracker, broker, waiters
<1>4. \A o \in Ops : Unstored(o)' <=> Unstored(o)
  BY <1>2, <1>3, Zenon DEF Unstored
<1>5. \A o \in Ops : Deleting(o)' <=> Deleting(o)
  BY <1>3, Zenon DEF Deleting
<1> QED
  BY <1>3, <1>4, <1>5, Zenon DEF Frame

\* Frame describes every step of a waiting thread but Remove.
LEMMA WaiterFrame ==
    ASSUME TypeOK, Ownership, Running, NEW t \in Waiters, WaiterStep(t), ~Remove(t),
           finalPc' = "running"
    PROVE  Frame
<1>1. /\ waiterPc \in [Waiters -> WaiterPcs] /\ waiterOp \in [Waiters -> Ops \union {NoOp}]
      /\ NoOp \notin Ops
  BY NoOpNotInOps, Zenon DEF TypeOK
<1>2. UNCHANGED <<stopped, pendMap, enqPool, db, enqueued, dequeued, finalPc, adderPc, adderOp>>
  BY Zenon DEF WaiterStep, WaiterProgress, TakeDequeue, BeginLoad, DupTest, MainTest, Spurious,
         DupWoken, MainWoken, AfterWait, Reschedule, LoadRetry, Load,
         tracker, broker, adders
<1>3. ~stopped
  BY <1>2, Zenon DEF Running
<1>4. \A o \in Ops : Unstored(o)' <=> Unstored(o)
  BY <1>2, Zenon DEF Unstored
<1>5. ASSUME NEW op \in Ops, TakeDequeue(t, op)
      PROVE  \A o \in Ops : Deleting(o)' <=> Deleting(o)
  <2>1. waiterOp[t] = NoOp
    BY <1>5, Zenon DEF TakeDequeue, Ownership
  <2> QED
    BY <1>1, <1>5, <2>1, Zenon DEF TakeDequeue, Deleting
<1>6. ASSUME Reschedule(t)
      PROVE  \A o \in Ops : Deleting(o)' <=> Deleting(o)
  BY <1>1, <1>6, Zenon DEF Reschedule, WaiterReturn, Deleting
<1>7. ASSUME (\E op \in Ops : BeginLoad(t, op)) \/ Load(t)
      PROVE  \A o \in Ops : Deleting(o)' <=> Deleting(o)
  BY <1>1, <1>7, Zenon DEF BeginLoad, Load, WaiterReturn, Deleting
<1>8. ASSUME DupTest(t) \/ MainTest(t) \/ Spurious(t) \/ DupWoken(t) \/ MainWoken(t)
             \/ LoadRetry(t)
      PROVE  \A o \in Ops : Deleting(o)' <=> Deleting(o)
  <2>1. UNCHANGED <<waiterOp, deqPool>>
    BY <1>3, <1>8, Zenon DEF DupTest, MainTest, Spurious, DupWoken, MainWoken, AfterWait, LoadRetry,
                      WaiterGoto
  <2> QED
    BY <2>1, Zenon DEF Deleting
<1>9. \A o \in Ops : Deleting(o)' <=> Deleting(o)
  BY <1>5, <1>6, <1>7, <1>8, Zenon DEF WaiterStep, WaiterProgress
<1> QED
  BY <1>2, <1>4, <1>9, Zenon DEF Frame

\* Before finalizeMe no operation is forgotten, and none is put in twice.
LEMMA RunningStep ==
    TypeOK /\ Ownership /\ Pending /\ Reported /\ Running /\ [Next]_vars => Running'
<1> SUFFICES ASSUME TypeOK, Ownership, Pending, Reported, Running, [Next]_vars,
                    finalPc' = "running"
             PROVE  Running'
  BY Zenon DEF Running
<1>1. finalPc = "running" /\ ~Finalize
  <2>1. Finalize => finalPc' # "running"
    BY Zenon DEF Finalize, FinalProgress, SetStopped, StopNotifyMain, StopNotifyDup, ClearPools,
           WaitPools, FinalStep
  <2>2. Broker => finalPc' = finalPc
    BY Zenon DEF Broker, EnqueueNew, EnqueueAgain, Dequeue
  <2>3. ASSUME NEW t \in Adders, AdderStep(t) PROVE finalPc' = finalPc
    BY <2>3, Zenon DEF AdderStep, TakeStore, Put, AddDup, NotifyDup, AddMain, NotifyMain
  <2>4. ASSUME NEW t \in Waiters, WaiterStep(t) PROVE finalPc' = finalPc
    BY <2>4, Zenon DEF WaiterStep, WaiterProgress, TakeDequeue, BeginLoad, DupTest, MainTest, Spurious,
                DupWoken, MainWoken, AfterWait, Reschedule, LoadRetry, Load, Remove
  <2>5. UNCHANGED vars => finalPc' = finalPc
    BY Zenon DEF vars
  <2> QED
    BY <2>1, <2>2, <2>3, <2>4, <2>5, Zenon DEF Next
<1>2. /\ ~stopped /\ pendMap \subseteq enqPool
      /\ \A o \in db : ~Unstored(o)
      /\ \A o \in enqueued : Unstored(o) \/ Settled(o)
      /\ \A o \in dequeued : /\ o \in db => Deleting(o)
                             /\ Unstored(o) => Deleting(o) \/ (Smart /\ o \in enqPool)
  BY <1>1, Zenon DEF Running
<1>3. /\ db \subseteq enqueued /\ enqPool \subseteq enqueued
      /\ dequeued \subseteq enqueued /\ enqueued \subseteq Ops
  BY Zenon DEF TypeOK, Ownership
<1>4. Next => \A o \in enqueued : Settled(o) => Settled(o)'
  BY SettledStep, Zenon
<1>5. ASSUME NEW op \in Ops, op \notin enqueued, Schedule(op),
             UNCHANGED <<stopped, adderPc, adderOp, waiterOp, deqPool, db, dequeued>>
      PROVE  Running'
  <2>1. \A o \in Ops : Unstored(o)' <=> Unstored(o) \/ o = op
    BY <1>5, Zenon DEF Schedule, Unstored
  <2>2. \A o \in Ops : Deleting(o)' <=> Deleting(o)
    BY <1>5, Zenon DEF Deleting
  <2>3. \A o \in enqueued : Settled(o) => Settled(o)'
    BY <1>3, <1>5, <2>1, <2>2, Zenon DEF Settled
  <2> QED
    BY <1>2, <1>3, <1>5, <2>1, <2>2, <2>3, Zenon DEF Running, Schedule
<1>6. ASSUME NEW q \in Queues, EnqueueNew(q) PROVE Running'
  <2>1. <<nextId, q>> \in Ops /\ <<nextId, q>> \notin enqueued
    BY <1>6, Assumptions DEF EnqueueNew, TypeOK, Ownership, Ops, Pids
  <2> QED
    BY <1>5, <1>6, <2>1, Zenon DEF EnqueueNew, adders, waiters
<1>7. ASSUME NEW p \in Pids, NEW q \in Queues, EnqueueAgain(p, q) PROVE Running'
  BY <1>5, <1>7, Zenon DEF EnqueueAgain, Ops, adders, waiters
<1>8. ASSUME NEW op \in Ops, Dequeue(op) PROVE Running'
  <2>1. UNCHANGED <<stopped, enqueued, enqPool, db, adderPc, adderOp, waiterOp>>
    BY <1>8, Zenon DEF Dequeue, adders, waiters
  <2>2. \A o \in Ops : Unstored(o)' <=> Unstored(o)
    BY <2>1, Zenon DEF Unstored
  <2>3. \A o \in Ops : Deleting(o) => Deleting(o)'
    BY <1>8, <2>1, Zenon DEF Dequeue, Deleting
  <2>4. op \notin pendMap => Deleting(op)'
    BY <1>8, Zenon DEF Dequeue, Deleting
  <2>5. op \in pendMap => Smart /\ op \in enqPool /\ Unstored(op)
    BY <1>2, Zenon DEF Pending, Unstored
  <2>6. \A o \in enqueued : Settled(o) => Settled(o)'
    BY <1>4, <1>8, Zenon DEF Next, Broker
  <2>7. dequeued' = dequeued \union {op} /\ pendMap' \subseteq pendMap
    BY <1>8, Zenon DEF Dequeue
  <2> QED
    BY <1>2, <1>3, <2>1, <2>2, <2>3, <2>4, <2>5, <2>6, <2>7, Zenon DEF Running
<1>9. ASSUME NEW t \in Adders, AdderStep(t) PROVE Running'
  <2>1. /\ adderPc \in [Adders -> AdderPcs] /\ adderOp \in [Adders -> Ops \union {NoOp}]
        /\ NoOp \notin Ops
    BY NoOpNotInOps, Zenon DEF TypeOK
  <2>2. ASSUME NEW op \in Ops, TakeStore(t, op) PROVE Running'
    <3>1. UNCHANGED <<stopped, enqueued, dequeued, db, deqPool, waiterOp>>
      BY <2>2, Zenon DEF TakeStore, waiters, broker
    <3>2. \A o \in Ops : Deleting(o)' <=> Deleting(o)
      BY <3>1, Zenon DEF Deleting
    <3>3. \A o \in enqueued : Settled(o) => Settled(o)'
      BY <1>4, <1>9, Zenon DEF Next
    <3>4. /\ op \in enqPool /\ enqPool' = enqPool \ {op} /\ pendMap' = pendMap \ {op}
          /\ adderPc[t] # "put"
          /\ \A a \in Adders \ {t} : adderPc'[a] = adderPc[a] /\ adderOp'[a] = adderOp[a]
      BY <2>1, <2>2, Zenon DEF TakeStore
    <3>5. CASE Smart /\ op \notin pendMap
      <4>1. adderPc'[t] # "put"
        BY <2>1, <2>2, <3>5, Zenon DEF TakeStore
      <4>2. \A a \in Adders : adderOp[a] # op
        BY <2>1, <3>4, Zenon DEF Ownership
      <4>3. \A o \in Ops : Unstored(o)' <=> Unstored(o) /\ o # op
        BY <3>4, <4>1, <4>2, Zenon DEF Unstored
      <4>4. op \in dequeued /\ ~Deleting(op)
        BY <3>4, <3>5, Zenon DEF Pending
      <4>5. Settled(op)'
        BY <3>1, <3>2, <4>3, <4>4, Zenon DEF Settled
      <4> QED
        BY <1>2, <1>3, <3>1, <3>2, <3>3, <3>4, <4>3, <4>5, Zenon DEF Running
    <3>6. CASE ~(Smart /\ op \notin pendMap)
      <4>1. adderPc'[t] = "put" /\ adderOp'[t] = op
        BY <2>1, <2>2, <3>6, Zenon DEF TakeStore
      <4>2. \A o \in Ops : Unstored(o)' <=> Unstored(o)
        BY <3>4, <4>1, Zenon DEF Unstored
      <4>3. op \in dequeued => ~Smart
        BY <3>6, Zenon DEF Pending
      <4> QED
        BY <1>2, <1>3, <3>1, <3>2, <3>3, <3>4, <4>2, <4>3, Zenon DEF Running
    <3> QED
      BY <3>5, <3>6, Zenon
  <2>3. ASSUME Put(t) PROVE Running'
    <3> DEFINE op == adderOp[t]
    <3>1. /\ UNCHANGED <<stopped, enqueued, dequeued, pendMap, enqPool, deqPool, waiterOp>>
          /\ adderOp' = adderOp
          /\ db' = db \union {op}
      BY <2>3, Zenon DEF Put, AdderGoto, tracker, waiters, broker
    <3>2. op \in enqueued /\ op \in Ops /\ op \notin enqPool
      BY <2>1, <2>3, Zenon DEF Put, Ownership, TypeOK
    <3>3. \A o \in Ops : Deleting(o)' <=> Deleting(o)
      BY <3>1, Zenon DEF Deleting
    <3>4. \A o \in Ops : Unstored(o)' <=> Unstored(o) /\ o # op
      <4>1. /\ adderPc'[t] # "put"
            /\ \A a \in Adders \ {t} : adderPc'[a] = adderPc[a] /\ adderOp[a] # op
        BY <2>1, <2>3, <3>2, Zenon DEF Put, AdderGoto, Ownership
      <4> QED
        BY <3>1, <3>2, <4>1, Zenon DEF Unstored
    <3>5. Unstored(op)
      BY <2>3, Zenon DEF Put, Unstored
    <3>6. \A o \in enqueued : o = op => Settled(o)'
      BY <3>1, <3>2, <3>4, Zenon DEF Settled
    <3>7. \A o \in enqueued : Settled(o) => Settled(o)'
      BY <1>4, <1>9, Zenon DEF Next
    <3> HIDE DEF op
    <3>8. \A o \in db' : ~Unstored(o)'
      BY <1>2, <1>3, <3>1, <3>2, <3>4, Zenon
    <3>9. \A o \in enqueued' : Unstored(o)' \/ Settled(o)'
      BY <1>2, <1>3, <3>1, <3>4, <3>6, <3>7, Zenon
    <3>10. \A o \in dequeued' : /\ o \in db' => Deleting(o)'
                                /\ Unstored(o)' => Deleting(o)' \/ (Smart /\ o \in enqPool')
      BY <1>2, <1>3, <3>1, <3>2, <3>3, <3>4, <3>5, Zenon
    <3> QED
      BY <1>2, <3>1, <3>8, <3>9, <3>10, Zenon DEF Running
  <2>4. CASE AddDup(t) \/ NotifyDup(t) \/ AddMain(t) \/ NotifyMain(t)
    BY <2>4, AdderFrame, RunningFrame, Zenon
  <2> QED
    BY <1>9, <2>2, <2>3, <2>4, Zenon DEF AdderStep
<1>10. ASSUME NEW t \in Waiters, WaiterStep(t) PROVE Running'
  <2>1. ASSUME Remove(t) PROVE Running'
    <3> DEFINE op == waiterOp[t]
    <3>1. /\ UNCHANGED <<stopped, enqueued, dequeued, pendMap, enqPool, deqPool, adderPc, adderOp>>
          /\ db' = db \ {op}
      BY <2>1, Zenon DEF Remove, tracker, adders, broker
    <3>2. /\ waiterOp \in [Waiters -> Ops \union {NoOp}] /\ NoOp \notin Ops
          /\ t \in Waiters \ Loaders /\ op # NoOp /\ op \in enqueued
      BY <2>1, NoOpNotInOps, Zenon DEF Remove, TypeOK, Ownership
    <3>3. Settled(op)
      BY <2>1, <3>2, Zenon DEF Remove, Reported, Waited
    <3>4. \A o \in enqueued : Settled(o) => Settled(o)'
      BY <1>4, <1>10, Zenon DEF Next
    <3>5. \A o \in Ops : Unstored(o)' <=> Unstored(o)
      BY <3>1, Zenon DEF Unstored
    <3>6. \A o \in Ops \ {op} : Deleting(o) => Deleting(o)'
      BY <2>1, <3>1, <3>2, Zenon DEF Remove, WaiterReturn, Deleting
    <3>7. ~Unstored(op)
      BY <3>3, Zenon DEF Settled
    <3> HIDE DEF op
    <3> QED
      BY <1>2, <1>3, <3>1, <3>2, <3>4, <3>5, <3>6, <3>7, Zenon DEF Running
  <2> QED
    BY <1>10, <2>1, WaiterFrame, RunningFrame, Zenon
<1>11. CASE UNCHANGED vars
  <2>1. Frame
    BY <1>11, Zenon DEF vars, tracker, adders, waiters, broker, Frame, Unstored, Deleting
  <2> QED
    BY <2>1, RunningFrame, Zenon
<1> QED
  BY <1>1, <1>6, <1>7, <1>8, <1>9, <1>10, <1>11, Zenon DEF Next, Broker

-----------------------------------------------------------------------------
(***************************************************************************)
(* The theorems.                                                           *)
(***************************************************************************)

\* The inductive invariant holds at the start, and every step keeps it.
LEMMA InvInit == Init => Inv
<1> SUFFICES ASSUME Init PROVE Inv
  BY Zenon
<1>1. TypeOK
  BY TypeInit, Zenon
<1>2. Ownership /\ Pending /\ Running
  BY Assumptions DEF Init, Ownership, Pending, Running
<1>3. Reported
  BY Zenon DEF Init, Reported, Waited
<1> QED
  BY <1>1, <1>2, <1>3, Zenon DEF Inv

\* The invariant is inductive.
LEMMA InvStep == Inv /\ [Next]_vars => Inv'
  BY TypeStep, OwnershipStep, PendingStep, ReportedStep, RunningStep, Zenon DEF Inv

(***************************************************************************)
(* Inv is an invariant of the tracker and the threads around it.           *)
(***************************************************************************)
THEOREM Invariance == Spec => []Inv
  BY InvInit, InvStep, PTL DEF Spec

(***************************************************************************)
(* Every variable keeps its type.                                          *)
(***************************************************************************)
THEOREM TypeCorrect == Spec => []TypeOK
  BY Invariance, PTL DEF Inv

(***************************************************************************)
(* For any number of queues, messages, workers and loads, and also when    *)
(* finalizeMe cuts in: who comes through waitForPid finds the message.     *)
(***************************************************************************)
THEOREM WaitFinds == Spec => []WaitFindsMessage
<1>1. Inv => WaitFindsMessage
  <2> SUFFICES ASSUME Inv, NEW t \in Waiters, waiterPc[t] = "passed",
                      ~(t \in Loaders /\ waiterOp[t] \in dequeued)
               PROVE  waiterOp[t] \in db
    BY Zenon DEF WaitFindsMessage
  <2>1. waiterOp[t] \in enqueued \ dupMap /\ waiterOp[t][1] <= lastPid
    BY Zenon DEF Inv, Ownership, Reported, Waited
  <2>2. Settled(waiterOp[t])
    BY <2>1, Zenon DEF Inv, Reported
  <2> QED
    BY <2>1, <2>2, Zenon DEF Settled, Deleting, Inv, Ownership, TypeOK
<1> QED
  BY <1>1, Invariance, PTL

(***************************************************************************)
(* When both pools have run dry, the database is what the broker asked     *)
(* for.                                                                    *)
(***************************************************************************)
THEOREM Quiescent == Spec => []QuiescentExact
<1>1. Inv => QuiescentExact
  <2> SUFFICES ASSUME Inv, finalPc = "running", PoolsIdle
               PROVE  db = enqueued \ dequeued
    BY Zenon DEF QuiescentExact
  <2>1. \A op \in Ops : ~Unstored(op) /\ ~Deleting(op)
    BY NoOpNotInOps, Zenon DEF PoolsIdle, Unstored, Deleting, Inv, Ownership
  <2> QED
    BY <2>1, Zenon DEF Inv, Running, Settled, TypeOK, Ownership
<1> QED
  BY <1>1, Invariance, PTL

\* Each report that ends somebody's wait is followed by its notification.
LEMMA WakeupStep == TypeOK /\ Ownership /\ NoLostWakeup /\ [Next]_vars => NoLostWakeup'
<1> SUFFICES ASSUME TypeOK, Ownership, NoLostWakeup, [Next]_vars
             PROVE  NoLostWakeup'
  BY Zenon
<1> USE Assumptions, NoOpNotInOps
        DEF TypeOK, Ownership, NoLostWakeup, tracker, adders, waiters, broker
<1>1. ASSUME NEW q \in Queues, EnqueueNew(q) PROVE NoLostWakeup'
  BY <1>1, Zenon DEF EnqueueNew, Schedule
<1>2. ASSUME NEW p \in Pids, NEW q \in Queues, EnqueueAgain(p, q) PROVE NoLostWakeup'
  BY <1>2, Zenon DEF EnqueueAgain, Schedule
<1>3. ASSUME NEW op \in Ops, Dequeue(op) PROVE NoLostWakeup'
  BY <1>3, Zenon DEF Dequeue
<1>4. ASSUME NEW t \in Adders, AdderStep(t) PROVE NoLostWakeup'
  <2>1. ASSUME NEW op \in Ops, TakeStore(t, op) PROVE NoLostWakeup'
    BY <2>1, Zenon DEF TakeStore
  <2>2. ASSUME Put(t) PROVE NoLostWakeup'
    BY <2>2, Zenon DEF Put, AdderGoto
  <2>3. ASSUME AddDup(t) PROVE NoLostWakeup'
    BY <2>3, Zenon DEF AddDup, AdderGoto
  <2>4. ASSUME NotifyDup(t) PROVE NoLostWakeup'
    BY <2>4, Zenon DEF NotifyDup, WakeAll, AdderGoto
  <2>5. ASSUME AddMain(t) PROVE NoLostWakeup'
    <3>1. CASE lastPid' = lastPid
      BY <2>5, <3>1 DEF AddMain, AdderGoto, AdderReturn
    <3>2. CASE adderPc' = [adderPc EXCEPT ![t] = "notifyMain"]
      BY <2>5, <3>2, Zenon DEF AddMain
    <3>3. CASE AddPid(lastPid, gapPidSet, adderOp[t][1]).updated
      BY <2>5, <3>2, <3>3, Zenon DEF AddMain, AdderGoto
    <3>4. CASE ~AddPid(lastPid, gapPidSet, adderOp[t][1]).updated
      BY <2>5, <3>1, <3>4, Zenon DEF AddMain, AddPid
    <3> QED
      BY <3>3, <3>4, Zenon
  <2>6. ASSUME NotifyMain(t) PROVE NoLostWakeup'
    BY <2>6, SMTT(20) DEF NotifyMain, WakeAll, AdderReturn
  <2> QED
    BY <1>4, <2>1, <2>2, <2>3, <2>4, <2>5, <2>6, Zenon DEF AdderStep
<1>5. ASSUME NEW t \in Waiters, WaiterStep(t) PROVE NoLostWakeup'
  <2> USE DEF WaiterGoto, WaiterReturn
  <2>1. ASSUME NEW op \in Ops, TakeDequeue(t, op) PROVE NoLostWakeup'
    BY <2>1, Zenon DEF TakeDequeue
  <2>2. ASSUME NEW op \in Ops, BeginLoad(t, op) PROVE NoLostWakeup'
    BY <2>2, Zenon DEF BeginLoad
  <2>3. ASSUME DupTest(t) \/ MainTest(t) \/ Spurious(t) PROVE NoLostWakeup'
    <3>1. waiterOp[t][1] \in Int /\ lastPid \in Int
      BY DEF NoOp, Ops, Pids
    <3> QED
      BY <2>3, <3>1 DEF DupTest, MainTest, Spurious
  <2>4. ASSUME DupWoken(t) \/ MainWoken(t) PROVE NoLostWakeup'
    BY <2>4 DEF DupWoken, MainWoken, AfterWait
  <2>5. ASSUME Reschedule(t) PROVE NoLostWakeup'
    BY <2>5, Zenon DEF Reschedule
  <2>6. ASSUME LoadRetry(t) \/ Load(t) PROVE NoLostWakeup'
    BY <2>6 DEF LoadRetry, Load
  <2>7. ASSUME Remove(t) PROVE NoLostWakeup'
    BY <2>7, Zenon DEF Remove
  <2> QED
    BY <1>5, <2>1, <2>2, <2>3, <2>4, <2>5, <2>6, <2>7, Zenon DEF WaiterStep, WaiterProgress
<1>6. ASSUME Finalize PROVE NoLostWakeup'
  BY <1>6 DEF Finalize, FinalProgress, SetStopped, StopNotifyMain, StopNotifyDup,
              ClearPools, WaitPools, FinalStep, WakeAll
<1>7. CASE UNCHANGED vars
  BY <1>7, Zenon DEF vars
<1> QED
  BY <1>1, <1>2, <1>3, <1>4, <1>5, <1>6, <1>7, Zenon DEF Next, Broker

(***************************************************************************)
(* No thread sleeps through the report it is waiting for.                  *)
(***************************************************************************)
THEOREM Wakeups == Spec => []NoLostWakeup
<1>1. Init => NoLostWakeup
  BY Zenon DEF Init, NoLostWakeup
<1>2. Inv => TypeOK /\ Ownership
  BY Zenon DEF Inv
<1> QED
  BY <1>1, <1>2, WakeupStep, Invariance, PTL DEF Spec
===============================================================================
