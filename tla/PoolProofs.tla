------------------------------ MODULE PoolProofs ------------------------------
(***************************************************************************)
(* Proofs about ThreadPool: type correctness, the counters, the absence of *)
(* stranded tasks and the promise of TaskPool, for any number of threads,  *)
(* tasks and callers and all policies.                                     *)
(***************************************************************************)
EXTENDS ThreadPool, FiniteSetTheorems, SequenceTheorems, TLAPS

Live == {"fetch", "asleep", "woken", "run", "leaving", "dying"}
Active == {"fetch", "run", "leaving", "dying"}
Coming == {"fetch", "woken"}

\* The workers that are in one of the states S according to f, and 1 if s is one of S.
InStates(f, S) == {w \in Workers : f[w] \in S}
One(s, S) == IF s \in S THEN 1 ELSE 0

\* CountersExact and NoneStranded as statements about any workers and counters.
Counts(f, c, a) ==
    c = Cardinality(InStates(f, Live)) /\ a = Cardinality(InStates(f, Active))
Attended(f, n, c, t) ==
    InStates(f, {"asleep"}) # {} => n <= Cardinality(InStates(f, Coming)) /\ c <= t

Running == \A w \in Workers : worker[w] = "run" => task[w] \in Tasks

PoolInv ==
    /\ TypeOK /\ Running
    /\ Counts(worker, count, active)
    /\ Attended(worker, Len(queue), count, target)

\* A task is in one place only, and a caller with a threshold is waiting.
Distinct(q) == \A i, j \in DOMAIN q : q[i] = q[j] => i = j
Once ==
    /\ Distinct(queue)
    /\ \A v, w \in WorkersIn({"run"}) : task[v] = task[w] => v = w
    /\ fresh \cap over = {} /\ (fresh \union over) \cap Contents(queue) = {}
    /\ (fresh \union over \union Contents(queue)) \cap Executing = {}
    /\ \A c \in Callers : idle[c] = "out" <=> limit[c] = NoLimit

-----------------------------------------------------------------------------
(***************************************************************************)
(* Sets of workers are finite.                                             *)
(***************************************************************************)
LEMMA WorkersFinite ==
    ASSUME NEW T \in SUBSET Workers
    PROVE  IsFiniteSet(T) /\ Cardinality(T) \in Nat
<1>1. IsFiniteSet(Workers)
  BY PoolAssumptions, FS_Interval DEF Workers
<1>2. IsFiniteSet(T)
  BY <1>1, FS_Subset, Zenon
<1> QED
  BY <1>2, FS_CardinalityType, Zenon

(***************************************************************************)
(* How many workers are in some states when one worker changes its state.  *)
(***************************************************************************)
LEMMA MoveOne ==
    ASSUME NEW f \in [Workers -> WorkerStates], NEW w \in Workers, NEW x, NEW S
    PROVE  /\ Cardinality(InStates(f, S)) \in Nat
           /\ Cardinality(InStates([f EXCEPT ![w] = x], S)) =
                  Cardinality(InStates(f, S)) + One(x, S) - One(f[w], S)
<1> DEFINE g == [f EXCEPT ![w] = x]
           A == InStates(f, S)
           B == InStates(g, S)
<1>1. IsFiniteSet(A) /\ Cardinality(A) \in Nat
  BY WorkersFinite, Zenon DEF InStates
<1>2. \A v \in Workers : g[v] = IF v = w THEN x ELSE f[v]
  BY Zenon
<1> HIDE DEF g
<1>3. CASE x \in S
  <2>1. B = A \union {w}
    BY <1>2, <1>3, Zenon DEF InStates
  <2>2. w \in A <=> f[w] \in S
    BY Zenon DEF InStates
  <2>3. Cardinality(B) = IF w \in A THEN Cardinality(A) ELSE Cardinality(A) + 1
    BY <1>1, <2>1, FS_AddElement, Zenon
  <2> QED
    BY <1>1, <1>3, <2>2, <2>3 DEF One, g
<1>4. CASE x \notin S
  <2>1. B = A \ {w}
    BY <1>2, <1>4, Zenon DEF InStates
  <2>2. w \in A <=> f[w] \in S
    BY Zenon DEF InStates
  <2>3. Cardinality(B) = IF w \in A THEN Cardinality(A) - 1 ELSE Cardinality(A)
    BY <1>1, <2>1, FS_RemoveElement, Zenon
  <2> QED
    BY <1>1, <1>4, <2>2, <2>3 DEF One, g
<1> QED
  BY <1>3, <1>4, Zenon

(***************************************************************************)
(* The counters follow a worker that changes its state.                    *)
(***************************************************************************)
LEMMA MoveCounts ==
    ASSUME NEW f \in [Workers -> WorkerStates], NEW w \in Workers, NEW x,
           NEW c, NEW a, Counts(f, c, a)
    PROVE  /\ c \in Nat /\ a \in Nat
           /\ Counts([f EXCEPT ![w] = x], c + One(x, Live) - One(f[w], Live),
                     a + One(x, Active) - One(f[w], Active))
<1>1. /\ Cardinality(InStates(f, Live)) \in Nat
      /\ Cardinality(InStates([f EXCEPT ![w] = x], Live)) =
             Cardinality(InStates(f, Live)) + One(x, Live) - One(f[w], Live)
  BY MoveOne, Zenon
<1>2. /\ Cardinality(InStates(f, Active)) \in Nat
      /\ Cardinality(InStates([f EXCEPT ![w] = x], Active)) =
             Cardinality(InStates(f, Active)) + One(x, Active) - One(f[w], Active)
  BY MoveOne, Zenon
<1> QED
  BY <1>1, <1>2, Zenon DEF Counts

(***************************************************************************)
(* No task is stranded by a worker that does not go to sleep and leaves    *)
(* the workers on their way as many as it leaves tasks.                    *)
(***************************************************************************)
LEMMA MoveAttended ==
    ASSUME NEW f \in [Workers -> WorkerStates], NEW w \in Workers, NEW x, x # "asleep",
           NEW n \in Nat, NEW m \in Nat, NEW c \in Nat, NEW d \in Nat, NEW t \in Nat,
           Attended(f, n, c, t), d <= c,
           m <= n + One(x, Coming) - One(f[w], Coming)
    PROVE  Attended([f EXCEPT ![w] = x], m, d, t)
<1> DEFINE g == [f EXCEPT ![w] = x]
<1>1. InStates(g, {"asleep"}) \subseteq InStates(f, {"asleep"})
  BY Zenon DEF InStates
<1>2. /\ Cardinality(InStates(f, Coming)) \in Nat
      /\ Cardinality(InStates(g, Coming)) =
             Cardinality(InStates(f, Coming)) + One(x, Coming) - One(f[w], Coming)
  BY MoveOne, Zenon
<1>3. One(x, Coming) \in Nat /\ One(f[w], Coming) \in Nat
  BY Zenon DEF One
<1> HIDE DEF g
<1>4. ASSUME InStates(g, {"asleep"}) # {} PROVE m <= Cardinality(InStates(g, Coming)) /\ d <= t
  BY <1>1, <1>2, <1>3, <1>4 DEF Attended
<1> QED
  BY <1>4, Zenon DEF Attended, g

(***************************************************************************)
(* Workers that resize() creates are counted, and on their way.            *)
(***************************************************************************)
LEMMA Births ==
    ASSUME NEW f \in [Workers -> WorkerStates], NEW born \in SUBSET Workers,
           \A w \in born : f[w] = "unborn", NEW S, "fetch" \in S, "unborn" \notin S
    PROVE  LET g == [w \in Workers |-> IF w \in born THEN "fetch" ELSE f[w]] IN
           /\ Cardinality(born) \in Nat /\ Cardinality(InStates(f, S)) \in Nat
           /\ Cardinality(InStates(g, S)) = Cardinality(InStates(f, S)) + Cardinality(born)
<1> DEFINE g == [w \in Workers |-> IF w \in born THEN "fetch" ELSE f[w]]
           A == InStates(f, S)
<1>1. /\ IsFiniteSet(A) /\ Cardinality(A) \in Nat
      /\ IsFiniteSet(born) /\ Cardinality(born) \in Nat
  BY WorkersFinite, Zenon DEF InStates
<1>2. InStates(g, S) = A \union born
  BY Zenon DEF InStates
<1>3. A \intersect born = {}
  BY Zenon DEF InStates
<1>4. Cardinality(A \union born) =
          Cardinality(A) + Cardinality(born) - Cardinality(A \intersect born)
  BY <1>1, FS_Union, Zenon
<1>5. Cardinality(A \intersect born) = 0
  BY <1>3, FS_EmptySet, Zenon
<1> HIDE DEF g, A
<1>6. Cardinality(InStates(g, S)) = Cardinality(A) + Cardinality(born)
  BY <1>1, <1>2, <1>4, <1>5
<1> QED
  BY <1>1, <1>6, Zenon DEF g, A

(***************************************************************************)
(* notify_all leaves nobody asleep, and the counters as they are until the *)
(* workers run again.                                                      *)
(***************************************************************************)
LEMMA WakeAll ==
    ASSUME NEW f \in [Workers -> WorkerStates]
    PROVE  LET g == [w \in Workers |-> Notified(f[w])] IN
           /\ g \in [Workers -> WorkerStates]
           /\ InStates(g, {"asleep"}) = {}
           /\ InStates(g, Live) = InStates(f, Live)
           /\ InStates(g, Active) = InStates(f, Active)
           /\ \A w \in Workers : g[w] = "run" => f[w] = "run"
BY Zenon DEF InStates, Notified, Live, Active, WorkerStates

(***************************************************************************)
(* push() adds one task to the queue, whatever the policy.                 *)
(***************************************************************************)
LEMMA PushOne ==
    ASSUME NEW o \in Orders, NEW q \in Seq(Tasks), NEW t \in Tasks
    PROVE  Pushed(o, q, t) \in Seq(Tasks) /\ Len(Pushed(o, q, t)) = Len(q) + 1
<1>1. Append(q, t) \in Seq(Tasks) /\ Len(Append(q, t)) = Len(q) + 1
  OBVIOUS
<1>2. <<t>> \o q \in Seq(Tasks) /\ Len(<<t>> \o q) = Len(q) + 1
  <2>1. <<t>> \in Seq(Tasks) /\ Len(<<t>>) = 1 /\ Len(q) \in Nat
    OBVIOUS
  <2>2. <<t>> \o q \in Seq(Tasks) /\ Len(<<t>> \o q) = Len(<<t>>) + Len(q)
    BY <2>1, ConcatProperties, Zenon
  <2> QED
    BY <2>1, <2>2
<1> QED
  BY <1>1, <1>2, Zenon DEF Pushed, Orders, FifoPush, LifoPush, PrioPush

(***************************************************************************)
(* top() is a task of the queue, and pop() removes one.                    *)
(***************************************************************************)
LEMMA PopOne ==
    ASSUME NEW o, NEW q \in Seq(Tasks), NEW i \in Tops(o, q)
    PROVE  /\ q[i] \in Tasks /\ Popped(q, i) \in Seq(Tasks)
           /\ Len(q) \in Nat \ {0} /\ Len(Popped(q, i)) = Len(q) - 1
<1>1. i \in 1..Len(q) /\ Len(q) \in Nat
  BY DEF Tops, PrioTop, FrontTop
<1>2. \A j \in 1..Len(q) : q[j] \in Tasks
  BY ElementOfSeq, Zenon
<1>3. /\ SubSeq(q, 1, i - 1) \in Seq(Tasks)
      /\ Len(SubSeq(q, 1, i - 1)) = IF 1 <= i - 1 THEN (i - 1) - 1 + 1 ELSE 0
  <2> DEFINE m == 1
             n == i - 1
  <2>1. m \in Int /\ n \in Int /\ \A j \in m..n : q[j] \in Tasks
    BY <1>1, <1>2
  <2> HIDE DEF m, n
  <2>2. /\ SubSeq(q, m, n) \in Seq(Tasks)
        /\ Len(SubSeq(q, m, n)) = IF m <= n THEN n - m + 1 ELSE 0
    BY <2>1, SubSeqProperties, Zenon
  <2> QED
    BY <2>2, Zenon DEF m, n
<1>4. /\ SubSeq(q, i + 1, Len(q)) \in Seq(Tasks)
      /\ Len(SubSeq(q, i + 1, Len(q))) = IF i + 1 <= Len(q) THEN Len(q) - (i + 1) + 1 ELSE 0
  <2>1. i + 1 \in Int /\ Len(q) \in Int /\ \A j \in (i + 1)..Len(q) : q[j] \in Tasks
    BY <1>1, <1>2
  <2> QED
    BY <2>1, SubSeqProperties, Zenon
<1>5. /\ Popped(q, i) \in Seq(Tasks)
      /\ Len(Popped(q, i)) = Len(SubSeq(q, 1, i - 1)) + Len(SubSeq(q, i + 1, Len(q)))
  BY <1>3, <1>4, ConcatProperties, Zenon DEF Popped
<1>6. Len(SubSeq(q, 1, i - 1)) = i - 1 /\ Len(SubSeq(q, i + 1, Len(q))) = Len(q) - i
  BY <1>1, <1>3, <1>4
<1>7. (i - 1) + (Len(q) - i) = Len(q) - 1 /\ Len(q) \in Nat \ {0}
  BY <1>1
<1>8. Len(Popped(q, i)) = (i - 1) + (Len(q) - i)
  BY <1>5, <1>6, Zenon
<1>9. q[i] \in Tasks
  BY <1>1, <1>2, Zenon
<1> QED
  BY <1>5, <1>7, <1>8, <1>9, Zenon

-----------------------------------------------------------------------------
(***************************************************************************)
(* Exact counters are natural numbers.                                     *)
(***************************************************************************)
LEMMA CountsNat ==
    ASSUME NEW f, NEW c, NEW a, Counts(f, c, a)
    PROVE  c \in Nat /\ a \in Nat
<1>1. Cardinality(InStates(f, Live)) \in Nat /\ Cardinality(InStates(f, Active)) \in Nat
  BY WorkersFinite, Zenon DEF InStates
<1> QED
  BY <1>1, Zenon DEF Counts

(***************************************************************************)
(* A worker that leaves because there are too many strands no task: then   *)
(* nobody is asleep.                                                       *)
(***************************************************************************)
LEMMA MoveSurplus ==
    ASSUME NEW f \in [Workers -> WorkerStates], NEW w \in Workers, NEW x, x # "asleep",
           NEW n, NEW m, NEW c \in Nat, NEW d, NEW t \in Nat, Attended(f, n, c, t), c > t
    PROVE  Attended([f EXCEPT ![w] = x], m, d, t)
<1>1. InStates(f, {"asleep"}) = {}
  BY DEF Attended
<1>2. InStates([f EXCEPT ![w] = x], {"asleep"}) = {}
  BY <1>1, Zenon DEF InStates
<1> QED
  BY <1>2, Zenon DEF Attended

(***************************************************************************)
(* The loop of execute_task, entered from the beginning or after a wait:   *)
(* the worker leaves, sleeps or takes a task.                              *)
(***************************************************************************)
LEMMA FetchLoopStep ==
    ASSUME PoolInv, NEW w \in Workers, worker[w] \in Coming,
           NEW a0, a0 = active + 1 - One(worker[w], Active), FetchLoop(w, a0),
           UNCHANGED <<policies, count, target, closing, owner, limit, fresh, over>>
    PROVE  PoolInv'
<1> USE DEF PoolInv
<1>1. /\ worker \in [Workers -> WorkerStates] /\ task \in [Workers -> Tasks \union {NoTask}]
      /\ queue \in Seq(Tasks) /\ Len(queue) \in Nat /\ idle \in [Clients -> IdleStates]
      /\ count \in Nat /\ target \in Nat /\ active \in Nat
  BY DEF TypeOK
<1>2. /\ order' = order /\ ending' = ending /\ count' = count /\ target' = target
      /\ terminating' = terminating /\ terminated' = terminated /\ owner' = owner
      /\ limit' = limit /\ fresh' = fresh /\ over' = over
  BY Zenon DEF policies, closing
<1>3. One(worker[w], Live) = 1 /\ One(worker[w], Coming) = 1 /\ One(worker[w], Active) \in {0, 1}
  BY Zenon DEF One, Live, Coming
<1>4. /\ One("leaving", Live) = 1 /\ One("leaving", Active) = 1
      /\ One("asleep", Live) = 1 /\ One("asleep", Active) = 0
      /\ One("run", Live) = 1 /\ One("run", Active) = 1 /\ One("run", Coming) = 0
  BY Zenon DEF One, Live, Active, Coming
<1>5. ASSUME NEW x PROVE Counts([worker EXCEPT ![w] = x], count + One(x, Live) - 1,
                                active + One(x, Active) - One(worker[w], Active))
  BY <1>1, <1>3, MoveCounts, Zenon
<1>6. CASE /\ queue = <<>> /\ count > target
           /\ worker' = [worker EXCEPT ![w] = "leaving"]
           /\ active' = a0
           /\ UNCHANGED <<queue, task, idle>>
  <2>1. Counts(worker', count', active')
    <3>1. count + One("leaving", Live) - 1 = count
          /\ active + One("leaving", Active) - One(worker[w], Active) = a0
      BY <1>1, <1>3, <1>4
    <3>2. Counts(worker', count + One("leaving", Live) - 1,
                 active + One("leaving", Active) - One(worker[w], Active))
      BY <1>5, <1>6, Zenon
    <3> QED
      BY <1>2, <1>6, <3>1, <3>2, Zenon
  <2>2. Attended(worker', Len(queue'), count', target')
    <3>1. "leaving" # "asleep"
      BY Zenon
    <3> QED
      BY <1>1, <1>2, <1>6, <3>1, MoveSurplus, Zenon
  <2>3. TypeOK'
    <3>1. count' \in Nat /\ active' \in Nat
      BY <2>1, CountsNat, Zenon
    <3> QED
      BY <1>1, <1>2, <1>6, <3>1, Zenon DEF TypeOK, WorkerStates
  <2>4. Running'
    BY <1>1, <1>6, Zenon DEF Running
  <2> QED
    BY <2>1, <2>2, <2>3, <2>4, Zenon
<1>7. CASE /\ queue = <<>> /\ count <= target
           /\ worker' = [worker EXCEPT ![w] = "asleep"]
           /\ active' = a0 - 1
           /\ NotifyIdle
           /\ UNCHANGED <<queue, task>>
  <2>1. Counts(worker', count', active')
    <3>1. count + One("asleep", Live) - 1 = count
          /\ active + One("asleep", Active) - One(worker[w], Active) = a0 - 1
      BY <1>1, <1>3, <1>4
    <3>2. Counts(worker', count + One("asleep", Live) - 1,
                 active + One("asleep", Active) - One(worker[w], Active))
      BY <1>5, <1>7, Zenon
    <3> QED
      BY <1>2, <1>7, <3>1, <3>2, Zenon
  <2>2. Attended(worker', Len(queue'), count', target')
    <3>1. Cardinality(InStates(worker', Coming)) \in Nat
      BY WorkersFinite, Zenon DEF InStates
    <3>2. Len(queue') = 0
      BY <1>7, Zenon
    <3> QED
      BY <1>1, <1>2, <1>7, <3>1, <3>2 DEF Attended
  <2>3. TypeOK'
    <3>1. count' \in Nat /\ active' \in Nat
      BY <2>1, CountsNat, Zenon
    <3>2. idle' \in [Clients -> IdleStates]
      BY <1>1, <1>7, Zenon DEF NotifyIdle, Notified, IdleStates
    <3> QED
      BY <1>1, <1>2, <1>7, <3>1, <3>2, Zenon DEF TypeOK, WorkerStates
  <2>4. Running'
    BY <1>1, <1>7, Zenon DEF Running
  <2> QED
    BY <2>1, <2>2, <2>3, <2>4, Zenon
<1>8. ASSUME NEW i \in Tops(order, queue),
             /\ worker' = [worker EXCEPT ![w] = "run"]
             /\ task' = [task EXCEPT ![w] = queue[i]]
             /\ queue' = Popped(queue, i)
             /\ active' = a0
             /\ UNCHANGED idle
      PROVE  PoolInv'
  <2>1. /\ queue[i] \in Tasks /\ queue' \in Seq(Tasks)
        /\ Len(queue) \in Nat \ {0} /\ Len(queue') = Len(queue) - 1
    BY <1>1, <1>8, PopOne, Zenon
  <2>2. Counts(worker', count', active')
    <3>1. count + One("run", Live) - 1 = count
          /\ active + One("run", Active) - One(worker[w], Active) = a0
      BY <1>1, <1>3, <1>4
    <3>2. Counts(worker', count + One("run", Live) - 1,
                 active + One("run", Active) - One(worker[w], Active))
      BY <1>5, <1>8, Zenon
    <3> QED
      BY <1>2, <1>8, <3>1, <3>2, Zenon
  <2>3. Attended(worker', Len(queue'), count', target')
    <3>1. "run" # "asleep" /\ Len(queue') \in Nat /\ count <= count
          /\ Len(queue') <= Len(queue) + One("run", Coming) - One(worker[w], Coming)
      BY <1>1, <1>3, <1>4, <2>1
    <3>2. Attended(worker, Len(queue), count, target)
      BY Zenon
    <3>3. Attended([worker EXCEPT ![w] = "run"], Len(queue'), count, target)
      BY <1>1, <3>1, <3>2, MoveAttended, Zenon
    <3> QED
      BY <1>2, <1>8, <3>3, Zenon
  <2>4. TypeOK'
    <3>1. count' \in Nat /\ active' \in Nat
      BY <2>2, CountsNat, Zenon
    <3> QED
      BY <1>1, <1>2, <1>8, <2>1, <3>1, Zenon DEF TypeOK, WorkerStates
  <2>5. Running'
    BY <1>1, <1>8, <2>1, Zenon DEF Running
  <2> QED
    BY <2>2, <2>3, <2>4, <2>5, Zenon
<1> QED
  BY <1>6, <1>7, <1>8, Zenon DEF FetchLoop

(***************************************************************************)
(* A worker that changes its state without going to sleep, is counted for  *)
(* what it becomes and does not turn away from the queue.                  *)
(***************************************************************************)
LEMMA MoveKeeps ==
    ASSUME PoolInv, NEW w \in Workers, NEW x \in WorkerStates, x # "asleep",
           worker' = [worker EXCEPT ![w] = x],
           count' = count + One(x, Live) - One(worker[w], Live),
           active' = active + One(x, Active) - One(worker[w], Active),
           One(x, Live) <= One(worker[w], Live), One(worker[w], Coming) <= One(x, Coming),
           queue' = queue, target' = target
    PROVE  /\ Counts(worker', count', active')
           /\ Attended(worker', Len(queue'), count', target')
           /\ worker' \in [Workers -> WorkerStates] /\ count' \in Nat /\ active' \in Nat
<1> USE DEF PoolInv
<1>1. /\ worker \in [Workers -> WorkerStates] /\ Len(queue) \in Nat
      /\ count \in Nat /\ target \in Nat
  BY DEF TypeOK
<1>2. Counts(worker', count', active')
  <2>1. Counts([worker EXCEPT ![w] = x], count + One(x, Live) - One(worker[w], Live),
               active + One(x, Active) - One(worker[w], Active))
    BY <1>1, MoveCounts, Zenon
  <2> QED
    BY <2>1, Zenon
<1>3. count' \in Nat /\ active' \in Nat
  BY <1>2, CountsNat, Zenon
<1>4. count' <= count /\ Len(queue) <= Len(queue) + One(x, Coming) - One(worker[w], Coming)
  BY <1>1 DEF One
<1>5. Attended(worker, Len(queue), count, target)
  BY Zenon
<1>6. Attended([worker EXCEPT ![w] = x], Len(queue), count', target)
  BY <1>1, <1>3, <1>4, <1>5, MoveAttended, Zenon
<1> QED
  BY <1>1, <1>2, <1>3, <1>6, Zenon

(***************************************************************************)
(* The end of a task, by returning or by throwing, a spurious wake-up, the *)
(* end of a worker and of its thread keep the counters exact and strand no *)
(* task.                                                                   *)
(***************************************************************************)
LEMMA PlainStep ==
    ASSUME PoolInv, NEW w \in Workers,
           Execute(w) \/ Throw(w) \/ Spurious(w) \/ WorkerDestructed(w) \/ ThreadEnds(w)
    PROVE  PoolInv'
<1> USE DEF PoolInv
<1>1. /\ worker \in [Workers -> WorkerStates] /\ task \in [Workers -> Tasks \union {NoTask}]
      /\ count \in Nat /\ active \in Nat /\ idle \in [Clients -> IdleStates]
  BY Zenon DEF TypeOK
<1>2. ASSUME NEW x \in {"fetch", "dying"}, EndTask(w, x) PROVE PoolInv'
  <2>1. /\ count' = count + One(x, Live) - One(worker[w], Live)
        /\ active' = active + One(x, Active) - One(worker[w], Active)
        /\ One(x, Live) <= One(worker[w], Live) /\ One(worker[w], Coming) <= One(x, Coming)
    BY <1>1, <1>2 DEF EndTask, counters, One, Live, Active, Coming
  <2>2. /\ x \in WorkerStates /\ x # "asleep" /\ worker' = [worker EXCEPT ![w] = x]
        /\ queue' = queue /\ target' = target
    BY <1>2, Zenon DEF EndTask, counters, WorkerStates
  <2>3. /\ Counts(worker', count', active')
        /\ Attended(worker', Len(queue'), count', target')
        /\ worker' \in [Workers -> WorkerStates] /\ count' \in Nat /\ active' \in Nat
    BY <2>1, <2>2, MoveKeeps, Zenon
  <2>4. TypeOK' /\ Running'
    BY <1>1, <1>2, <2>2, <2>3, Zenon DEF TypeOK, Running, EndTask, policies, counters, closing
  <2> QED
    BY <2>3, <2>4, Zenon
<1>3. CASE Spurious(w)
  <2>1. /\ count' = count + One("woken", Live) - One(worker[w], Live)
        /\ active' = active + One("woken", Active) - One(worker[w], Active)
        /\ One("woken", Live) <= One(worker[w], Live)
        /\ One(worker[w], Coming) <= One("woken", Coming)
    BY <1>1, <1>3 DEF Spurious, counters, One, Live, Active, Coming
  <2>2. /\ "woken" \in WorkerStates /\ "woken" # "asleep"
        /\ worker' = [worker EXCEPT ![w] = "woken"] /\ queue' = queue /\ target' = target
    BY <1>3, Zenon DEF Spurious, counters, WorkerStates
  <2>3. /\ Counts(worker', count', active')
        /\ Attended(worker', Len(queue'), count', target')
        /\ worker' \in [Workers -> WorkerStates] /\ count' \in Nat /\ active' \in Nat
    BY <2>1, <2>2, MoveKeeps, Zenon
  <2>4. TypeOK' /\ Running'
    BY <1>1, <1>3, <2>2, <2>3, Zenon DEF TypeOK, Running, Spurious, policies, counters, closing
  <2> QED
    BY <2>3, <2>4, Zenon
<1>4. CASE WorkerDestructed(w)
  <2>1. /\ count' = count + One("ended", Live) - One(worker[w], Live)
        /\ active' = active + One("ended", Active) - One(worker[w], Active)
        /\ One("ended", Live) <= One(worker[w], Live)
        /\ One(worker[w], Coming) <= One("ended", Coming)
    BY <1>1, <1>4 DEF WorkerDestructed, One, Live, Active, Coming
  <2>2. /\ "ended" \in WorkerStates /\ "ended" # "asleep"
        /\ worker' = [worker EXCEPT ![w] = "ended"] /\ queue' = queue /\ target' = target
    BY <1>4, Zenon DEF WorkerDestructed, WorkerStates
  <2>3. /\ Counts(worker', count', active')
        /\ Attended(worker', Len(queue'), count', target')
        /\ worker' \in [Workers -> WorkerStates] /\ count' \in Nat /\ active' \in Nat
    BY <2>1, <2>2, MoveKeeps, Zenon
  <2>4. idle' \in [Clients -> IdleStates]
    BY <1>1, <1>4, Zenon DEF WorkerDestructed, NotifyIdle, Notified, IdleStates
  <2>5. TypeOK' /\ Running'
    BY <1>1, <1>4, <2>2, <2>3, <2>4 DEF TypeOK, Running, WorkerDestructed, policies
  <2> QED
    BY <2>3, <2>5, Zenon
<1>5. CASE ThreadEnds(w)
  <2>1. /\ count' = count + One("gone", Live) - One(worker[w], Live)
        /\ active' = active + One("gone", Active) - One(worker[w], Active)
        /\ One("gone", Live) <= One(worker[w], Live)
        /\ One(worker[w], Coming) <= One("gone", Coming)
    BY <1>1, <1>5 DEF ThreadEnds, counters, One, Live, Active, Coming
  <2>2. /\ "gone" \in WorkerStates /\ "gone" # "asleep"
        /\ worker' = [worker EXCEPT ![w] = "gone"] /\ queue' = queue /\ target' = target
    BY <1>5, Zenon DEF ThreadEnds, counters, WorkerStates
  <2>3. /\ Counts(worker', count', active')
        /\ Attended(worker', Len(queue'), count', target')
        /\ worker' \in [Workers -> WorkerStates] /\ count' \in Nat /\ active' \in Nat
    BY <2>1, <2>2, MoveKeeps, Zenon
  <2>4. TypeOK' /\ Running'
    BY <1>1, <1>5, <2>2, <2>3, Zenon DEF TypeOK, Running, ThreadEnds, policies, counters, closing
  <2> QED
    BY <2>3, <2>4, Zenon
<1> QED
  BY <1>2, <1>3, <1>4, <1>5, Zenon DEF Execute, Throw

(***************************************************************************)
(* resize() to more workers: those it creates are counted, and no more     *)
(* than were asked for.                                                    *)
(***************************************************************************)
LEMMA GrowKeeps ==
    ASSUME NEW f \in [Workers -> WorkerStates], NEW c, NEW a, NEW t, NEW n \in Nat,
           Counts(f, c, a), Attended(f, n, c, t), target' \in Nat, Grow(f, c, a)
    PROVE  /\ Counts(worker', count', active')
           /\ Attended(worker', n, count', target')
           /\ worker' \in [Workers -> WorkerStates] /\ count' \in Nat /\ active' \in Nat
           /\ \A w \in Workers : worker'[w] = "run" => f[w] = "run"
<1>1. PICK last \in 0..MaxThreads :
        LET born == {w \in 1..last : f[w] = "unborn"} IN
        /\ Cardinality(born) <= target' - c
        /\ worker' = [w \in Workers |-> IF w \in born THEN "fetch" ELSE f[w]]
        /\ count' = c + Cardinality(born)
        /\ active' = a + Cardinality(born)
  BY Zenon DEF Grow
<1> DEFINE born == {w \in 1..last : f[w] = "unborn"}
<1>2. born \in SUBSET Workers /\ \A w \in born : f[w] = "unborn"
  BY <1>1, PoolAssumptions DEF Workers
<1> HIDE DEF born
<1>3. ASSUME NEW S, "fetch" \in S, "unborn" \notin S
      PROVE  /\ Cardinality(born) \in Nat /\ Cardinality(InStates(f, S)) \in Nat
             /\ Cardinality(InStates(worker', S)) = Cardinality(InStates(f, S)) + Cardinality(born)
  BY <1>1, <1>2, <1>3, Births, Zenon DEF born
<1>4. Counts(worker', count', active')
  <2>1. "fetch" \in Live /\ "unborn" \notin Live /\ "fetch" \in Active /\ "unborn" \notin Active
    BY Zenon DEF Live, Active
  <2>2. /\ Cardinality(InStates(worker', Live)) = Cardinality(InStates(f, Live)) + Cardinality(born)
        /\ Cardinality(InStates(worker', Active)) =
               Cardinality(InStates(f, Active)) + Cardinality(born)
    BY <1>3, <2>1, Zenon
  <2> QED
    BY <1>1, <2>2, Zenon DEF Counts, born
<1>5. count' \in Nat /\ active' \in Nat /\ c \in Nat
  BY <1>4, CountsNat, Zenon
<1>6. worker' \in [Workers -> WorkerStates]
      /\ \A w \in Workers : worker'[w] = IF w \in born THEN "fetch" ELSE f[w]
  BY <1>1, Zenon DEF born, WorkerStates
<1>7. ASSUME InStates(worker', {"asleep"}) # {}
      PROVE  n <= Cardinality(InStates(worker', Coming)) /\ count' <= target'
  <2>1. InStates(f, {"asleep"}) # {}
    BY <1>6, <1>7, Zenon DEF InStates
  <2>2. n <= Cardinality(InStates(f, Coming))
    BY <2>1, Zenon DEF Attended
  <2>3. "fetch" \in Coming /\ "unborn" \notin Coming
    BY Zenon DEF Coming
  <2>4. /\ Cardinality(born) \in Nat /\ Cardinality(InStates(f, Coming)) \in Nat
        /\ Cardinality(InStates(worker', Coming)) =
               Cardinality(InStates(f, Coming)) + Cardinality(born)
    BY <1>3, <2>3, Zenon
  <2>5. count' = c + Cardinality(born) /\ Cardinality(born) <= target' - c
    BY <1>1, Zenon DEF born
  <2> QED
    BY <1>5, <2>2, <2>4, <2>5
<1>8. Attended(worker', n, count', target')
  BY <1>7, Zenon DEF Attended
<1> QED
  BY <1>4, <1>5, <1>6, <1>8, Zenon

(***************************************************************************)
(* A worker whose task threw is replaced, or counted out when the pool is  *)
(* being shut down.                                                        *)
(***************************************************************************)
LEMMA DeathStep ==
    ASSUME PoolInv, NEW w \in Workers, WorkerDied(w)
    PROVE  PoolInv'
<1> USE DEF PoolInv
<1>1. /\ worker \in [Workers -> WorkerStates] /\ Len(queue) \in Nat
      /\ count \in Nat /\ active \in Nat /\ target \in Nat /\ idle \in [Clients -> IdleStates]
  BY DEF TypeOK
<1>2. /\ worker[w] = "dying" /\ NotifyIdle
      /\ order' = order /\ ending' = ending /\ queue' = queue /\ terminating' = terminating
      /\ task' = task /\ owner' = owner /\ limit' = limit /\ fresh' = fresh /\ over' = over
  BY Zenon DEF WorkerDied, policies
<1>3. idle' \in [Clients -> IdleStates]
  BY <1>1, <1>2, Zenon DEF NotifyIdle, Notified, IdleStates
<1>4. /\ One("ended", Live) = 0 /\ One("ended", Active) = 0 /\ One("ended", Coming) = 0
      /\ One(worker[w], Live) = 1 /\ One(worker[w], Active) = 1 /\ One(worker[w], Coming) = 0
      /\ "ended" \in WorkerStates /\ "ended" # "asleep"
  BY <1>2, Zenon DEF One, Live, Active, Coming, WorkerStates
<1> DEFINE f == [worker EXCEPT ![w] = "ended"]
<1>5. f \in [Workers -> WorkerStates] /\ \A v \in Workers : f[v] = "run" => worker[v] = "run"
  BY <1>1, <1>4, Zenon
<1>6. Counts(f, count - 1, active - 1)
  <2>1. Counts(f, count + One("ended", Live) - One(worker[w], Live),
               active + One("ended", Active) - One(worker[w], Active))
    BY <1>1, MoveCounts, Zenon
  <2>2. count + One("ended", Live) - One(worker[w], Live) = count - 1
        /\ active + One("ended", Active) - One(worker[w], Active) = active - 1
    BY <1>1, <1>4
  <2> QED
    BY <2>1, <2>2, Zenon
<1>7. count - 1 \in Nat /\ active - 1 \in Nat
  BY <1>6, CountsNat, Zenon
<1>8. Attended(f, Len(queue), count - 1, target)
  <2>1. /\ count - 1 <= count
        /\ Len(queue) <= Len(queue) + One("ended", Coming) - One(worker[w], Coming)
    BY <1>1, <1>4
  <2>2. Attended(worker, Len(queue), count, target)
    BY Zenon
  <2> QED
    BY <1>1, <1>4, <1>7, <2>1, <2>2, MoveAttended, Zenon
<1> HIDE DEF f
<1>9. /\ Counts(worker', count', active') /\ Attended(worker', Len(queue), count', target')
      /\ worker' \in [Workers -> WorkerStates] /\ count' \in Nat /\ active' \in Nat
      /\ target' \in Nat /\ terminated' \subseteq Workers
      /\ \A v \in Workers : worker'[v] = "run" => f[v] = "run"
  <2>1. CASE /\ worker' = f /\ count' = count - 1 /\ active' = active - 1
             /\ target' = target /\ terminated' = terminated \union {w}
    BY <1>1, <1>5, <1>6, <1>7, <1>8, <2>1, SMTT(30) DEF TypeOK
  <2>2. CASE /\ target' = SizeAfterDeath(count - 1) /\ Grow(f, count - 1, active - 1)
             /\ terminated' = terminated
    <3>1. target' \in Nat /\ terminated' \subseteq Workers
      BY <1>1, <1>7, <2>2, SMTT(30) DEF SizeAfterDeath, TypeOK
    <3> QED
      BY <1>1, <1>5, <1>6, <1>8, <2>2, <3>1, GrowKeeps, SMTT(30)
  <2> QED
    BY <2>1, <2>2, SMTT(30) DEF WorkerDied, f
<1>10. TypeOK' /\ Running'
  BY <1>2, <1>3, <1>5, <1>9, Zenon DEF TypeOK, Running
<1> QED
  BY <1>2, <1>9, <1>10, Zenon

(***************************************************************************)
(* The users' calls that reach no worker, and the owner's steps up to and  *)
(* after terminate_all_workers: at most the queue is emptied.              *)
(***************************************************************************)
LEMMA ClientStep ==
    ASSUME PoolInv,
           \/ Clear \/ BeginShutdown \/ ShutdownClear \/ ShutdownWait \/ Drain \/ Join
           \/ \E c \in Callers :
               \/ Retest(c) \/ TimeOut(c)
               \/ \E n \in Limits, timed \in BOOLEAN : BeginWait(c, n, timed)
    PROVE  PoolInv'
<1> USE DEF PoolInv
<1>1. /\ worker' = worker /\ count' = count /\ active' = active /\ target' = target
      /\ task' = task /\ queue' \in {queue, <<>>}
      /\ order' = order /\ ending' = ending /\ terminating' = terminating
      /\ terminated' \in {terminated, {}} /\ fresh' = fresh /\ over' = over
  BY Zenon DEF Clear, BeginShutdown, ShutdownClear, ShutdownWait, Drain, Join, Retest, TimeOut,
         BeginWait, policies, counters, closing
<1>2. queue \in Seq(Tasks) /\ Len(queue) \in Nat /\ <<>> \in Seq(Tasks) /\ Len(<<>>) = 0
  BY DEF TypeOK
<1>3. queue' \in Seq(Tasks) /\ Len(queue') <= Len(queue) /\ Len(queue') \in Nat
  <2>1. CASE queue' = queue
    BY <1>2, <2>1
  <2>2. CASE queue' = <<>>
    BY <1>2, <2>2
  <2> QED
    BY <1>1, <2>1, <2>2, Zenon
<1>4. Cardinality(InStates(worker, Coming)) \in Nat
  BY WorkersFinite, Zenon DEF InStates
<1>5. Attended(worker', Len(queue'), count', target')
  BY <1>1, <1>2, <1>3, <1>4, SMTT(30) DEF Attended
<1>6. Counts(worker', count', active') /\ Running'
  BY <1>1, Zenon DEF Running
<1>7. /\ idle \in [Clients -> IdleStates]
      /\ limit \in [Callers -> [most : Limits, timed : BOOLEAN] \union {NoLimit}]
      /\ Callers \subseteq Clients /\ "owner" \in Clients
  BY Zenon DEF TypeOK, Clients
<1>8. /\ idle' \in [Clients -> IdleStates] /\ owner' \in OwnerStates
      /\ limit' \in [Callers -> [most : Limits, timed : BOOLEAN] \union {NoLimit}]
  <2>1. CASE Clear \/ BeginShutdown \/ ShutdownClear \/ ShutdownWait \/ Drain \/ Join
    BY <1>7, <2>1, SMTT(30)
       DEF TypeOK, Clear, BeginShutdown, ShutdownClear, ShutdownWait, Drain, Join, AfterDrainTest,
           OwnerGoes, OwnerStates, IdleStates
  <2>2. ASSUME NEW c \in Callers, Retest(c) \/ TimeOut(c)
        PROVE  /\ idle' \in [Clients -> IdleStates] /\ owner' \in OwnerStates
               /\ limit' \in [Callers -> [most : Limits, timed : BOOLEAN] \union {NoLimit}]
    BY <1>7, <2>2, SMTT(30) DEF TypeOK, Retest, TimeOut, IdleStates
  <2>3. ASSUME NEW c \in Callers, NEW n \in Limits, NEW timed \in BOOLEAN, BeginWait(c, n, timed)
        PROVE  /\ idle' \in [Clients -> IdleStates] /\ owner' \in OwnerStates
               /\ limit' \in [Callers -> [most : Limits, timed : BOOLEAN] \union {NoLimit}]
    BY <1>7, <2>3, Zenon DEF TypeOK, BeginWait, IdleStates
  <2> QED
    BY <2>1, <2>2, <2>3, SMTT(30)
<1>9. TypeOK'
  BY <1>1, <1>3, <1>8, Zenon DEF TypeOK
<1> QED
  BY <1>5, <1>6, <1>9, SMTT(30)

(***************************************************************************)
(* schedule() wakes a sleeper for the task it adds, if there is one.       *)
(***************************************************************************)
LEMMA ScheduleStep ==
    ASSUME PoolInv, NEW t \in Tasks, Schedule(t)
    PROVE  PoolInv'
<1> USE DEF PoolInv
<1>1. /\ worker \in [Workers -> WorkerStates] /\ queue \in Seq(Tasks) /\ Len(queue) \in Nat
      /\ count \in Nat /\ target \in Nat /\ active \in Nat /\ order \in Orders
  BY DEF TypeOK
<1>2. /\ order' = order /\ ending' = ending /\ count' = count /\ target' = target
      /\ active' = active /\ terminating' = terminating /\ terminated' = terminated
      /\ task' = task /\ owner' = owner /\ idle' = idle /\ limit' = limit /\ over' = over
      /\ fresh' = fresh \ {t} /\ queue' = Pushed(order, queue, t) /\ WakeOneWorker
  BY Zenon DEF Schedule, policies, counters, closing
<1>3. queue' \in Seq(Tasks) /\ Len(queue') = Len(queue) + 1
  BY <1>1, <1>2, PushOne, Zenon
<1>4. ASSUME NEW v \in Workers, worker[v] = "asleep", worker' = [worker EXCEPT ![v] = "woken"]
      PROVE  /\ Counts(worker', count, active) /\ Attended(worker', Len(queue'), count, target)
             /\ worker' \in [Workers -> WorkerStates] /\ Running'
  <2>1. /\ One("woken", Live) = 1 /\ One("woken", Active) = 0 /\ One("woken", Coming) = 1
        /\ One(worker[v], Live) = 1 /\ One(worker[v], Active) = 0 /\ One(worker[v], Coming) = 0
        /\ "woken" # "asleep"
    BY <1>4, Zenon DEF One, Live, Active, Coming
  <2>2. Counts(worker', count + One("woken", Live) - One(worker[v], Live),
               active + One("woken", Active) - One(worker[v], Active))
    BY <1>1, <1>4, MoveCounts, Zenon
  <2>3. count + One("woken", Live) - One(worker[v], Live) = count
        /\ active + One("woken", Active) - One(worker[v], Active) = active
    BY <1>1, <2>1
  <2>4. /\ count <= count /\ Len(queue') \in Nat
        /\ Len(queue') <= Len(queue) + One("woken", Coming) - One(worker[v], Coming)
    BY <1>1, <1>3, <2>1
  <2>5. Attended(worker, Len(queue), count, target)
    BY Zenon
  <2>6. Attended([worker EXCEPT ![v] = "woken"], Len(queue'), count, target)
    BY <1>1, <2>1, <2>4, <2>5, MoveAttended, Zenon
  <2>7. worker' \in [Workers -> WorkerStates] /\ Running'
    BY <1>1, <1>2, <1>4, Zenon DEF WorkerStates, Running
  <2>8. Counts(worker', count, active)
    BY <2>2, <2>3, Zenon
  <2> QED
    BY <1>4, <2>6, <2>7, <2>8, Zenon
<1>5. ASSUME WorkersIn({"asleep"}) = {}, worker' = worker
      PROVE  /\ Counts(worker', count, active) /\ Attended(worker', Len(queue'), count, target)
             /\ worker' \in [Workers -> WorkerStates] /\ Running'
  BY <1>1, <1>2, <1>5, SMTT(30) DEF Attended, InStates, WorkersIn, Running
<1>6. /\ Counts(worker', count, active) /\ Attended(worker', Len(queue'), count, target)
      /\ worker' \in [Workers -> WorkerStates] /\ Running'
  BY <1>2, <1>4, <1>5, SMTT(30) DEF WakeOneWorker, WorkersIn
<1>7. TypeOK'
  BY <1>2, <1>3, <1>6, SMTT(30) DEF TypeOK
<1> QED
  BY <1>2, <1>6, <1>7, Zenon

(***************************************************************************)
(* notify_all by resize() and terminate_all_workers(): nobody sleeps, so   *)
(* that the target may become less than the number of workers.             *)
(***************************************************************************)
LEMMA AllWoken ==
    ASSUME PoolInv, worker' = [w \in Workers |-> Notified(worker[w])], task' = task,
           NEW n, NEW t
    PROVE  /\ Counts(worker', count, active) /\ Attended(worker', n, count, t)
           /\ worker' \in [Workers -> WorkerStates] /\ Running'
<1> USE DEF PoolInv
<1>1. /\ worker' \in [Workers -> WorkerStates]
      /\ InStates(worker', {"asleep"}) = {}
      /\ InStates(worker', Live) = InStates(worker, Live)
      /\ InStates(worker', Active) = InStates(worker, Active)
      /\ \A w \in Workers : worker'[w] = "run" => worker[w] = "run"
  BY WakeAll, Zenon DEF TypeOK
<1> QED
  BY <1>1, Zenon DEF Counts, Attended, Running

(***************************************************************************)
(* resize() in either direction, and the first step of                     *)
(* terminate_all_workers().                                                *)
(***************************************************************************)
LEMMA ResizeStep ==
    ASSUME PoolInv, TerminateAllWorkers \/ \E n \in Sizes : Resize(n)
    PROVE  PoolInv'
<1> USE DEF PoolInv
<1>1. worker \in [Workers -> WorkerStates] /\ Len(queue) \in Nat /\ Sizes \subseteq Nat
  BY PoolAssumptions DEF TypeOK
<1>2. CASE TerminateAllWorkers
  <2>1. /\ worker' = [w \in Workers |-> Notified(worker[w])] /\ task' = task
        /\ count' = count /\ active' = active /\ target' = 0
    BY <1>2, SMTT(30) DEF TerminateAllWorkers, WakeAllWorkers
  <2>2. /\ Counts(worker', count', active') /\ Attended(worker', Len(queue'), count', target')
        /\ worker' \in [Workers -> WorkerStates] /\ Running'
    BY <2>1, AllWoken, Zenon
  <2>3. idle' \in [Clients -> IdleStates] /\ owner' \in OwnerStates
    BY <1>2, SMTT(30) DEF TerminateAllWorkers, AfterDrainTest, TypeOK, IdleStates, OwnerStates
  <2>4. TypeOK'
    BY <1>2, <2>1, <2>2, <2>3 DEF TerminateAllWorkers, TypeOK, policies
  <2> QED
    BY <2>2, <2>4, Zenon
<1>3. ASSUME NEW n \in Sizes, Resize(n) PROVE PoolInv'
  <2>1. /\ target' = n /\ n \in Nat /\ task' = task /\ queue' = queue
        /\ order' = order /\ ending' = ending /\ terminating' = terminating
        /\ terminated' = terminated /\ owner' = owner /\ idle' = idle /\ limit' = limit
        /\ fresh' = fresh /\ over' = over
    BY <1>1, <1>3, SMTT(30) DEF Resize, policies, closing
  <2>2. /\ Counts(worker', count', active') /\ Attended(worker', Len(queue'), count', target')
        /\ worker' \in [Workers -> WorkerStates] /\ count' \in Nat /\ active' \in Nat /\ Running'
    <3>1. CASE Grow(worker, count, active)
      <4>1. /\ Counts(worker', count', active') /\ Attended(worker', Len(queue), count', target')
            /\ worker' \in [Workers -> WorkerStates] /\ count' \in Nat /\ active' \in Nat
            /\ \A w \in Workers : worker'[w] = "run" => worker[w] = "run"
        BY <1>1, <2>1, <3>1, GrowKeeps, Zenon
      <4> QED
        BY <2>1, <4>1, SMTT(30) DEF Running
    <3>2. CASE Shrink(worker) /\ count' = count /\ active' = active
      <4>1. worker' = [w \in Workers |-> Notified(worker[w])]
        BY <3>2, SMTT(30) DEF Shrink
      <4>2. /\ Counts(worker', count, active) /\ Attended(worker', Len(queue'), count, target')
            /\ worker' \in [Workers -> WorkerStates] /\ Running'
        BY <2>1, <4>1, AllWoken, SMTT(30)
      <4> QED
        BY <3>2, <4>2, CountsNat, SMTT(30)
    <3> QED
      BY <1>3, <3>1, <3>2, SMTT(30) DEF Resize
  <2>3. TypeOK'
    BY <2>1, <2>2, SMTT(30) DEF TypeOK
  <2> QED
    BY <2>2, <2>3, Zenon
<1> QED
  BY <1>2, <1>3, Zenon

(***************************************************************************)
(* execute_task from its beginning and after a wait.                       *)
(***************************************************************************)
LEMMA FetchStep ==
    ASSUME PoolInv, NEW w \in Workers, Fetch(w) \/ Wake(w)
    PROVE  PoolInv'
<1> USE DEF PoolInv
<1>1. /\ worker \in [Workers -> WorkerStates] /\ Len(queue) \in Nat
      /\ count \in Nat /\ target \in Nat /\ active \in Nat
  BY DEF TypeOK
<1>2. CASE Wake(w) \/ (Fetch(w) /\ FetchLoop(w, active))
  <2>1. worker[w] \in Coming
        /\ UNCHANGED <<policies, count, target, closing, owner, limit, fresh, over>>
    BY <1>2, Zenon DEF Wake, Fetch, Coming
  <2>2. FetchLoop(w, active + 1 - One(worker[w], Active))
    <3>1. CASE Wake(w)
      <4>1. active + 1 - One(worker[w], Active) = active + 1
        BY <1>1, <3>1 DEF Wake, One, Active
      <4> QED
        BY <3>1, <4>1, Zenon DEF Wake
    <3>2. CASE Fetch(w) /\ FetchLoop(w, active)
      <4>1. active + 1 - One(worker[w], Active) = active
        BY <1>1, <3>2 DEF Fetch, One, Active
      <4> QED
        BY <3>2, <4>1, Zenon
    <3> QED
      BY <1>2, <3>1, <3>2, Zenon
  <2> QED
    BY <2>1, <2>2, FetchLoopStep, SMTT(30)
<1>3. CASE Fetch(w) /\ count > target /\ worker' = [worker EXCEPT ![w] = "leaving"]
           /\ UNCHANGED <<queue, active, task, idle>>
  <2>1. /\ One("leaving", Live) = 1 /\ One("leaving", Active) = 1 /\ "leaving" # "asleep"
        /\ One(worker[w], Live) = 1 /\ One(worker[w], Active) = 1
    BY <1>3, Zenon DEF Fetch, One, Live, Active
  <2>2. Counts(worker', count + One("leaving", Live) - One(worker[w], Live),
               active + One("leaving", Active) - One(worker[w], Active))
    BY <1>1, <1>3, MoveCounts, Zenon
  <2>3. count + One("leaving", Live) - One(worker[w], Live) = count
        /\ active + One("leaving", Active) - One(worker[w], Active) = active
    BY <1>1, <2>1
  <2>4. count' = count /\ target' = target /\ active' = active
    BY <1>3, Zenon DEF Fetch
  <2>5. Counts(worker', count', active')
    BY <2>2, <2>3, <2>4, Zenon
  <2>6. Attended(worker', Len(queue'), count', target')
    BY <1>1, <1>3, <2>1, <2>4, MoveSurplus, Zenon
  <2>7. TypeOK' /\ Running'
    BY <1>1, <1>3, <2>4, Zenon DEF TypeOK, Running, WorkerStates, Fetch, policies, closing
  <2> QED
    BY <2>5, <2>6, <2>7, Zenon
<1> QED
  BY <1>2, <1>3, Zenon DEF Fetch

-----------------------------------------------------------------------------
(***************************************************************************)
(* The invariant of the pool.                                              *)
(***************************************************************************)
LEMMA PoolInvariance == Spec => []PoolInv
<1>1. ASSUME Init PROVE PoolInv
  <2>1. PICK n \in 0..target \cap 0..MaxThreads :
          /\ worker = [w \in Workers |-> IF w <= n THEN "fetch" ELSE "unborn"]
          /\ count = n /\ active = n
    BY <1>1, Zenon DEF Init
  <2>2. /\ n \in Nat /\ n <= MaxThreads /\ target \in Nat
        /\ queue = <<>> /\ Len(queue) = 0 /\ queue \in Seq(Tasks)
    BY <1>1, <2>1, PoolAssumptions DEF Init
  <2>3. InStates(worker, Live) = 1..n /\ InStates(worker, Active) = 1..n
        /\ InStates(worker, {"asleep"}) = {}
    BY <2>1, <2>2, PoolAssumptions DEF InStates, Live, Active, Workers
  <2>4. Cardinality(1..n) = n
    BY <2>2, FS_Interval
  <2>5. Counts(worker, count, active) /\ Attended(worker, Len(queue), count, target)
    BY <2>1, <2>3, <2>4, Zenon DEF Counts, Attended
  <2>6. order \in Orders /\ ending \in Endings
    BY <1>1, PoolAssumptions, Zenon DEF Init
  <2>7. TypeOK /\ Running
    BY <1>1, <2>1, <2>2, <2>6, Zenon
       DEF Init, TypeOK, Running, WorkerStates, OwnerStates, IdleStates
  <2> QED
    BY <2>5, <2>7, Zenon DEF PoolInv
<1>2. ASSUME PoolInv, [Next]_vars PROVE PoolInv'
  <2>1. CASE \E t \in Tasks : Schedule(t)
    BY <1>2, <2>1, ScheduleStep, Zenon
  <2>2. ASSUME NEW w \in Workers, WorkerStep(w) \/ Throw(w) \/ Spurious(w) PROVE PoolInv'
    BY <1>2, <2>2, FetchStep, PlainStep, DeathStep, Zenon DEF WorkerStep
  <2>3. CASE TerminateAllWorkers \/ \E n \in Sizes : Resize(n)
    BY <1>2, <2>3, ResizeStep, Zenon
  <2>4. CASE \/ Clear \/ BeginShutdown \/ ShutdownClear \/ ShutdownWait \/ Drain \/ Join
             \/ \E c \in Callers :
                 \/ Retest(c) \/ TimeOut(c)
                 \/ \E n \in Limits, timed \in BOOLEAN : BeginWait(c, n, timed)
    BY <1>2, <2>4, ClientStep, SMTT(30)
  <2>5. CASE UNCHANGED vars
    BY <1>2, <2>5, Zenon DEF PoolInv, TypeOK, Running, vars, policies, counters, closing
  <2> QED
    BY <1>2, <2>1, <2>2, <2>3, <2>4, <2>5, Zenon DEF Next, OwnerStep
<1> QED
  BY <1>1, <1>2, PTL DEF Spec

(***************************************************************************)
(* The pool and its counters stay within their types.                      *)
(***************************************************************************)
THEOREM PoolTypes == Spec => []TypeOK
<1>1. PoolInv => TypeOK
  BY Zenon DEF PoolInv
<1> QED
  BY <1>1, PoolInvariance, PTL

(***************************************************************************)
(* m_worker_count and m_active_worker_count are exact for any number of    *)
(* threads, whatever is resized, thrown or shut down.                      *)
(***************************************************************************)
THEOREM PoolCounts == Spec => []CountersExact
<1>1. PoolInv => CountersExact
  BY Zenon DEF PoolInv, Counts, CountersExact, InStates, WorkersIn, Live, Active
<1> QED
  BY <1>1, PoolInvariance, PTL

(***************************************************************************)
(* No task is left in the queue while a worker sleeps and none is on its   *)
(* way, for any number of threads and tasks and every policy.              *)
(***************************************************************************)
THEOREM PoolAttended == Spec => []NoneStranded
<1>1. PoolInv => NoneStranded
  BY Zenon DEF PoolInv, Attended, NoneStranded, InStates, WorkersIn, Coming
<1> QED
  BY <1>1, PoolInvariance, PTL

-----------------------------------------------------------------------------
(***************************************************************************)
(* push() adds one task to those in the queue, and a new one only once.    *)
(***************************************************************************)
LEMMA PushContents ==
    ASSUME NEW o \in Orders, NEW q \in Seq(Tasks), NEW t \in Tasks
    PROVE  /\ Contents(Pushed(o, q, t)) = Contents(q) \union {t}
           /\ Distinct(q) /\ t \notin Contents(q) => Distinct(Pushed(o, q, t))
<1>1. /\ Len(q) \in Nat /\ DOMAIN q = 1..Len(q)
      /\ \A i \in 1..Len(q) : q[i] \in Contents(q)
  BY DEF Contents
<1>2. CASE o # "lifo"
  <2> DEFINE r == Append(q, t)
  <2>1. /\ DOMAIN r = 1..(Len(q) + 1) /\ r[Len(q) + 1] = t
        /\ \A i \in 1..Len(q) : r[i] = q[i]
    OBVIOUS
  <2>2. Pushed(o, q, t) = r
    BY <1>2, Zenon DEF Pushed, Orders, FifoPush, PrioPush
  <2> HIDE DEF r
  <2>3. Contents(r) = Contents(q) \union {t}
    BY <1>1, <2>1 DEF Contents
  <2>4. Distinct(q) /\ t \notin Contents(q) => Distinct(r)
    BY <1>1, <2>1 DEF Distinct
  <2> QED
    BY <2>2, <2>3, <2>4, Zenon
<1>3. CASE o = "lifo"
  <2> DEFINE r == <<t>> \o q
  <2>1. /\ DOMAIN r = 1..(Len(q) + 1) /\ r[1] = t
        /\ \A i \in 1..Len(q) : r[i + 1] = q[i]
    <3>1. <<t>> \in Seq(Tasks) /\ Len(<<t>>) = 1 /\ <<t>>[1] = t
      OBVIOUS
    <3>2. /\ r \in Seq(Tasks) /\ Len(r) = Len(<<t>>) + Len(q)
          /\ \A i \in 1..Len(<<t>>) + Len(q) :
                 r[i] = IF i <= Len(<<t>>) THEN <<t>>[i] ELSE q[i - Len(<<t>>)]
      BY <3>1, ConcatProperties, Zenon
    <3> HIDE DEF r
    <3> QED
      BY <1>1, <3>1, <3>2
  <2>2. Pushed(o, q, t) = r
    BY <1>3, Zenon DEF Pushed, LifoPush
  <2> HIDE DEF r
  <2>3. \A i \in DOMAIN r : i = 1 \/ \E j \in 1..Len(q) : i = j + 1
    <3> SUFFICES ASSUME NEW i \in 1..(Len(q) + 1), i # 1 PROVE \E j \in 1..Len(q) : i = j + 1
      BY <2>1, Zenon
    <3>1. i - 1 \in 1..Len(q) /\ i = (i - 1) + 1
      BY <1>1
    <3> QED
      BY <3>1, Zenon
  <2>4. 1 \in DOMAIN r /\ \A j \in 1..Len(q) : j + 1 \in DOMAIN r
    BY <1>1, <2>1
  <2>5. ASSUME NEW u PROVE u \in Contents(r) <=> u \in Contents(q) \union {t}
    <3>1. ASSUME NEW i \in DOMAIN r, u = r[i] PROVE u \in Contents(q) \union {t}
      BY <1>1, <2>1, <2>3, <3>1, Zenon
    <3>2. ASSUME NEW j \in 1..Len(q), u = q[j] PROVE \E i \in DOMAIN r : u = r[i]
      BY <2>1, <2>4, <3>2, Zenon
    <3>3. u = t => \E i \in DOMAIN r : u = r[i]
      BY <2>1, <2>4, Zenon
    <3> QED
      BY <1>1, <3>1, <3>2, <3>3, Zenon DEF Contents
  <2>6. ASSUME Distinct(q), t \notin Contents(q), NEW i \in DOMAIN r, NEW j \in DOMAIN r, r[i] = r[j]
        PROVE  i = j
    <3>1. ASSUME NEW k \in DOMAIN r, k # 1 PROVE r[k] # t
      BY <1>1, <2>1, <2>3, <2>6, <3>1, Zenon
    <3>2. CASE i = 1 \/ j = 1
      BY <2>1, <2>6, <3>1, <3>2, Zenon
    <3>3. CASE i # 1 /\ j # 1
      <4>1. PICK k \in 1..Len(q), l \in 1..Len(q) : i = k + 1 /\ j = l + 1
        BY <2>3, <3>3, Zenon
      <4>2. q[k] = q[l]
        BY <2>1, <2>6, <4>1, Zenon
      <4> QED
        BY <1>1, <2>6, <4>1, <4>2, Zenon DEF Distinct
    <3> QED
      BY <3>2, <3>3, Zenon
  <2> QED
    BY <2>2, <2>5, <2>6, Zenon DEF Distinct
<1> QED
  BY <1>2, <1>3, Zenon

(***************************************************************************)
(* pop() leaves the other tasks, each once.                                *)
(***************************************************************************)
LEMMA PopContents ==
    ASSUME NEW o, NEW q \in Seq(Tasks), NEW i \in Tops(o, q), Distinct(q)
    PROVE  /\ q[i] \in Contents(q) /\ Distinct(Popped(q, i))
           /\ Contents(Popped(q, i)) = Contents(q) \ {q[i]}
<1>1. /\ i \in 1..Len(q) /\ Len(q) \in Nat /\ DOMAIN q = 1..Len(q)
  BY DEF Tops, PrioTop, FrontTop
<1>2. \A j \in 1..Len(q) : q[j] \in Tasks
  BY ElementOfSeq, Zenon
<1> DEFINE a == SubSeq(q, 1, i - 1)
           b == SubSeq(q, i + 1, Len(q))
           r == Popped(q, i)
<1>3. a \in Seq(Tasks) /\ Len(a) = i - 1 /\ \A j \in 1..(i - 1) : a[j] = q[j]
  BY <1>1
<1>4. b \in Seq(Tasks) /\ Len(b) = Len(q) - i /\ \A j \in 1..(Len(q) - i) : b[j] = q[i + j]
  <2>1. i + 1 \in Int /\ Len(q) \in Int /\ \A j \in (i + 1)..Len(q) : q[j] \in Tasks
    BY <1>1, <1>2
  <2>2. b \in Seq(Tasks) /\ Len(b) = IF i + 1 <= Len(q) THEN Len(q) - (i + 1) + 1 ELSE 0
    BY <2>1, SubSeqProperties, Zenon
  <2>3. \A j \in 1..(Len(q) - i) : b[j] = q[i + j]
    <3> SUFFICES ASSUME NEW j \in 1..(Len(q) - i) PROVE b[j] = q[i + j]
      BY Zenon
    <3>1. b[j] = q[(i + 1) + j - 1]
      BY <1>1
    <3> QED
      BY <1>1, <3>1
  <2>4. Len(b) = Len(q) - i
    <3>1. i \in Nat /\ Len(q) \in Nat /\ i <= Len(q)
      BY <1>1
    <3>2. Len(b) = IF i + 1 <= Len(q) THEN Len(q) - (i + 1) + 1 ELSE 0
      BY <2>2, Zenon
    <3> HIDE DEF b
    <3> QED
      BY <3>1, <3>2
  <2> QED
    BY <2>2, <2>3, <2>4, Zenon
<1>5. /\ r \in Seq(Tasks) /\ Len(r) = Len(a) + Len(b)
      /\ \A j \in 1..Len(a) + Len(b) : r[j] = IF j <= Len(a) THEN a[j] ELSE b[j - Len(a)]
  BY <1>3, <1>4, ConcatProperties, Zenon DEF Popped
<1> HIDE DEF a, b, r
<1>6. /\ DOMAIN r = 1..(Len(q) - 1)
      /\ \A j \in 1..(Len(q) - 1) : r[j] = IF j < i THEN q[j] ELSE q[j + 1]
  <2>1. Len(a) + Len(b) = Len(q) - 1 /\ DOMAIN r = 1..Len(r)
    BY <1>1, <1>3, <1>4, <1>5
  <2>2. ASSUME NEW j \in 1..(Len(q) - 1) PROVE r[j] = IF j < i THEN q[j] ELSE q[j + 1]
    <3>1. r[j] = IF j <= i - 1 THEN a[j] ELSE b[j - (i - 1)]
      BY <1>3, <1>5, <2>1, Zenon
    <3>2. CASE j < i
      <4>1. j <= i - 1 /\ j \in 1..(i - 1)
        BY <1>1, <3>2
      <4> QED
        BY <1>3, <3>1, <3>2, <4>1, Zenon
    <3>3. CASE ~ (j < i)
      <4>1. ~ (j <= i - 1) /\ j - (i - 1) \in 1..(Len(q) - i) /\ i + (j - (i - 1)) = j + 1
        BY <1>1, <3>3
      <4>2. b[j - (i - 1)] = q[i + (j - (i - 1))]
        BY <1>4, <4>1, Zenon
      <4> QED
        BY <3>1, <3>3, <4>1, <4>2, Zenon
    <3> QED
      BY <3>2, <3>3, Zenon
  <2> QED
    BY <1>5, <2>1, <2>2, Zenon
<1>7. ASSUME NEW j \in DOMAIN r, NEW k \in DOMAIN r, r[j] = r[k] PROVE j = k
  <2> DEFINE at(x) == IF x < i THEN x ELSE x + 1
  <2>1. at(j) \in DOMAIN q /\ at(k) \in DOMAIN q /\ q[at(j)] = q[at(k)]
    BY <1>1, <1>6, <1>7
  <2>2. at(j) = at(k)
    BY <2>1, Zenon DEF Distinct
  <2> QED
    BY <1>1, <1>6, <2>2
<1>8. ASSUME NEW t PROVE t \in Contents(r) <=> t \in Contents(q) /\ t # q[i]
  <2>1. ASSUME NEW j \in DOMAIN r, r[j] = t PROVE t \in Contents(q) /\ t # q[i]
    <3>1. PICK k \in DOMAIN q : k # i /\ q[k] = t
      BY <1>1, <1>6, <2>1
    <3> QED
      BY <1>1, <3>1, Zenon DEF Contents, Distinct
  <2>2. ASSUME NEW k \in DOMAIN q, q[k] = t, k # i PROVE t \in Contents(r)
    <3>1. \E j \in DOMAIN r : r[j] = t
      <4>1. CASE k < i
        BY <1>1, <1>6, <2>2, <4>1
      <4>2. CASE k > i
        <5>1. k - 1 \in DOMAIN r /\ r[k - 1] = t
          BY <1>1, <1>6, <2>2, <4>2
        <5> QED
          BY <5>1, Zenon
      <4> QED
        BY <1>1, <2>2, <4>1, <4>2
    <3> QED
      BY <3>1, Zenon DEF Contents
  <2> QED
    BY <2>1, <2>2, Zenon DEF Contents
<1> QED
  BY <1>1, <1>7, <1>8, Zenon DEF r, Contents, Distinct


(***************************************************************************)
(* The definitions of TaskPool that are not its state are those of the     *)
(* pool.                                                                   *)
(***************************************************************************)
LEMMA SamePolicy ==
    /\ Promise!NoLimit = NoLimit
    /\ \A q : Promise!Contents(q) = Contents(q)
    /\ \A o, q, t : Promise!Pushed(o, q, t) = Pushed(o, q, t)
    /\ \A o, q : Promise!Tops(o, q) = Tops(o, q)
    /\ \A q, i : Promise!Popped(q, i) = Popped(q, i)
<1>1. Promise!NoLimit = NoLimit /\ \A q : Promise!Contents(q) = Contents(q)
  BY Zenon DEF NoLimit, Promise!NoLimit, Contents, Promise!Contents
<1>2. \A o, q, t : Promise!Pushed(o, q, t) = Pushed(o, q, t)
  BY Zenon DEF Pushed, Promise!Pushed, FifoPush, Promise!FifoPush, LifoPush, Promise!LifoPush,
               PrioPush, Promise!PrioPush
<1>3. \A o, q : Promise!Tops(o, q) = Tops(o, q)
  BY Zenon DEF Tops, Promise!Tops, PrioTop, Promise!PrioTop, FrontTop, Promise!FrontTop
<1>4. \A q, i : Promise!Popped(q, i) = Popped(q, i)
  BY Zenon DEF Popped, Promise!Popped
<1> QED
  BY <1>1, <1>2, <1>3, <1>4, Zenon

\* Nobody starts or ends a task, and no caller begins or stops waiting.
SameRunners ==
    /\ task' = task
    /\ \A w \in Workers : worker'[w] = "run" <=> worker[w] = "run"
SameCallers ==
    limit' = limit /\ \A c \in Callers : idle'[c] = "out" <=> idle[c] = "out"

(***************************************************************************)
(* What is executed while nobody starts or ends a task.                    *)
(***************************************************************************)
LEMMA SameExecuting ==
    ASSUME SameRunners
    PROVE  WorkersIn({"run"})' = WorkersIn({"run"}) /\ Executing' = Executing
<1>1. WorkersIn({"run"})' = WorkersIn({"run"})
  BY Zenon DEF SameRunners, WorkersIn
<1> QED
  BY <1>1, Zenon DEF SameRunners, Executing

(***************************************************************************)
(* Steps between workers, clients and owner that a user does not see.      *)
(***************************************************************************)
LEMMA UnseenStep ==
    ASSUME PoolInv, Once, SameRunners, SameCallers, UNCHANGED <<order, queue, fresh, over>>
    PROVE  Once' /\ UNCHANGED <<order, queue, Executing, over, Cleared, limit>>
<1>1. /\ WorkersIn({"run"})' = WorkersIn({"run"}) /\ Executing' = Executing
      /\ task' = task /\ limit' = limit /\ Contents(queue)' = Contents(queue)
  BY SameExecuting, Zenon DEF SameRunners, SameCallers
<1>2. Cleared' = Cleared
  BY <1>1, Zenon DEF Cleared
<1>3. Once'
  BY <1>1, Zenon DEF Once, SameCallers
<1> QED
  BY <1>1, <1>2, <1>3, Zenon

(***************************************************************************)
(* schedule() submits a task that was not submitted before.                *)
(***************************************************************************)
LEMMA ScheduleSubmits ==
    ASSUME PoolInv, Once, NEW t \in Tasks, Schedule(t)
    PROVE  Once' /\ Promise!Submit(t)
<1>1. /\ order \in Orders /\ queue \in Seq(Tasks) /\ worker \in [Workers -> WorkerStates]
      /\ fresh \subseteq Tasks
  BY Zenon DEF PoolInv, TypeOK
<1>2. /\ t \in fresh /\ queue' = Pushed(order, queue, t) /\ fresh' = fresh \ {t} /\ order' = order
      /\ task' = task /\ idle' = idle /\ limit' = limit /\ over' = over
  BY Zenon DEF Schedule, policies
<1>3. SameRunners
  <2>1. CASE UNCHANGED worker
    BY <1>2, <2>1, Zenon DEF SameRunners
  <2>2. ASSUME NEW w \in WorkersIn({"asleep"}), worker' = [worker EXCEPT ![w] = "woken"]
        PROVE  SameRunners
    <3>1. w \in Workers /\ worker[w] = "asleep"
      BY <2>2, Zenon DEF WorkersIn
    <3> QED
      BY <1>1, <1>2, <2>2, <3>1, Zenon DEF SameRunners
  <2> QED
    BY <2>1, <2>2, Zenon DEF Schedule, WakeOneWorker
<1>4. WorkersIn({"run"})' = WorkersIn({"run"}) /\ Executing' = Executing
  BY <1>3, SameExecuting, Zenon
<1>5. t \notin Contents(queue) /\ t \notin over /\ t \notin Executing /\ t \notin Cleared
  BY <1>2, Zenon DEF Once, Cleared
<1>6. Contents(queue)' = Contents(queue) \union {t} /\ Distinct(queue)'
  <2>1. Distinct(queue)
    BY Zenon DEF Once
  <2>2. Contents(queue') = Contents(queue) \union {t} /\ Distinct(queue')
    BY <1>1, <1>2, <1>5, <2>1, PushContents, Zenon
  <2> QED
    BY <2>2, Zenon DEF Contents, Distinct
<1>7. Cleared' = Cleared
  BY <1>2, <1>4, <1>6, Zenon DEF Cleared
<1>8. Once'
  <2>1. /\ (fresh \ {t}) \cap over = {}
        /\ ((fresh \ {t}) \union over) \cap (Contents(queue) \union {t}) = {}
        /\ ((fresh \ {t}) \union over \union (Contents(queue) \union {t})) \cap Executing = {}
    BY <1>5, Zenon DEF Once
  <2>2. /\ \A v, w \in WorkersIn({"run"}) : task[v] = task[w] => v = w
        /\ \A c \in Callers : idle[c] = "out" <=> limit[c] = NoLimit
    BY Zenon DEF Once
  <2> QED
    BY <1>2, <1>4, <1>6, <2>1, <2>2, Zenon DEF Once
<1> QED
  BY <1>2, <1>4, <1>5, <1>7, <1>8, SamePolicy, Zenon DEF Promise!Submit

(***************************************************************************)
(* clear(), of a user or of the shutdown policy, drops what is pending.    *)
(***************************************************************************)
LEMMA ClearDrops ==
    ASSUME PoolInv, Once, queue' = <<>>, SameRunners, SameCallers, UNCHANGED <<order, fresh, over>>
    PROVE  Once' /\ Promise!Clear
<1>1. /\ WorkersIn({"run"})' = WorkersIn({"run"}) /\ Executing' = Executing /\ task' = task
      /\ limit' = limit
  BY SameExecuting, Zenon DEF SameRunners, SameCallers
<1>2. Contents(queue)' = {} /\ Distinct(queue)'
  <2>1. DOMAIN <<>> = {}
    BY SMT
  <2> QED
    BY <2>1, Zenon DEF Contents, Distinct
<1>3. Contents(queue) \subseteq Tasks
  <2>1. queue \in Seq(Tasks)
    BY Zenon DEF PoolInv, TypeOK
  <2>2. \A i \in DOMAIN queue : queue[i] \in Tasks
    BY <2>1
  <2> QED
    BY <2>2, Zenon DEF Contents
<1>4. Cleared' = Cleared \union Contents(queue)
  BY <1>1, <1>2, <1>3, Zenon DEF Cleared, Once
<1>5. Once'
  BY <1>1, <1>2, Zenon DEF Once, SameCallers
<1> QED
  BY <1>1, <1>4, <1>5, SamePolicy, Zenon DEF Promise!Clear

(***************************************************************************)
(* A worker starts the task that the policy puts first.                    *)
(***************************************************************************)
LEMMA TakeStarts ==
    ASSUME PoolInv, Once, NEW w \in Workers, worker[w] # "run", NEW i \in Tops(order, queue),
           worker' = [worker EXCEPT ![w] = "run"], task' = [task EXCEPT ![w] = queue[i]],
           queue' = Popped(queue, i), UNCHANGED <<order, idle, limit, fresh, over>>
    PROVE  Once' /\ Promise!Start
<1>1. /\ queue \in Seq(Tasks) /\ worker \in [Workers -> WorkerStates]
      /\ task \in [Workers -> Tasks \union {NoTask}] /\ Distinct(queue)
  BY Zenon DEF PoolInv, TypeOK, Once
<1>2. /\ queue[i] \in Contents(queue) /\ Distinct(queue')
      /\ Contents(queue') = Contents(queue) \ {queue[i]}
  BY <1>1, PopContents, Zenon
<1>3. \A v \in Workers : /\ worker'[v] = IF v = w THEN "run" ELSE worker[v]
                         /\ task'[v] = IF v = w THEN queue[i] ELSE task[v]
  BY <1>1, Zenon
<1>4. WorkersIn({"run"})' = WorkersIn({"run"}) \union {w} /\ w \notin WorkersIn({"run"})
  BY <1>3, Zenon DEF WorkersIn
<1>5. WorkersIn({"run"}) \subseteq Workers
  BY Zenon DEF WorkersIn
<1>6. task'[w] = queue[i] /\ \A v \in WorkersIn({"run"}) : task'[v] = task[v]
  BY <1>3, <1>4, <1>5, Zenon
<1>7. Executing' = Executing \union {queue[i]}
  BY <1>4, <1>6, Zenon DEF Executing
<1>8. queue[i] \notin Executing /\ queue[i] \notin fresh /\ queue[i] \notin over
  BY <1>2, Zenon DEF Once
<1>9. \A u, v \in WorkersIn({"run"})' : task'[u] = task'[v] => u = v
  <2>1. \A v \in WorkersIn({"run"}) : task[v] # queue[i]
    BY <1>8, Zenon DEF Executing
  <2> QED
    BY <1>4, <1>6, <2>1, Zenon DEF Once
<1>10. Contents(queue)' = Contents(queue) \ {queue[i]} /\ Distinct(queue)'
  BY <1>2, Zenon DEF Contents, Distinct
<1>11. Cleared' = Cleared
  BY <1>2, <1>7, <1>10, Zenon DEF Cleared
<1>12. Once'
  <2>1. fresh \cap over = {} /\ (fresh \union over) \cap (Contents(queue) \ {queue[i]}) = {}
    BY Zenon DEF Once
  <2>2. (fresh \union over \union (Contents(queue) \ {queue[i]})) \cap (Executing \union {queue[i]}) = {}
    BY <1>8, Zenon DEF Once
  <2>3. \A c \in Callers : idle[c] = "out" <=> limit[c] = NoLimit
    BY Zenon DEF Once
  <2> QED
    BY <1>7, <1>9, <1>10, <2>1, <2>2, <2>3, Zenon DEF Once
<1> QED
  BY <1>7, <1>11, <1>12, SamePolicy, Zenon DEF Promise!Start

(***************************************************************************)
(* A task that returns or throws has ended, once.                          *)
(***************************************************************************)
LEMMA EndEnds ==
    ASSUME PoolInv, Once, NEW w \in Workers, NEW x \in {"fetch", "dying"}, EndTask(w, x)
    PROVE  Once' /\ task[w] \in Tasks /\ Promise!End(task[w])
<1>1. /\ worker \in [Workers -> WorkerStates] /\ task \in [Workers -> Tasks \union {NoTask}]
      /\ worker[w] = "run" /\ task[w] \in Tasks
  BY Zenon DEF PoolInv, TypeOK, Running, EndTask
<1>2. /\ worker' = [worker EXCEPT ![w] = x] /\ task' = [task EXCEPT ![w] = NoTask]
      /\ over' = over \union {task[w]}
      /\ order' = order /\ queue' = queue /\ idle' = idle /\ limit' = limit /\ fresh' = fresh
  BY Zenon DEF EndTask, policies
<1>3. \A v \in Workers : v # w => worker'[v] = worker[v] /\ task'[v] = task[v]
  BY <1>1, <1>2, Zenon
<1>4. worker'[w] # "run"
  BY <1>1, <1>2, Zenon
<1>5. WorkersIn({"run"})' = WorkersIn({"run"}) \ {w} /\ w \in WorkersIn({"run"})
  BY <1>1, <1>3, <1>4, Zenon DEF WorkersIn
<1>6. \A v \in WorkersIn({"run"})' : task'[v] = task[v] /\ v \in WorkersIn({"run"}) /\ v # w
  BY <1>3, <1>5, Zenon DEF WorkersIn
<1>7. \A v \in WorkersIn({"run"}) : task[v] = task[w] => v = w
  BY <1>5, Zenon DEF Once
<1>8. Executing' = Executing \ {task[w]} /\ task[w] \in Executing
  BY <1>5, <1>6, <1>7, Zenon DEF Executing
<1>9. \A u, v \in WorkersIn({"run"})' : task'[u] = task'[v] => u = v
  BY <1>6, Zenon DEF Once
<1>10. Contents(queue)' = Contents(queue) /\ Distinct(queue)'
  BY <1>2, Zenon DEF Once
<1>11. task[w] \notin fresh /\ task[w] \notin Contents(queue)
  BY <1>8, Zenon DEF Once
<1>12. Cleared' = Cleared
  BY <1>2, <1>8, <1>10, Zenon DEF Cleared
<1>13. Once'
  <2>1. /\ fresh \cap (over \union {task[w]}) = {}
        /\ (fresh \union (over \union {task[w]})) \cap Contents(queue) = {}
    BY <1>11, Zenon DEF Once
  <2>2. (fresh \union (over \union {task[w]}) \union Contents(queue)) \cap (Executing \ {task[w]}) = {}
    BY Zenon DEF Once
  <2>3. \A c \in Callers : idle[c] = "out" <=> limit[c] = NoLimit
    BY Zenon DEF Once
  <2> QED
    BY <1>2, <1>8, <1>9, <1>10, <2>1, <2>2, <2>3, Zenon DEF Once
<1> QED
  BY <1>1, <1>2, <1>8, <1>12, <1>13, Zenon DEF Promise!End

(***************************************************************************)
(* When wait() may return, no more tasks than its threshold are pending or *)
(* running: a task that runs has an active worker.                         *)
(***************************************************************************)
LEMMA MayReturnMeans ==
    ASSUME PoolInv, NEW n \in Nat, MayReturn(n)
    PROVE  Len(queue) + Cardinality(Executing) <= n
<1> DEFINE S == WorkersIn({"run"})
           f == [w \in S |-> task[w]]
<1>1. /\ IsFiniteSet(S) /\ Cardinality(S) \in Nat
      /\ IsFiniteSet(InStates(worker, Active)) /\ Cardinality(InStates(worker, Active)) \in Nat
  BY WorkersFinite, Zenon DEF WorkersIn, InStates
<1>2. S \subseteq InStates(worker, Active)
  BY Zenon DEF WorkersIn, InStates, Active
<1>3. Cardinality(S) <= Cardinality(InStates(worker, Active))
  BY <1>1, <1>2, FS_Subset, Zenon
<1>4. f \in Surjection(S, Executing)
  BY Zenon DEF Surjection, Executing
<1>5. IsFiniteSet(Executing) /\ Cardinality(Executing) <= Cardinality(S)
  BY <1>1, <1>4, FS_Surjection, Zenon
<1>6. Cardinality(Executing) \in Nat
  BY <1>5, FS_CardinalityType, Zenon
<1>7. active = Cardinality(InStates(worker, Active)) /\ queue \in Seq(Tasks)
  BY Zenon DEF PoolInv, Counts, TypeOK
<1>8. Len(queue) \in Nat /\ (queue = <<>> => Len(queue) = 0)
  BY <1>7
<1>9. active + Len(queue) <= n
  <2>1. CASE n = 0
    BY <1>1, <1>7, <1>8, <2>1 DEF MayReturn
  <2>2. CASE n # 0
    BY <2>2, Zenon DEF MayReturn
  <2> QED
    BY <2>1, <2>2, Zenon
<1> HIDE DEF S
<1> QED
  BY <1>1, <1>3, <1>5, <1>6, <1>7, <1>8, <1>9

(***************************************************************************)
(* Callers begin to wait, return when they may, or give up in time.        *)
(***************************************************************************)
LEMMA CallersWait ==
    ASSUME PoolInv, Once, NEW c \in Callers,
           \/ Retest(c) \/ TimeOut(c)
           \/ \E n \in Limits, timed \in BOOLEAN : BeginWait(c, n, timed)
    PROVE  Once' /\ [Promise!Next]_<<order, queue, Executing, over, Cleared, limit>>
<1>1. /\ idle \in [Clients -> IdleStates] /\ c \in Clients
      /\ limit \in [Callers -> [most : Limits, timed : BOOLEAN] \union {NoLimit}]
  BY Zenon DEF PoolInv, TypeOK, Clients
<1>2. /\ order' = order /\ queue' = queue /\ worker' = worker /\ task' = task
      /\ fresh' = fresh /\ over' = over
  BY Zenon DEF Retest, TimeOut, BeginWait, policies
<1>3. SameRunners
  BY <1>2, Zenon DEF SameRunners
<1>4. /\ WorkersIn({"run"})' = WorkersIn({"run"}) /\ Executing' = Executing
      /\ Contents(queue)' = Contents(queue)
  BY <1>2, <1>3, SameExecuting, Zenon
<1>5. Cleared' = Cleared
  BY <1>2, <1>4, Zenon DEF Cleared
<1>6. ASSUME \A d \in Callers : idle'[d] = "out" <=> limit'[d] = NoLimit
      PROVE  Once'
  BY <1>2, <1>4, <1>6, Zenon DEF Once
<1>7. idle[c] = "out" <=> limit[c] = NoLimit
  BY Zenon DEF Once
<1>8. Limits \subseteq Nat /\ "owner" \notin Callers
  BY PoolAssumptions, Zenon
<1>9. CASE idle' = [idle EXCEPT ![c] = "asleep"] /\ limit' = limit /\ idle[c] = "woken"
  <2>1. SameCallers
    BY <1>1, <1>9, Zenon DEF SameCallers, Clients
  <2> QED
    BY <1>2, <1>3, <2>1, UnseenStep, Zenon
<1>10. ASSUME idle' = [idle EXCEPT ![c] = "out"], limit' = [limit EXCEPT ![c] = NoLimit],
              limit[c] # NoLimit, limit[c].timed \/ MayReturn(limit[c].most)
       PROVE  Once' /\ Promise!Next
  <2>1. Once'
    <3>1. \A d \in Callers : idle'[d] = "out" <=> limit'[d] = NoLimit
      BY <1>1, <1>10, Zenon DEF Once, Clients
    <3> QED
      BY <1>6, <3>1, Zenon
  <2>2. Promise!Leave(c)
    BY <1>2, <1>4, <1>5, <1>10, SamePolicy, Zenon DEF Promise!Leave
  <2>3. MayReturn(limit[c].most) => Promise!Return(c)
    <3>1. limit[c] \in [most : Limits, timed : BOOLEAN]
      BY <1>1, <1>10, Zenon
    <3>2. limit[c].most \in Nat
      BY <1>8, <3>1, Zenon
    <3>3. MayReturn(limit[c].most) => Len(queue) + Cardinality(Executing) <= limit[c].most
      BY <3>2, MayReturnMeans, Zenon
    <3>4. Promise!Cardinality(Executing) = Cardinality(Executing)
      BY Zenon DEF Cardinality, Promise!Cardinality
    <3> QED
      BY <2>2, <3>3, <3>4, Zenon DEF Promise!Return
  <2>4. limit[c].timed => Promise!GiveUp(c)
    BY <2>2, Zenon DEF Promise!GiveUp
  <2> QED
    BY <1>10, <2>1, <2>3, <2>4, Zenon DEF Promise!Next
<1>11. CASE Retest(c)
  <2>1. idle[c] = "woken" /\ limit[c] # NoLimit
    BY <1>7, <1>11, Zenon DEF Retest
  <2>2. CASE MayReturn(limit[c].most)
    BY <1>10, <1>11, <2>1, <2>2, Zenon DEF Retest
  <2>3. CASE ~ MayReturn(limit[c].most)
    BY <1>9, <1>11, <2>1, <2>3, Zenon DEF Retest
  <2> QED
    BY <2>2, <2>3, Zenon
<1>12. CASE TimeOut(c)
  BY <1>7, <1>10, <1>12, Zenon DEF TimeOut
<1>13. ASSUME NEW n \in Limits, NEW timed \in BOOLEAN, BeginWait(c, n, timed)
       PROVE  Once' /\ Promise!Next
  <2>1. /\ idle[c] = "out" /\ idle' = [idle EXCEPT ![c] = "asleep"]
        /\ limit' = [limit EXCEPT ![c] = [most |-> n, timed |-> timed]]
    BY <1>13, Zenon DEF BeginWait
  <2>2. [most |-> n, timed |-> timed] # NoLimit
    <3>1. n \in Nat
      BY <1>8, Zenon
    <3>2. n # -1
      BY <3>1
    <3>3. [most |-> n, timed |-> timed].most = n /\ NoLimit.most = -1
      BY Zenon DEF NoLimit
    <3> QED
      BY <3>2, <3>3, Zenon
  <2>3. Once'
    <3>1. \A d \in Callers : idle'[d] = "out" <=> limit'[d] = NoLimit
      BY <1>1, <2>1, <2>2, Zenon DEF Once, Clients
    <3> QED
      BY <1>6, <3>1, Zenon
  <2>4. Promise!Await(c, n, timed)
    BY <1>2, <1>4, <1>5, <1>7, <2>1, SamePolicy, Zenon DEF Promise!Await
  <2> QED
    BY <2>3, <2>4, Zenon DEF Promise!Next
<1> QED
  BY <1>11, <1>12, <1>13, Zenon

(***************************************************************************)
(* A step of a worker starts a task, ends one, or is not seen.             *)
(***************************************************************************)
LEMMA WorkersServe ==
    ASSUME PoolInv, Once, NEW w \in Workers, WorkerStep(w) \/ Throw(w) \/ Spurious(w)
    PROVE  Once' /\ [Promise!Next]_<<order, queue, Executing, over, Cleared, limit>>
<1>1. worker \in [Workers -> WorkerStates] /\ idle \in [Clients -> IdleStates]
  BY Zenon DEF PoolInv, TypeOK
<1>2. ASSUME UNCHANGED <<order, queue, fresh, over, task, limit>>, SameCallers,
             \A v \in Workers : worker'[v] = "run" <=> worker[v] = "run"
      PROVE  Once' /\ UNCHANGED <<order, queue, Executing, over, Cleared, limit>>
  <2>1. SameRunners
    BY <1>2, Zenon DEF SameRunners
  <2> QED
    BY <1>2, <2>1, UnseenStep, Zenon
<1>3. ASSUME NEW x, x # "run", worker[w] # "run", worker' = [worker EXCEPT ![w] = x]
      PROVE  \A v \in Workers : worker'[v] = "run" <=> worker[v] = "run"
  BY <1>1, <1>3, Zenon
<1>4. limit' = limit /\ (NotifyIdle \/ idle' = idle) => SameCallers
  BY <1>1, Zenon DEF SameCallers, NotifyIdle, Notified, Clients
<1>5. ASSUME NEW a0, FetchLoop(w, a0), worker[w] # "run", UNCHANGED <<order, limit, fresh, over>>
      PROVE  Once' /\ [Promise!Next]_<<order, queue, Executing, over, Cleared, limit>>
  <2>1. CASE \E i \in Tops(order, queue) :
               /\ worker' = [worker EXCEPT ![w] = "run"]
               /\ task' = [task EXCEPT ![w] = queue[i]]
               /\ queue' = Popped(queue, i)
               /\ active' = a0
               /\ UNCHANGED idle
    <3>1. Once' /\ Promise!Start
      BY <1>5, <2>1, TakeStarts, Zenon
    <3> QED
      BY <3>1, Zenon DEF Promise!Next
  <2>2. ASSUME NEW x \in {"leaving", "asleep"}, worker' = [worker EXCEPT ![w] = x],
               UNCHANGED <<queue, task>>, NotifyIdle \/ idle' = idle
        PROVE  Once' /\ UNCHANGED <<order, queue, Executing, over, Cleared, limit>>
    <3>1. x # "run"
      BY <2>2, Zenon
    <3> QED
      BY <1>2, <1>3, <1>4, <1>5, <2>2, <3>1, Zenon
  <2> QED
    BY <1>5, <2>1, <2>2, Zenon DEF FetchLoop
<1>6. CASE Fetch(w)
  <2>1. worker[w] # "run" /\ UNCHANGED <<order, limit, fresh, over>>
    BY <1>6, Zenon DEF Fetch, policies
  <2>2. CASE worker' = [worker EXCEPT ![w] = "leaving"] /\ UNCHANGED <<queue, active, task, idle>>
    <3>1. "leaving" # "run"
      BY Zenon
    <3> QED
      BY <1>2, <1>3, <1>4, <2>1, <2>2, <3>1, Zenon
  <2> QED
    BY <1>5, <1>6, <2>1, <2>2, Zenon DEF Fetch
<1>7. CASE Wake(w)
  <2>1. worker[w] # "run" /\ UNCHANGED <<order, limit, fresh, over>>
    BY <1>7, Zenon DEF Wake, policies
  <2> QED
    BY <1>5, <1>7, <2>1, Zenon DEF Wake
<1>8. CASE Execute(w) \/ Throw(w)
  <2>1. Once' /\ task[w] \in Tasks /\ Promise!End(task[w])
    BY <1>8, EndEnds, Zenon DEF Execute, Throw
  <2> QED
    BY <2>1, Zenon DEF Promise!Next
<1>9. CASE WorkerDestructed(w)
  <2>1. /\ worker[w] # "run" /\ "ended" # "run" /\ worker' = [worker EXCEPT ![w] = "ended"] /\ NotifyIdle
        /\ UNCHANGED <<order, queue, fresh, over, task, limit>>
    BY <1>9, Zenon DEF WorkerDestructed, policies
  <2> QED
    BY <1>2, <1>3, <1>4, <2>1, Zenon
<1>10. CASE Spurious(w)
  <2>1. /\ worker[w] # "run" /\ "woken" # "run" /\ worker' = [worker EXCEPT ![w] = "woken"] /\ idle' = idle
        /\ UNCHANGED <<order, queue, fresh, over, task, limit>>
    BY <1>10, Zenon DEF Spurious, policies
  <2> QED
    BY <1>2, <1>3, <1>4, <2>1, Zenon
<1>11. CASE ThreadEnds(w)
  <2>1. /\ worker[w] # "run" /\ "gone" # "run" /\ worker' = [worker EXCEPT ![w] = "gone"] /\ idle' = idle
        /\ UNCHANGED <<order, queue, fresh, over, task, limit>>
    BY <1>11, Zenon DEF ThreadEnds, policies
  <2> QED
    BY <1>2, <1>3, <1>4, <2>1, Zenon
<1>12. CASE WorkerDied(w)
  <2>1. /\ worker[w] = "dying" /\ NotifyIdle
        /\ UNCHANGED <<order, queue, fresh, over, task, limit>>
    BY <1>12, Zenon DEF WorkerDied, policies
  <2>2. CASE worker' = [worker EXCEPT ![w] = "ended"]
    <3>1. worker[w] # "run" /\ "ended" # "run"
      BY <2>1, Zenon
    <3> QED
      BY <1>2, <1>3, <1>4, <2>1, <2>2, <3>1, Zenon
  <2>3. CASE Grow([worker EXCEPT ![w] = "ended"], count - 1, active - 1)
    <3> DEFINE g == [worker EXCEPT ![w] = "ended"]
    <3>1. \A v \in Workers : g[v] = "run" <=> worker[v] = "run"
      BY <1>1, <2>1, Zenon
    <3> HIDE DEF g
    <3>2. \A v \in Workers : worker'[v] = "run" <=> worker[v] = "run"
      <4>1. Grow(g, count - 1, active - 1)
        BY <2>3, Zenon DEF g
      <4>2. PICK born : worker' = [v \in Workers |-> IF v \in born THEN "fetch" ELSE g[v]]
                        /\ \A v \in born : g[v] = "unborn"
        BY <4>1, Zenon DEF Grow
      <4> QED
        BY <3>1, <4>2, Zenon
    <3> QED
      BY <1>2, <1>4, <2>1, <3>2, Zenon
  <2> QED
    BY <1>12, <2>2, <2>3, Zenon DEF WorkerDied
<1> QED
  BY <1>6, <1>7, <1>8, <1>9, <1>10, <1>11, <1>12, Zenon DEF WorkerStep

(***************************************************************************)
(* resize() and the steps of the shutdown are not seen, but for its        *)
(* clear().                                                                *)
(***************************************************************************)
LEMMA OwnerUnseen ==
    ASSUME PoolInv, Once,
           \/ Clear \/ BeginShutdown \/ OwnerStep \/ \E n \in Sizes : Resize(n)
    PROVE  Once' /\ [Promise!Next]_<<order, queue, Executing, over, Cleared, limit>>
<1>1. /\ worker \in [Workers -> WorkerStates] /\ idle \in [Clients -> IdleStates]
      /\ "owner" \in Clients
  BY Zenon DEF PoolInv, TypeOK, Clients
<1>2. UNCHANGED <<order, fresh, over, task, limit>>
  BY SMTT(30) DEF Clear, BeginShutdown, OwnerStep, ShutdownClear, ShutdownWait, TerminateAllWorkers,
                  Drain, Join, Resize, policies
<1>3. SameCallers
  <2>1. "owner" \notin Callers
    BY PoolAssumptions, Zenon
  <2>2. \/ idle' = idle \/ idle' = [idle EXCEPT !["owner"] = "out"]
        \/ idle' = [idle EXCEPT !["owner"] = "asleep"]
    BY SMTT(30) DEF Clear, BeginShutdown, OwnerStep, ShutdownClear, ShutdownWait, TerminateAllWorkers,
                    Drain, Join, Resize, AfterDrainTest
  <2>3. \A c \in Callers : idle'[c] = idle[c]
    BY <1>1, <2>1, <2>2, Zenon DEF Clients
  <2> QED
    BY <1>2, <2>3, Zenon DEF SameCallers
<1>4. SameRunners
  <2>1. CASE worker' = worker
    BY <1>2, <2>1, Zenon DEF SameRunners
  <2>2. CASE worker' = [w \in Workers |-> Notified(worker[w])]
    BY <1>2, <2>2, Zenon DEF SameRunners, Notified
  <2>3. CASE Grow(worker, count, active)
    <3>1. PICK born : worker' = [v \in Workers |-> IF v \in born THEN "fetch" ELSE worker[v]]
                      /\ \A v \in born : worker[v] = "unborn"
      BY <2>3, Zenon DEF Grow
    <3> QED
      BY <1>2, <3>1, Zenon DEF SameRunners
  <2>4. CASE TerminateAllWorkers \/ \E n \in Sizes : Resize(n)
    BY <2>2, <2>3, <2>4, Zenon DEF TerminateAllWorkers, WakeAllWorkers, Resize, Shrink
  <2>5. CASE Clear \/ BeginShutdown \/ ShutdownClear \/ ShutdownWait \/ Drain \/ Join
    BY <2>1, <2>5, Zenon DEF Clear, BeginShutdown, ShutdownClear, ShutdownWait, Drain, Join
  <2> QED
    BY <2>4, <2>5, Zenon DEF OwnerStep
<1>5. CASE Clear \/ ShutdownClear
  <2>1. queue' = <<>>
    BY <1>5, Zenon DEF Clear, ShutdownClear
  <2>2. Once' /\ Promise!Clear
    BY <1>2, <1>3, <1>4, <2>1, ClearDrops, Zenon
  <2> QED
    BY <2>2, Zenon DEF Promise!Next
<1>6. CASE \/ BeginShutdown \/ ShutdownWait \/ TerminateAllWorkers \/ Drain \/ Join
           \/ \E n \in Sizes : Resize(n)
  <2>1. queue' = queue
    BY <1>6, Zenon DEF BeginShutdown, ShutdownWait, TerminateAllWorkers, Drain, Join, Resize
  <2> QED
    BY <1>2, <1>3, <1>4, <2>1, UnseenStep, Zenon
<1> QED
  BY <1>5, <1>6, Zenon DEF OwnerStep

(***************************************************************************)
(* The pool keeps the promise of TaskPool for any number of threads,       *)
(* tasks, callers and sizes and every policy: no task is lost, doubled or  *)
(* started out of order, and wait() returns only when what it promises     *)
(* holds.                                                                  *)
(***************************************************************************)
THEOREM PoolImplemented == Spec => ImplementsTaskPool
<1>1. ASSUME Init PROVE Once /\ Promise!Init
  <2>1. WorkersIn({"run"}) = {} /\ Executing = {}
    <3>1. \A w \in Workers : worker[w] # "run"
      BY <1>1, Zenon DEF Init
    <3> QED
      BY <3>1, Zenon DEF WorkersIn, Executing
  <2>2. Contents(queue) = {} /\ Distinct(queue)
    <3>1. queue = <<>> /\ DOMAIN <<>> = {}
      BY <1>1, SMT DEF Init
    <3> QED
      BY <3>1, Zenon DEF Contents, Distinct
  <2>3. Cleared = {} /\ over = {} /\ queue = <<>> /\ limit = [c \in Callers |-> NoLimit]
    BY <1>1, Zenon DEF Init, Cleared
  <2>4. \A c \in Callers : idle[c] = "out" /\ limit[c] = NoLimit
    BY <1>1, Zenon DEF Init, Clients
  <2>5. Once
    BY <2>1, <2>2, <2>3, <2>4, Zenon DEF Once
  <2>6. order \in Orders /\ Promise!Orders = Orders
    BY <1>1, PoolAssumptions, Zenon DEF Init, Orders, Promise!Orders
  <2> QED
    BY <2>1, <2>3, <2>5, <2>6, SamePolicy, Zenon DEF Promise!Init
<1>2. ASSUME PoolInv, Once, [Next]_vars
      PROVE  Once' /\ [Promise!Next]_<<order, queue, Executing, over, Cleared, limit>>
  <2>1. ASSUME NEW t \in Tasks, Schedule(t)
        PROVE  Once' /\ Promise!Next
    BY <1>2, <2>1, ScheduleSubmits, Zenon DEF Promise!Next
  <2>2. CASE UNCHANGED vars
    <3>1. SameRunners /\ SameCallers /\ UNCHANGED <<order, queue, fresh, over>>
      BY <2>2, Zenon DEF vars, policies, SameRunners, SameCallers
    <3> QED
      BY <1>2, <3>1, UnseenStep, Zenon
  <2>3. CASE Clear \/ BeginShutdown \/ OwnerStep \/ \E n \in Sizes : Resize(n)
    BY <1>2, <2>3, OwnerUnseen, Zenon
  <2>4. ASSUME NEW c \in Callers,
               \/ Retest(c) \/ TimeOut(c)
               \/ \E n \in Limits, timed \in BOOLEAN : BeginWait(c, n, timed)
        PROVE  Once' /\ [Promise!Next]_<<order, queue, Executing, over, Cleared, limit>>
    BY <1>2, <2>4, CallersWait, Zenon
  <2>5. ASSUME NEW w \in Workers, WorkerStep(w) \/ Throw(w) \/ Spurious(w)
        PROVE  Once' /\ [Promise!Next]_<<order, queue, Executing, over, Cleared, limit>>
    BY <1>2, <2>5, WorkersServe, Zenon
  <2> QED
    BY <1>2, <2>1, <2>2, <2>3, <2>4, <2>5, Zenon DEF Next
<1> QED
  BY <1>1, <1>2, PoolInvariance, PTL DEF Spec, ImplementsTaskPool, Promise!Spec, Promise!pool
===============================================================================
