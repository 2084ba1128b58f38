----------------------------- MODULE JournalProofs -----------------------------
(***************************************************************************)
(* Proofs about Journal: the key comparison, what a key finds, the         *)
(* invariant that the theorems rest on, and the steps of a call; then the  *)
(* steps of a recovery, and the theorems.                                  *)
(***************************************************************************)
EXTENDS Journal, WellFoundedInduction, FiniteSetTheorems, TLAPS

Inside == {"locked", "written", "refused", "failed", "dangling"}
Left == UNION {cursor[k] : k \in Shards}
Read == {recovered[n] : n \in DOMAIN recovered}

\* A message is in the database that its id selects, and no id is there twice.
Placed ==
    /\ \A k \in Shards : \A r \in tree[k] : r.id % Files = k
    /\ \A q, r \in Table : q.id = r.id => q = r

\* All ids that are compared fit the cast.
AllNear == \A i, j \in InUse : Near(i, j)

\* The lock is held from Lock to the end; what Write saw is still true at Commit.
Calls ==
    \A w \in Workers :
        /\ call[w] = None <=> txn[w] = "none"
        /\ txn[w] \in Inside <=> mutex = w
        /\ txn[w] = "written" => (call[w].kind = "put" <=> call[w].id \notin StoredIds)
        /\ txn[w] = "refused" => (call[w].kind = "put" <=> call[w].id \in StoredIds)
        /\ stage # "up" => call[w] = None

\* Recovery: nothing is read before it and nothing is left of it after it.
Phases ==
    /\ stage \in {"reading", "discarding"} => recovering
    /\ ~ recovering => old = {}
    /\ stage \in {"opening", "up"} => recovered = <<>> /\ done = {}
    /\ stage # "discarding" => transientList = {}

\* What is read is below what is left of the same database.
Cursors ==
    stage = "reading" =>
        /\ Read \union Left = StoredIds
        /\ \A k \in Shards : \A j \in cursor[k] : j % Files = k
        /\ \A i \in Read, j \in Left : i % Files = j % Files => i < j
        /\ \A k \in done : cursor[k] = {}
        /\ \A m, n \in DOMAIN recovered :
            m < n /\ recovered[m] % Files = recovered[n] % Files => recovered[m] < recovered[n]

\* Every transient message of an earlier run is on the list until it is deleted.
Discards ==
    /\ stage = "discarding" =>
        /\ StoredIds \subseteq Read
        /\ transientList \subseteq StoredIds
        /\ StoredIds \intersect old \subseteq transientList
    /\ stage = "up" => StoredIds \intersect old = {}

JournalInv == TypeOK /\ Placed /\ AllNear /\ Calls /\ Phases /\ Cursors /\ Discards

-----------------------------------------------------------------------------
(***************************************************************************)
(* A nonempty set of natural numbers has a least element.                  *)
(***************************************************************************)
LEMMA LeastOfSet ==
    ASSUME NEW T \in SUBSET Nat, T # {}
    PROVE  \E x \in T : \A y \in T : x <= y
<1>1. \E x \in T : \A y \in T : ~(<<y, x>> \in OpToRel(<, Nat))
  BY NatLessThanWellFounded, WFMin, Zenon
<1>2. PICK x \in T : \A y \in T : ~(<<y, x>> \in OpToRel(<, Nat))
  BY <1>1, Zenon
<1>3. \A y \in T : ~(y < x)
  BY <1>2, Zenon DEF OpToRel
<1> QED
  BY <1>3

(***************************************************************************)
(* bt_compare_func subtracts: for ids in use at the same time the cast to  *)
(* int loses nothing.                                                      *)
(***************************************************************************)
LEMMA CompareExact ==
    ASSUME NEW a \in Nat, NEW b \in Nat, Near(a, b)
    PROVE  Compare(a, b) = a - b
<1> USE JournalAssumptions DEF Near
<1> DEFINE m == (a - b) % (2 * HalfInt)
<1>1. CASE a >= b
  <2>1. m = a - b
    BY <1>1
  <2> QED
    BY <2>1, <1>1, Zenon DEF Compare, IntDiff
<1>2. CASE a < b
  <2>1. m = (a - b) + 2 * HalfInt
    BY <1>2
  <2> QED
    BY <2>1, <1>2 DEF Compare, IntDiff
<1> QED
  BY <1>1, <1>2

(***************************************************************************)
(* The database that an id selects is one of the journal's.                *)
(***************************************************************************)
LEMMA ShardOf ==
    ASSUME NEW i \in Nat
    PROVE  i % Files \in Shards
BY JournalAssumptions DEF Shards

(***************************************************************************)
(* The table is what the databases hold together, and an id is stored when *)
(* it is the id of a message of the table.                                 *)
(***************************************************************************)
LEMMA InTable ==
    ASSUME NEW r
    PROVE  r \in Table <=> \E k \in Shards : r \in tree[k]
BY Zenon DEF Table

\* An id is stored when a row has it.
LEMMA InStored ==
    ASSUME NEW i
    PROVE  i \in StoredIds <=> \E r \in Table : r.id = i
BY Zenon DEF StoredIds

(***************************************************************************)
(* A record of the table has an id and a size, and ids are natural.        *)
(***************************************************************************)
LEMMA TableTypes ==
    ASSUME TypeOK
    PROVE  /\ \A r \in Table : r \in Records /\ r.id \in Ids /\ r.size \in Nat
           /\ StoredIds \subseteq Ids /\ Ids \subseteq Nat /\ Transient \subseteq Ids
<1>1. \A r \in Table : r \in Records
  BY InTable, Zenon DEF TypeOK
<1> QED
  BY <1>1, JournalAssumptions, Zenon DEF Records, StoredIds

(***************************************************************************)
(* A key finds the message with that id and nothing else, if it fits the   *)
(* cast together with the ids that are stored.                             *)
(***************************************************************************)
LEMMA FindExact ==
    ASSUME TypeOK, Placed, NEW i \in Ids, \A j \in StoredIds : Near(i, j)
    PROVE  Find(i % Files, i) = {r \in Table : r.id = i}
<1>1. i \in Nat /\ i % Files \in Shards
  BY ShardOf, JournalAssumptions, Zenon
<1>2. \A r \in Table : r.id \in Nat /\ Near(r.id, i)
  BY TableTypes, InStored, JournalAssumptions, Zenon DEF Near
<1>3. \A r \in Table : Compare(r.id, i) = r.id - i
  BY <1>1, <1>2, CompareExact, Zenon
<1>4. \A r \in Table : Compare(r.id, i) = 0 <=> r.id = i
  BY <1>1, <1>2, <1>3
<1>5. \A r \in Table : r.id = i => r \in tree[i % Files]
  BY InTable, Zenon DEF Placed
<1>6. \A r \in tree[i % Files] : r \in Table
  BY <1>1, InTable, Zenon
<1> QED
  BY <1>4, <1>5, <1>6, Zenon DEF Find

(***************************************************************************)
(* A deletion takes the message with its id out of the table.              *)
(***************************************************************************)
LEMMA TableRemove ==
    ASSUME TypeOK, Placed, NEW i \in Ids, \A j \in StoredIds : Near(i, j),
           tree' = [tree EXCEPT ![i % Files] = @ \ Find(i % Files, i)]
    PROVE  /\ tree' \in [Shards -> SUBSET Records] /\ Placed'
           /\ Table' = {r \in Table : r.id # i}
           /\ StoredIds' = StoredIds \ {i}
<1> DEFINE k == i % Files
           F == Find(k, i)
<1>1. k \in Shards /\ i \in Nat
  BY ShardOf, JournalAssumptions, Zenon
<1>2. F = {r \in Table : r.id = i}
  BY FindExact, Zenon
<1>3. tree \in [Shards -> SUBSET Records]
  BY Zenon DEF TypeOK
<1> HIDE DEF F, k
<1>4. /\ tree' \in [Shards -> SUBSET Records]
      /\ \A s \in Shards : tree'[s] = IF s = k THEN tree[s] \ F ELSE tree[s]
  BY <1>1, <1>3, Zenon DEF F, k
<1>5. \A r : r \in Table' <=> \E s \in Shards : r \in tree'[s]
  BY Zenon DEF Table
<1>6. \A s \in Shards : \A r \in tree[s] : r.id = i => s = k
  BY Zenon DEF Placed, k
<1>7. ASSUME NEW r PROVE r \in Table' <=> r \in Table /\ r.id # i
  <2>1. ASSUME NEW s \in Shards, r \in tree'[s] PROVE r \in Table /\ r.id # i
    <3>1. r \in tree[s] /\ r \in Table
      BY <1>4, <2>1, InTable, Zenon
    <3> QED
      BY <1>2, <1>4, <1>6, <2>1, <3>1, Zenon
  <2>2. ASSUME NEW s \in Shards, r \in tree[s], r.id # i PROVE r \in tree'[s]
    BY <1>2, <1>4, <2>2, Zenon
  <2> QED
    BY <1>5, <2>1, <2>2, InTable, Zenon
<1>8. Table' = {r \in Table : r.id # i}
  BY <1>7, Zenon
<1>9. StoredIds' = StoredIds \ {i}
  BY <1>8, Zenon DEF StoredIds
<1>10. Placed'
  BY <1>4, <1>8, Zenon DEF Placed
<1> QED
  BY <1>4, <1>8, <1>9, <1>10, Zenon

(***************************************************************************)
(* An insertion of an id that is not stored adds its message to the table. *)
(***************************************************************************)
LEMMA TablePut ==
    ASSUME TypeOK, Placed, NEW i \in Ids, NEW s \in Sizes, i \notin StoredIds,
           tree' = [tree EXCEPT ![i % Files] = @ \union {[id |-> i, size |-> s]}]
    PROVE  /\ tree' \in [Shards -> SUBSET Records] /\ Placed'
           /\ Table' = Table \union {[id |-> i, size |-> s]}
           /\ StoredIds' = StoredIds \union {i}
<1> DEFINE k == i % Files
           new == [id |-> i, size |-> s]
<1>1. k \in Shards /\ i \in Nat
  BY ShardOf, JournalAssumptions, Zenon
<1>2. new \in Records /\ new.id = i
  BY Zenon DEF Records
<1>3. tree \in [Shards -> SUBSET Records]
  BY Zenon DEF TypeOK
<1> HIDE DEF new, k
<1>4. /\ tree' \in [Shards -> SUBSET Records]
      /\ \A j \in Shards : tree'[j] = IF j = k THEN tree[j] \union {new} ELSE tree[j]
  BY <1>1, <1>2, <1>3, Zenon DEF new, k
<1>5. \A r : r \in Table' <=> \E j \in Shards : r \in tree'[j]
  BY Zenon DEF Table
<1>6. ASSUME NEW r PROVE r \in Table' <=> r \in Table \/ r = new
  <2>1. CASE r = new
    BY <1>1, <1>4, <1>5, <2>1, Zenon
  <2>2. CASE r # new
    <3>1. \A j \in Shards : r \in tree'[j] <=> r \in tree[j]
      BY <1>4, <2>2, Zenon
    <3> QED
      BY <1>5, <2>2, <3>1, InTable, Zenon
  <2> QED
    BY <2>1, <2>2, Zenon
<1>7. Table' = Table \union {new}
  BY <1>6, Zenon
<1>8. StoredIds' = StoredIds \union {i}
  BY <1>2, <1>7, Zenon DEF StoredIds
<1>9. \A r \in Table : r.id # i
  BY InStored, Zenon
<1>10. Placed'
  BY <1>2, <1>4, <1>7, <1>9 DEF Placed, k
<1> QED
  BY <1>4, <1>7, <1>8, <1>10, Zenon DEF new

(***************************************************************************)
(* The cursor of a database returns the least key that is left.            *)
(***************************************************************************)
LEMMA FirstIsLeast ==
    ASSUME NEW S \in SUBSET Nat, S # {}, \A i, j \in S : Near(i, j)
    PROVE  First(S) \in S /\ \A j \in S : First(S) <= j
<1>1. \A i, j \in S : Compare(i, j) = i - j
  BY CompareExact, Zenon
<1>2. PICK x \in S : \A y \in S : x <= y
  BY LeastOfSet, Zenon
<1>3. \A y \in S : Compare(x, y) <= 0
  BY <1>1, <1>2
<1>4. First(S) \in S /\ \A j \in S : Compare(First(S), j) <= 0
  BY <1>3, Zenon DEF First
<1>5. ASSUME NEW j \in S PROVE First(S) <= j
  <2>1. Compare(First(S), j) = First(S) - j /\ Compare(First(S), j) <= 0
    BY <1>1, <1>4, Zenon
  <2>2. First(S) \in Nat /\ j \in Nat
    BY <1>4, Zenon
  <2> QED
    BY <2>1, <2>2
<1> QED
  BY <1>4, <1>5, Zenon

-----------------------------------------------------------------------------
(***************************************************************************)
(* The steps of a call before and instead of its commit leave the          *)
(* databases alone: whoever is inside holds the lock, and what Write saw   *)
(* stays true.                                                             *)
(***************************************************************************)
LEMMA CallStep ==
    ASSUME JournalInv, NEW w \in Workers,
           \/ \E i \in Ids : DequeueData(w, i) \/ \E s \in Sizes : EnqueueData(w, i, s)
           \/ TxnBegin(w) \/ Lock(w) \/ Write(w)
           \/ BeginThrows(w) \/ WriteThrows(w) \/ Abort(w)
    PROVE  JournalInv'
<1> USE DEF JournalInv
<1>1. /\ UNCHANGED Others
      /\ tree' = tree /\ stage' = stage /\ recovering' = recovering /\ cursor' = cursor
      /\ done' = done /\ recovered' = recovered /\ transientList' = transientList
      /\ old' = old /\ opened' = opened /\ sindex' = sindex
  BY Zenon DEF DequeueData, EnqueueData, TxnBegin, Lock, Write, BeginThrows, WriteThrows, Abort, Others,
         files, reading
<1>2. Table' = Table /\ StoredIds' = StoredIds /\ Read' = Read /\ Left' = Left
  BY <1>1, Zenon DEF Table, StoredIds, Read, Left
<1>3. Placed' /\ Phases' /\ Cursors' /\ Discards'
  BY <1>1, <1>2, Zenon DEF Placed, Phases, Cursors, Discards
<1>4. /\ call \in [Workers -> Requests \union {None}] /\ txn \in [Workers -> TxnStates]
      /\ Free \notin Workers /\ \A i \in Ids : i \in Nat /\ i # 0
  BY JournalAssumptions, Zenon DEF TypeOK
<1>5. CASE \E i \in Ids : DequeueData(w, i) \/ \E s \in Sizes : EnqueueData(w, i, s)
  <2>1. PICK i \in Ids, r \in Requests :
          /\ stage = "up" /\ call[w] = None /\ \A j \in InUse : Near(i, j)
          /\ r.id = i /\ r # None
          /\ call' = [call EXCEPT ![w] = r]
          /\ txn' = [txn EXCEPT ![w] = "starting"]
          /\ mutex' = mutex
    BY <1>5, Zenon DEF DequeueData, EnqueueData, Requests, None
  <2>2. TypeOK'
    BY <1>1, <2>1, Zenon DEF TypeOK, TxnStates
  <2>3. \A j \in InUse' : j \in InUse \/ j = i
    BY <1>2, <1>4, <2>1, Zenon DEF InUse
  <2>4. Near(i, i)
    BY <1>4, JournalAssumptions, SMTT(30) DEF Near
  <2>5. AllNear'
    BY <2>1, <2>3, <2>4, Zenon DEF AllNear, Near
  <2>6. Calls'
    BY <1>1, <1>2, <1>4, <2>1, Zenon DEF Calls, Inside
  <2> QED
    BY <1>3, <2>2, <2>5, <2>6, SMTT(30)
<1>6. CASE TxnBegin(w) \/ Lock(w) \/ Write(w) \/ WriteThrows(w)
  <2>1. call' = call
    BY <1>6, Zenon DEF TxnBegin, Lock, Write, WriteThrows
  <2>2. TypeOK'
    BY <1>1, <1>6, SMTT(30) DEF TypeOK, TxnStates, TxnBegin, Lock, Write, WriteThrows
  <2>3. AllNear'
    BY <1>2, <2>1, Zenon DEF AllNear, InUse
  <2>4. ASSUME TxnBegin(w) \/ Lock(w) \/ WriteThrows(w) PROVE Calls'
    BY <1>1, <1>2, <1>4, <2>1, <2>4 DEF Calls, Inside, TxnBegin, Lock, WriteThrows
  <2>5. ASSUME Write(w) PROVE Calls'
    <3>1. txn[w] = "locked" /\ mutex = w /\ call[w] # None
      BY <2>5, Zenon DEF Write, Calls, Inside
    <3>2. /\ call[w] \in Requests /\ call[w].id \in Ids /\ call[w].id \in InUse
          /\ call[w].kind \in {"put", "remove"}
      BY <1>4, <3>1, Zenon DEF Requests, InUse
    <3>3. \A j \in StoredIds : Near(call[w].id, j)
      BY <3>2, Zenon DEF AllNear, InUse
    <3>4. Find(call[w].id % Files, call[w].id) # {} <=> call[w].id \in StoredIds
      BY <3>2, <3>3, FindExact, InStored, SMTT(30)
    <3>5. /\ (call[w].id \in StoredIds <=> call[w].kind = "remove") =>
              txn' = [txn EXCEPT ![w] = "written"]
          /\ ~ (call[w].id \in StoredIds <=> call[w].kind = "remove") =>
              txn' = [txn EXCEPT ![w] = "refused"]
          /\ mutex' = mutex
      BY <2>5, <3>4, Zenon DEF Write
    <3> QED
      BY <1>1, <1>2, <1>4, <2>1, <3>1, <3>2, <3>5, SMTT(30) DEF Calls, Inside
  <2> QED
    BY <1>3, <1>6, <2>2, <2>3, <2>4, <2>5, SMTT(30)
<1>7. CASE BeginThrows(w) \/ Abort(w)
  <2>1. Returns(w)
    BY <1>7, Zenon DEF BeginThrows, Abort
  <2>2. TypeOK'
    BY <1>1, <1>7, Zenon DEF TypeOK, TxnStates, BeginThrows, Abort, Returns
  <2>3. InUse' \subseteq InUse
    BY <1>2, <1>4, <2>1, Zenon DEF InUse, Returns
  <2>4. AllNear'
    BY <2>3, Zenon DEF AllNear, Near
  <2>5. Calls'
    BY <1>1, <1>2, <1>4, <1>7, <2>1, SMTT(30) DEF Calls, Inside, Returns, BeginThrows, Abort
  <2> QED
    BY <1>3, <2>2, <2>4, <2>5, Zenon
<1> QED
  BY <1>5, <1>6, <1>7, Zenon

(***************************************************************************)
(* A commit inserts or removes what its Write saw: nobody else can have    *)
(* changed the databases in between.                                       *)
(***************************************************************************)
LEMMA CommitEffect ==
    ASSUME JournalInv, NEW w \in Workers, Commit(w)
    PROVE  /\ call[w] \in Requests /\ stage = "up" /\ mutex = w
           /\ call[w].kind \in {"put", "remove"} /\ call[w].id \in Ids
           /\ tree' \in [Shards -> SUBSET Records] /\ Placed'
           /\ Table' = IF call[w].kind = "remove" THEN {r \in Table : r.id # call[w].id}
                       ELSE IF call[w].id \in StoredIds THEN Table
                       ELSE Table \union {[id |-> call[w].id, size |-> call[w].size]}
           /\ StoredIds' \subseteq StoredIds \union {call[w].id}
           /\ old' \subseteq old
           /\ call[w].id \in StoredIds' => call[w].id \notin old' \/ call[w].id \in StoredIds
<1> USE DEF JournalInv
<1> DEFINE i == call[w].id
<1>1. /\ txn[w] \in {"written", "refused"} /\ mutex = w /\ call[w] # None /\ stage = "up"
  BY Zenon DEF Commit, Calls, Inside
<1>2. /\ call[w] \in Requests
      /\ call[w].kind \in {"put", "remove"} /\ i \in Ids
      /\ call[w].kind = "put" => call[w].size \in Sizes
  BY <1>1, Zenon DEF TypeOK, Requests
<1>3. \A j \in StoredIds : Near(i, j)
  BY <1>1, <1>2, Zenon DEF AllNear, InUse
<1>4. CASE txn[w] = "refused"
  <2>1. tree' = tree /\ old' = old
    BY <1>4, Zenon DEF Commit, files
  <2>2. Table' = Table /\ StoredIds' = StoredIds /\ Placed'
    BY <2>1 DEF Table, StoredIds, Placed
  <2>3. call[w].kind = "put" <=> i \in StoredIds
    BY <1>4, Zenon DEF Calls
  <2>4. call[w].kind = "remove" => Table = {r \in Table : r.id # i}
    BY <2>3, InStored, SMTT(30)
  <2> QED
    BY <1>1, <1>2, <2>1, <2>2, <2>3, <2>4, Zenon DEF TypeOK
<1>5. CASE txn[w] = "written" /\ call[w].kind = "put"
  <2>1. /\ tree' = [tree EXCEPT ![i % Files] = @ \union {[id |-> i, size |-> call[w].size]}]
        /\ old' = old \ {i}
    BY <1>5, Zenon DEF Commit
  <2>2. i \notin StoredIds
    BY <1>5, SMTT(30) DEF Calls
  <2>3. /\ tree' \in [Shards -> SUBSET Records] /\ Placed'
        /\ Table' = Table \union {[id |-> i, size |-> call[w].size]}
        /\ StoredIds' = StoredIds \union {i}
    BY <1>2, <1>5, <2>1, <2>2, TablePut, Zenon
  <2> QED
    BY <1>1, <1>2, <1>5, <2>1, <2>2, <2>3, SMTT(30)
<1>6. CASE txn[w] = "written" /\ call[w].kind = "remove"
  <2>1. tree' = [tree EXCEPT ![i % Files] = @ \ Find(i % Files, i)] /\ old' = old
    BY <1>6, Zenon DEF Commit
  <2>2. /\ tree' \in [Shards -> SUBSET Records] /\ Placed'
        /\ Table' = {r \in Table : r.id # i}
        /\ StoredIds' = StoredIds \ {i}
    BY <1>2, <1>3, <2>1, TableRemove, Zenon
  <2> QED
    BY <1>1, <1>2, <1>6, <2>1, <2>2, Zenon
<1> QED
  BY <1>1, <1>2, <1>4, <1>5, <1>6, SMTT(30)

(***************************************************************************)
(* TxnCtxt::commit keeps the invariant.                                    *)
(***************************************************************************)
LEMMA CommitStep ==
    ASSUME JournalInv, NEW w \in Workers, Commit(w)
    PROVE  JournalInv'
<1> USE DEF JournalInv
<1>1. /\ call[w] \in Requests /\ stage = "up" /\ mutex = w /\ call[w].id \in Ids
      /\ tree' \in [Shards -> SUBSET Records] /\ Placed'
      /\ StoredIds' \subseteq StoredIds \union {call[w].id}
      /\ old' \subseteq old
      /\ call[w].id \in StoredIds' => call[w].id \notin old' \/ call[w].id \in StoredIds
  BY CommitEffect, SMTT(30)
<1>2. /\ call' = [call EXCEPT ![w] = None] /\ txn' = [txn EXCEPT ![w] = "none"] /\ mutex' = Free
      /\ stage' = stage /\ opened' = opened /\ recovering' = recovering
      /\ cursor' = cursor /\ sindex' = sindex /\ done' = done /\ recovered' = recovered
      /\ transientList' = transientList
  BY Zenon DEF Commit, Returns, reading
<1>3. /\ call \in [Workers -> Requests \union {None}] /\ txn \in [Workers -> TxnStates]
      /\ Free \notin Workers /\ call[w] # None
  BY <1>1, JournalAssumptions DEF TypeOK, Requests, None
<1>4. TypeOK'
  BY <1>1, <1>2, Zenon DEF TypeOK, TxnStates
<1>5. InUse' \subseteq InUse
  BY <1>1, <1>2, <1>3, Zenon DEF InUse
<1>6. AllNear'
  BY <1>5, Zenon DEF AllNear, Near
<1>7. Calls'
  BY <1>1, <1>2, <1>3, Zenon DEF Calls, Inside
<1>8. Phases' /\ Cursors' /\ Discards'
  BY <1>1, <1>2 DEF Phases, Cursors, Discards
<1> QED
  BY <1>1, <1>4, <1>6, <1>7, <1>8, SMTT(30)

(***************************************************************************)
(* A crash, or an abort that the process does not survive, leaves what is  *)
(* committed; the transient messages among it become old.                  *)
(***************************************************************************)
LEMMA DownStep ==
    ASSUME JournalInv, Down
    PROVE  JournalInv'
<1> USE DEF JournalInv
<1>1. /\ stage' = "opening" /\ opened' = 0 /\ recovering' = TRUE
      /\ call' = [w \in Workers |-> None] /\ txn' = [w \in Workers |-> "none"] /\ mutex' = Free
      /\ cursor' = [k \in Shards |-> {}] /\ sindex' = 0 /\ done' = {} /\ recovered' = <<>>
      /\ transientList' = {} /\ old' = StoredIds \intersect Transient
      /\ tree' = tree
  BY Zenon DEF Down, StopReading
<1>2. Table' = Table /\ StoredIds' = StoredIds
  BY <1>1, Zenon DEF Table, StoredIds
<1>3. TypeOK'
  BY <1>1, JournalAssumptions DEF TypeOK, TxnStates, Shards
<1>4. Placed'
  BY <1>1, <1>2, Zenon DEF Placed
<1>5. InUse' \subseteq InUse
  BY <1>1, <1>2, Zenon DEF InUse
<1>6. AllNear'
  BY <1>5, Zenon DEF AllNear, Near
<1>7. Calls'
  BY <1>1, JournalAssumptions, Zenon DEF Calls, Inside
<1>8. Phases' /\ Cursors' /\ Discards'
  BY <1>1, Zenon DEF Phases, Cursors, Discards
<1> QED
  BY <1>3, <1>4, <1>6, <1>7, <1>8, Zenon

-----------------------------------------------------------------------------
(***************************************************************************)
(* Recovery makes no calls, so the part of the invariant that is about     *)
(* them holds as long as no message is added.                              *)
(***************************************************************************)
LEMMA NoCalls ==
    ASSUME JournalInv, stage # "up", UNCHANGED calls, StoredIds' \subseteq StoredIds
    PROVE  AllNear' /\ Calls'
<1> USE DEF JournalInv
<1>1. /\ call' = call /\ txn' = txn /\ mutex' = mutex
      /\ \A w \in Workers : call[w] = None /\ txn[w] = "none"
  BY Zenon DEF Calls, calls
<1>2. InUse' \subseteq InUse
  BY <1>1, Zenon DEF InUse
<1>3. AllNear'
  BY <1>2, Zenon DEF AllNear, Near
<1>4. Calls'
  BY <1>1, Zenon DEF Calls, Inside
<1> QED
  BY <1>3, <1>4, Zenon

-----------------------------------------------------------------------------
(***************************************************************************)
(* The steps of a recovery, and the theorems.                              *)
(***************************************************************************)

(***************************************************************************)
(* After the last database is opened a new queue is in use, and an old one *)
(* is read from the beginning of each database.                            *)
(***************************************************************************)
LEMMA OpenStep ==
    ASSUME JournalInv, OpenShard
    PROVE  JournalInv'
<1> USE DEF JournalInv
<1>1. /\ stage = "opening" /\ opened < Files /\ opened' = opened + 1
      /\ tree' = tree /\ old' = old /\ recovering' = recovering /\ UNCHANGED calls
      /\ call' = call /\ txn' = txn /\ mutex' = mutex
      /\ sindex' = sindex /\ done' = done /\ recovered' = recovered
      /\ transientList' = transientList
  BY Zenon DEF OpenShard, files, calls
<1>2. Table' = Table /\ StoredIds' = StoredIds
  BY <1>1, Zenon DEF Table, StoredIds
<1>3. Placed'
  BY <1>1, <1>2, Zenon DEF Placed
<1>4. AllNear' /\ Calls'
  BY <1>1, <1>2, NoCalls, Zenon
<1>5. /\ recovered = <<>> /\ done = {} /\ transientList = {}
      /\ ~ recovering => old = {}
  BY <1>1, Zenon DEF Phases
<1>6. opened' \in 0..Files
  BY <1>1, JournalAssumptions DEF TypeOK
<1>7. CASE stage' = stage /\ cursor' = cursor
  <2>1. TypeOK'
    BY <1>1, <1>6, <1>7, Zenon DEF TypeOK
  <2>2. Phases' /\ Cursors' /\ Discards'
    BY <1>1, <1>5, <1>7, Zenon DEF Phases, Cursors, Discards
  <2> QED
    BY <1>3, <1>4, <2>1, <2>2, Zenon
<1>8. CASE ~ recovering /\ stage' = "up" /\ cursor' = cursor
  <2>1. TypeOK'
    BY <1>1, <1>6, <1>8, Zenon DEF TypeOK
  <2>2. Phases' /\ Cursors' /\ Discards'
    BY <1>1, <1>5, <1>8, Zenon DEF Phases, Cursors, Discards
  <2> QED
    BY <1>3, <1>4, <2>1, <2>2, Zenon
<1>9. CASE /\ recovering /\ stage' = "reading"
           /\ cursor' = [k \in Shards |-> {r.id : r \in tree[k]}]
  <2>1. \A k \in Shards : \A j : j \in cursor'[k] <=> \E r \in tree[k] : r.id = j
    BY <1>9, Zenon
  <2>2. \A k \in Shards : tree[k] \subseteq Records
    BY Zenon DEF TypeOK
  <2>3. cursor' \in [Shards -> SUBSET Ids]
    BY <1>9, <2>2, Zenon DEF Records
  <2>4. TypeOK'
    BY <1>1, <1>6, <1>9, <2>3, Zenon DEF TypeOK
  <2>5. \A k \in Shards : \A j \in cursor'[k] : j % Files = k
    BY <2>1 DEF Placed
  <2>6. \A j : j \in Left' <=> \E k \in Shards : j \in cursor'[k]
    BY Zenon DEF Left
  <2>7. \A j : j \in Left' <=> j \in StoredIds
    BY <2>1, <2>6, InTable, InStored
  <2>8. Left' = StoredIds
    BY <2>7, Zenon
  <2>9. DOMAIN recovered' = {}
    BY <1>1, <1>5
  <2>10. Read' = {}
    BY <2>9, Zenon DEF Read
  <2>11. Cursors'
    BY <1>1, <1>2, <1>5, <2>5, <2>8, <2>9, <2>10, Zenon DEF Cursors
  <2>12. Phases' /\ Discards'
    BY <1>1, <1>5, <1>9, Zenon DEF Phases, Discards
  <2> QED
    BY <1>3, <1>4, <2>4, <2>11, <2>12, Zenon
<1> QED
  BY <1>7, <1>8, <1>9, Zenon DEF OpenShard

(***************************************************************************)
(* A round of recoverMessages in which a cursor returns a message: it is   *)
(* taken from what is left, above all of its database that were read.      *)
(***************************************************************************)
LEMMA ReadOne ==
    ASSUME JournalInv, stage = "reading", NEW k \in Shards, cursor[k] # {}, k \notin done,
           recovered' = Append(recovered, First(cursor[k])),
           cursor' = [cursor EXCEPT ![k] = @ \ {First(@)}],
           UNCHANGED <<tree, stage, done>>
    PROVE  cursor' \in [Shards -> SUBSET Ids] /\ recovered' \in Seq(Ids) /\ Cursors'
<1> USE DEF JournalInv
<1> DEFINE f == First(cursor[k])
<1>1. /\ cursor \in [Shards -> SUBSET Ids] /\ recovered \in Seq(Ids) /\ done \subseteq Shards
      /\ Ids \subseteq Nat
  BY JournalAssumptions, Zenon DEF TypeOK
<1>2. \A j : j \in Left <=> \E s \in Shards : j \in cursor[s]
  BY Zenon DEF Left
<1>3. /\ Read \union Left = StoredIds
      /\ \A s \in Shards : \A j \in cursor[s] : j % Files = s
      /\ \A i \in Read, j \in Left : i % Files = j % Files => i < j
      /\ \A s \in done : cursor[s] = {}
      /\ \A m, n \in DOMAIN recovered :
          m < n /\ recovered[m] % Files = recovered[n] % Files => recovered[m] < recovered[n]
  BY Zenon DEF Cursors
<1>4. \A i, j \in cursor[k] : Near(i, j)
  BY <1>2, <1>3, Zenon DEF AllNear, InUse
<1>5. f \in cursor[k] /\ \A j \in cursor[k] : f <= j
  BY <1>1, <1>4, FirstIsLeast, Zenon
<1>6. cursor' = [cursor EXCEPT ![k] = cursor[k] \ {f}] /\ recovered' = Append(recovered, f)
  BY Zenon
<1> HIDE DEF f
<1>7. /\ cursor' \in [Shards -> SUBSET Ids] /\ recovered' \in Seq(Ids)
      /\ cursor'[k] = cursor[k] \ {f}
      /\ \A s \in Shards : s # k => cursor'[s] = cursor[s]
  BY <1>1, <1>5, <1>6
<1>8. \A j : j \in Left' <=> j \in Left /\ j # f
  <2>1. \A j : j \in Left' <=> \E s \in Shards : j \in cursor'[s]
    BY Zenon DEF Left
  <2>2. \A s \in Shards : s # k => f \notin cursor[s]
    BY <1>3, <1>5, Zenon
  <2> QED
    BY <1>2, <1>7, <2>1, <2>2
<1>9. /\ DOMAIN recovered = 1..Len(recovered) /\ Len(recovered) \in Nat
      /\ DOMAIN recovered' = 1..(Len(recovered) + 1)
      /\ recovered'[Len(recovered) + 1] = f
      /\ \A n \in DOMAIN recovered : recovered'[n] = recovered[n] /\ n \in DOMAIN recovered'
  BY <1>1, <1>5, <1>6
<1>10. \A n \in DOMAIN recovered' : n \in DOMAIN recovered \/ n = Len(recovered) + 1
  BY <1>9
<1>11. \A i : i \in Read' <=> i \in Read \/ i = f
  <2>1. \A i : i \in Read' <=> \E n \in DOMAIN recovered' : i = recovered'[n]
    BY Zenon DEF Read
  <2>2. \A i : i \in Read <=> \E n \in DOMAIN recovered : i = recovered[n]
    BY Zenon DEF Read
  <2>3. Len(recovered) + 1 \in DOMAIN recovered'
    BY <1>9
  <2> QED
    BY <1>9, <1>10, <2>1, <2>2, <2>3
<1>12. f \in Left /\ f \in Nat /\ f % Files = k
  BY <1>1, <1>2, <1>3, <1>5, Zenon
<1>13. Read' \union Left' = StoredIds'
  <2>1. StoredIds' = StoredIds
    BY Zenon DEF StoredIds, Table
  <2> QED
    BY <1>3, <1>8, <1>11, <1>12, <2>1
<1>14. \A s \in Shards : \A j \in cursor'[s] : j % Files = s
  BY <1>3, <1>7, Zenon
<1>15. \A s \in done : cursor'[s] = {}
  BY <1>1, <1>3, <1>7, Zenon
<1>16. ASSUME NEW i \in Read', NEW j \in Left', i % Files = j % Files PROVE i < j
  <2>1. CASE i = f
    <3>1. j \in cursor[k] /\ j # f
      BY <1>2, <1>3, <1>8, <1>12, <1>16, <2>1, Zenon
    <3> QED
      BY <1>1, <1>5, <1>12, <2>1, <3>1
  <2>2. CASE i \in Read
    BY <1>3, <1>8, <1>16, <2>2, Zenon
  <2> QED
    BY <1>11, <2>1, <2>2, Zenon
<1>17. ASSUME NEW m \in DOMAIN recovered', NEW n \in DOMAIN recovered', m < n,
              recovered'[m] % Files = recovered'[n] % Files
       PROVE  recovered'[m] < recovered'[n]
  <2>1. m \in DOMAIN recovered
    BY <1>9, <1>17
  <2>2. CASE n \in DOMAIN recovered
    BY <1>3, <1>9, <1>17, <2>1, <2>2, Zenon
  <2>3. CASE n = Len(recovered) + 1
    <3>1. recovered'[m] \in Read
      BY <1>9, <2>1, Zenon DEF Read
    <3> QED
      BY <1>3, <1>9, <1>12, <1>17, <2>3, <3>1, Zenon
  <2> QED
    BY <1>10, <2>2, <2>3, Zenon
<1> QED
  BY <1>7, <1>13, <1>14, <1>15, <1>16, <1>17, Zenon DEF Cursors

(***************************************************************************)
(* A round of recoverMessages keeps the invariant; when the last cursor    *)
(* has ended nothing is left, and the transient messages read are those    *)
(* that are stored.                                                        *)
(***************************************************************************)
LEMMA ReadStep ==
    ASSUME JournalInv, ReadNext
    PROVE  JournalInv'
<1> USE DEF JournalInv
<1>1. /\ stage = "reading" /\ ~ AllRead(done)
      /\ tree' = tree /\ old' = old /\ recovering' = recovering /\ UNCHANGED calls
      /\ call' = call /\ txn' = txn /\ mutex' = mutex /\ opened' = opened
      /\ sindex' = NextIndex(sindex)
  BY Zenon DEF ReadNext, files, calls
<1>2. Table' = Table /\ StoredIds' = StoredIds
  BY <1>1, Zenon DEF Table, StoredIds
<1>3. Placed' /\ AllNear' /\ Calls'
  BY <1>1, <1>2, NoCalls, Zenon DEF Placed
<1>4. sindex \in Shards /\ sindex' \in Shards
  <2>1. sindex \in Shards /\ sindex + 1 \in Nat
    BY JournalAssumptions DEF TypeOK, Shards
  <2> QED
    BY <1>1, <2>1, ShardOf, Zenon DEF NextIndex
<1>5. recovering /\ transientList = {}
  BY <1>1, Zenon DEF Phases
<1>6. CASE sindex \in done
  <2>1. done' = done /\ recovered' = recovered /\ cursor' = cursor
    BY <1>6, Zenon DEF ReadNext
  <2>2. stage' = stage /\ transientList' = transientList
    BY <1>1, <2>1, Zenon DEF ReadNext
  <2>3. Read' = Read /\ Left' = Left
    BY <2>1, Zenon DEF Read, Left
  <2>4. Cursors' /\ Phases' /\ Discards'
    BY <1>1, <1>2, <1>5, <2>1, <2>2, <2>3, Zenon DEF Cursors, Phases, Discards
  <2>5. TypeOK'
    BY <1>1, <1>4, <2>1, <2>2, Zenon DEF TypeOK
  <2> QED
    BY <1>3, <2>4, <2>5, Zenon
<1>7. CASE sindex \notin done /\ cursor[sindex] # {}
  <2>1. /\ recovered' = Append(recovered, First(cursor[sindex]))
        /\ cursor' = [cursor EXCEPT ![sindex] = @ \ {First(@)}]
        /\ done' = done
    BY <1>7, Zenon DEF ReadNext
  <2>2. stage' = stage /\ transientList' = transientList
    BY <1>1, <2>1, Zenon DEF ReadNext
  <2>3. cursor' \in [Shards -> SUBSET Ids] /\ recovered' \in Seq(Ids) /\ Cursors'
    BY <1>1, <1>4, <1>7, <2>1, <2>2, ReadOne, Zenon
  <2>4. Phases' /\ Discards'
    BY <1>1, <1>5, <2>2, Zenon DEF Phases, Discards
  <2>5. TypeOK'
    BY <1>1, <1>4, <2>1, <2>2, <2>3, Zenon DEF TypeOK
  <2> QED
    BY <1>3, <2>3, <2>4, <2>5, Zenon
<1>8. CASE sindex \notin done /\ cursor[sindex] = {}
  <2>1. done' = done \union {sindex} /\ recovered' = recovered /\ cursor' = cursor
    BY <1>8, Zenon DEF ReadNext
  <2>2. Read' = Read /\ Left' = Left
    BY <2>1, Zenon DEF Read, Left
  <2>3. done' \subseteq Shards /\ \A k \in done' : cursor'[k] = {}
    BY <1>1, <1>4, <1>8, <2>1, Zenon DEF TypeOK, Cursors
  <2>4. CASE ~ AllRead(done')
    <3>1. stage' = stage /\ transientList' = transientList
      BY <2>4, Zenon DEF ReadNext
    <3>2. Cursors' /\ Phases' /\ Discards'
      BY <1>1, <1>2, <1>5, <2>1, <2>2, <2>3, <3>1, Zenon DEF Cursors, Phases, Discards
    <3>3. TypeOK'
      BY <1>1, <1>4, <2>1, <2>3, <3>1, SMTT(30) DEF TypeOK
    <3> QED
      BY <1>3, <3>2, <3>3, Zenon
  <2>5. CASE AllRead(done')
    <3>1. stage' = "discarding" /\ transientList' = Read \intersect Transient
      BY <2>5, Zenon DEF ReadNext, Read
    <3>2. Left = {}
      BY <2>1, <2>3, <2>5, SMTT(30) DEF AllRead, Left
    <3>3. Read = StoredIds
      BY <1>1, <3>2, Zenon DEF Cursors
    <3>4. old \subseteq Transient
      BY Zenon DEF TypeOK
    <3>5. Cursors' /\ Phases' /\ Discards'
      BY <1>1, <1>2, <1>5, <2>2, <3>1, <3>3, <3>4, Zenon DEF Cursors, Phases, Discards
    <3>6. TypeOK'
      BY <1>1, <1>4, <2>1, <2>3, <3>1, Zenon DEF TypeOK
    <3> QED
      BY <1>3, <3>5, <3>6, Zenon
  <2> QED
    BY <2>4, <2>5, Zenon
<1> QED
  BY <1>6, <1>7, <1>8, Zenon

(***************************************************************************)
(* A round of discard_transient_message deletes the message it is about    *)
(* and no other; when the list is empty no old transient message is left.  *)
(***************************************************************************)
LEMMA DiscardEffect ==
    ASSUME JournalInv, stage = "discarding", NEW i \in transientList, DiscardOne(i)
    PROVE  /\ i \in Ids /\ i \in Transient
           /\ tree' \in [Shards -> SUBSET Records] /\ Placed'
           /\ Table' = {r \in Table : r.id # i}
           /\ StoredIds' = StoredIds \ {i}
<1> USE DEF JournalInv
<1>1. i \in Ids /\ i \in Transient /\ i \in StoredIds
  BY JournalAssumptions, Zenon DEF TypeOK, Discards
<1>2. \A j \in StoredIds : Near(i, j)
  BY <1>1, Zenon DEF AllNear, InUse
<1> QED
  BY <1>1, <1>2, TableRemove, Zenon DEF DiscardOne

(***************************************************************************)
(* A round of discard_transient_message keeps the invariant.               *)
(***************************************************************************)
LEMMA DiscardStep ==
    ASSUME JournalInv, Discard
    PROVE  JournalInv'
<1> USE DEF JournalInv
<1>1. /\ stage = "discarding" /\ old' = old /\ recovering' = recovering /\ UNCHANGED calls
      /\ call' = call /\ txn' = txn /\ mutex' = mutex /\ opened' = opened
  BY Zenon DEF Discard, calls
<1>2. CASE transientList = {} /\ StopDiscarding
  <2>1. /\ stage' = "up" /\ tree' = tree /\ transientList' = transientList
        /\ cursor' = [k \in Shards |-> {}] /\ sindex' = 0 /\ done' = {} /\ recovered' = <<>>
    BY <1>2, Zenon DEF StopDiscarding, StopReading
  <2>2. Table' = Table /\ StoredIds' = StoredIds
    BY <2>1, Zenon DEF Table, StoredIds
  <2>3. Placed' /\ AllNear' /\ Calls'
    BY <1>1, <2>1, <2>2, NoCalls, Zenon DEF Placed
  <2>4. TypeOK'
    BY <1>1, <2>1, JournalAssumptions DEF TypeOK, Shards
  <2>5. Cursors' /\ Phases' /\ Discards'
    BY <1>1, <1>2, <2>1, <2>2, Zenon DEF Cursors, Phases, Discards
  <2> QED
    BY <2>3, <2>4, <2>5, Zenon
<1>3. ASSUME NEW i \in transientList, DiscardOne(i) PROVE JournalInv'
  <2>1. /\ stage' = stage /\ cursor' = cursor /\ sindex' = sindex /\ done' = done
        /\ recovered' = recovered /\ transientList' = transientList \ {i}
    BY <1>3, Zenon DEF DiscardOne, reading
  <2>2. /\ tree' \in [Shards -> SUBSET Records] /\ Placed'
        /\ StoredIds' = StoredIds \ {i}
    BY <1>1, <1>3, DiscardEffect, Zenon
  <2>3. AllNear' /\ Calls'
    BY <1>1, <2>2, NoCalls, Zenon
  <2>4. TypeOK'
    BY <1>1, <2>1, <2>2, Zenon DEF TypeOK
  <2>5. Read' = Read
    BY <2>1, SMTT(30) DEF Read
  <2>6. Cursors' /\ Phases' /\ Discards'
    BY <1>1, <2>1, <2>2, <2>5, Zenon DEF Cursors, Phases, Discards
  <2> QED
    BY <2>2, <2>3, <2>4, <2>6, Zenon
<1> QED
  BY <1>2, <1>3, Zenon DEF Discard

-----------------------------------------------------------------------------
(***************************************************************************)
(* The invariant of the journal.                                           *)
(***************************************************************************)
LEMMA JournalInvariance == Spec => []JournalInv
<1>1. ASSUME Init PROVE JournalInv
  <2>1. TypeOK
    <3>1. 0 \in Shards /\ 0 \in 0..Files /\ <<>> \in Seq(Ids)
      BY JournalAssumptions DEF Shards
    <3> QED
      BY <1>1, <3>1, Zenon DEF Init, TypeOK, TxnStates
  <2>2. Table = {} /\ StoredIds = {}
    BY <1>1, Zenon DEF Init, Table, StoredIds
  <2>3. Placed /\ AllNear /\ Calls
    BY <1>1, <2>2, JournalAssumptions, Zenon DEF Init, Placed, AllNear, InUse, Calls, Inside
  <2>4. Phases /\ Cursors /\ Discards
    BY <1>1, Zenon DEF Init, Phases, Cursors, Discards
  <2> QED
    BY <2>1, <2>3, <2>4, Zenon DEF JournalInv
<1>2. ASSUME JournalInv, [Next]_vars PROVE JournalInv'
  <2>1. CASE Recover
    BY <1>2, <2>1, OpenStep, ReadStep, DiscardStep, Zenon DEF Recover
  <2>2. ASSUME NEW w \in Workers, Step(w) PROVE JournalInv'
    BY <1>2, <2>2, CallStep, CommitStep, DownStep, Zenon DEF Step, AbortDies
  <2>3. ASSUME NEW w \in Workers, NEW i \in Ids,
               DequeueData(w, i) \/ \E s \in Sizes : EnqueueData(w, i, s)
        PROVE  JournalInv'
    BY <1>2, <2>3, CallStep, Zenon
  <2>4. CASE Crash
    BY <1>2, <2>4, DownStep, Zenon DEF Crash
  <2>5. CASE UNCHANGED vars
    <3>1. Table' = Table /\ StoredIds' = StoredIds /\ Read' = Read /\ Left' = Left
      BY <2>5, Zenon DEF vars, Table, StoredIds, Read, Left
    <3>2. InUse' = InUse
      BY <2>5, <3>1, Zenon DEF vars, InUse
    <3>3. TypeOK' /\ Placed' /\ AllNear'
      BY <1>2, <2>5, <3>1, <3>2, SMTT(30) DEF JournalInv, vars, TypeOK, Placed, AllNear
    <3>4. Calls' /\ Phases' /\ Cursors' /\ Discards'
      BY <1>2, <2>5, <3>1, Zenon DEF JournalInv, vars, Calls, Phases, Cursors, Discards
    <3> QED
      BY <3>3, <3>4, Zenon DEF JournalInv
  <2> QED
    BY <1>2, <2>1, <2>2, <2>3, <2>4, <2>5, Zenon DEF Next
<1> QED
  BY <1>1, <1>2, PTL DEF Spec

(***************************************************************************)
(* The journal, its calls and its recovery stay within their types.        *)
(***************************************************************************)
THEOREM JournalTypes == Spec => []TypeOK
<1>1. JournalInv => TypeOK
  BY Zenon DEF JournalInv
<1> QED
  BY <1>1, JournalInvariance, PTL

(***************************************************************************)
(* recoverMessages returns every message of every database exactly once    *)
(* and those of a database in ascending order, for any number of databases *)
(* and messages.                                                           *)
(***************************************************************************)
THEOREM RecoveryReadsOnce == Spec => []ReadOnce
<1>1. ASSUME JournalInv PROVE ReadOnce
  <2> USE DEF JournalInv
  <2>1. /\ recovered \in Seq(Ids) /\ DOMAIN recovered = 1..Len(recovered)
        /\ Len(recovered) \in Nat
    BY <1>1 DEF TypeOK
  <2>2. Read = {recovered[n] : n \in 1..Len(recovered)}
    BY <2>1, Zenon DEF Read
  <2>3. \A n \in 1..Len(recovered) : recovered[n] \in Nat
    <3>1. \A n \in 1..Len(recovered) : recovered[n] \in Ids
      BY <2>1
    <3> QED
      BY <3>1, JournalAssumptions, Zenon
  <2>4. ASSUME stage = "reading" PROVE Read \intersect Left = {}
    <3>1. \A i \in Read : i \in Nat
      BY <2>1, <2>3, <2>2, Zenon
    <3> QED
      BY <1>1, <2>4, <3>1 DEF Cursors
  <2>5. ASSUME stage = "reading" PROVE Len(recovered) = Cardinality(Read)
    <3>1. \A m, n \in 1..Len(recovered) : recovered[m] = recovered[n] => m = n
      BY <1>1, <2>1, <2>5, <2>3 DEF Cursors
    <3>2. recovered \in [1..Len(recovered) -> Read]
      <4>1. recovered = [n \in 1..Len(recovered) |-> recovered[n]]
        BY <2>1
      <4>2. \A n \in 1..Len(recovered) : recovered[n] \in Read
        BY <2>2, Zenon
      <4> QED
        BY <4>1, <4>2, Zenon
    <3>3. \A i \in Read : \E n \in 1..Len(recovered) : recovered[n] = i
      BY <2>2, Zenon
    <3>4. recovered \in Bijection(1..Len(recovered), Read)
      BY <2>1, <3>1, <3>2, <3>3, Zenon DEF Bijection, Injection, Surjection, IsInjective
    <3>5. ExistsBijection(1..Len(recovered), Read)
      BY <3>4, Zenon DEF ExistsBijection
    <3>6. IsFiniteSet(1..Len(recovered)) /\ Cardinality(1..Len(recovered)) = Len(recovered)
      BY <2>1, FS_Interval, SMTT(30)
    <3> QED
      BY <3>5, <3>6, FS_Bijection, Zenon
  <2>6. ASSUME stage = "reading" PROVE Read \union Left = StoredIds
    BY <1>1, <2>6, Zenon DEF Cursors
  <2>7. ASSUME stage = "discarding" PROVE StoredIds \subseteq Read
    BY <1>1, <2>7, Zenon DEF Discards
  <2>8. ASSUME stage = "reading"
        PROVE  \A m, n \in 1..Len(recovered) :
                m < n /\ recovered[m] % Files = recovered[n] % Files => recovered[m] < recovered[n]
    BY <1>1, <2>1, <2>8, Zenon DEF Cursors
  <2> QED
    BY <2>2, <2>4, <2>5, <2>6, <2>7, <2>8, Zenon DEF ReadOnce, Left
<1> QED
  BY <1>1, JournalInvariance, PTL

(***************************************************************************)
(* No transient message of an earlier run is left when the queue is used.  *)
(***************************************************************************)
THEOREM TransientsDeleted == Spec => []TransientsGone
<1>1. JournalInv => TransientsGone
  BY Zenon DEF JournalInv, Discards, TransientsGone
<1> QED
  BY <1>1, JournalInvariance, PTL

(***************************************************************************)
(* loadMsgContent returns the bytes asked for, as far as the message has   *)
(* them, and finds no message that is not stored.                          *)
(***************************************************************************)
THEOREM LoadsExactly == Spec => []LoadExact
<1>1. ASSUME JournalInv PROVE LoadExact
  <2> USE DEF JournalInv
  <2>1. ASSUME NEW r \in Table, NEW length \in 0..MaxLength, NEW offset \in 0..r.size
        PROVE  LoadMsgContent(r.id, length, offset) =
                   Cardinality({b \in 1..r.size : offset < b /\ b <= offset + length})
    <3>1. /\ r.id \in Ids /\ r.size \in Nat /\ length \in Nat /\ offset \in Nat
          /\ offset <= r.size /\ r.id \in StoredIds
      BY <1>1, <2>1, TableTypes, InStored, JournalAssumptions
    <3>2. \A j \in StoredIds : Near(r.id, j)
      BY <1>1, <3>1, Zenon DEF AllNear, InUse
    <3>3. Find(r.id % Files, r.id) = {q \in Table : q.id = r.id}
      BY <1>1, <3>1, <3>2, FindExact, Zenon
    <3>4. \A q \in Table : q.id = r.id <=> q = r
      BY <1>1, Zenon DEF Placed
    <3>5. Find(r.id % Files, r.id) = {r}
      BY <3>3, <3>4, Zenon
    <3>6. (CHOOSE q \in {r} : TRUE) = r
      BY Zenon
    <3>7. LoadMsgContent(r.id, length, offset) =
              IF offset + length > r.size THEN r.size - offset ELSE length
      BY <3>5, <3>6 DEF LoadMsgContent
    <3>8. CASE offset + length > r.size
      <4>1. {b \in 1..r.size : offset < b /\ b <= offset + length} = (offset + 1)..r.size
        BY <3>1, <3>8
      <4>2. Cardinality((offset + 1)..r.size) =
                IF offset + 1 > r.size THEN 0 ELSE r.size - (offset + 1) + 1
        <5>1. offset + 1 \in Int /\ r.size \in Int
          BY <3>1
        <5> QED
          BY <5>1, FS_Interval, Zenon
      <4>3. Cardinality((offset + 1)..r.size) = r.size - offset
        BY <3>1, <4>2
      <4>4. LoadMsgContent(r.id, length, offset) = r.size - offset
        BY <3>7, <3>8, Zenon
      <4> QED
        BY <4>1, <4>3, <4>4, Zenon
    <3>9. CASE offset + length <= r.size
      <4>1. {b \in 1..r.size : offset < b /\ b <= offset + length}
                = (offset + 1)..(offset + length)
        BY <3>1, <3>9
      <4>2. Cardinality((offset + 1)..(offset + length)) = length
        BY <3>1, FS_Interval
      <4>3. LoadMsgContent(r.id, length, offset) = length
        BY <3>1, <3>7, <3>9
      <4> QED
        BY <4>1, <4>2, <4>3, Zenon
    <3> QED
      BY <3>1, <3>8, <3>9
  <2>2. ASSUME NEW i \in Ids \ StoredIds, \A j \in StoredIds : Near(i, j)
        PROVE  LoadMsgContent(i, 0, 0) = -1
    <3>1. Find(i % Files, i) = {}
      BY <1>1, <2>2, FindExact, InStored, Zenon
    <3> QED
      BY <3>1, Zenon DEF LoadMsgContent
  <2> QED
    BY <2>1, <2>2, Zenon DEF LoadExact
<1> QED
  BY <1>1, JournalInvariance, PTL

-----------------------------------------------------------------------------
(***************************************************************************)
(* JournalImpl and TxnCtxt implement the table of MessageTable: a commit   *)
(* is the step at which a call takes effect, a discarded message is one    *)
(* that the table may drop, and every other step is invisible or the       *)
(* beginning or failure of a call.                                         *)
(***************************************************************************)
THEOREM TableImplemented == Spec => ImplementsTable
<1>1. ASSUME Init PROVE Promise!Init
  <2>1. Table = {}
    BY <1>1, Zenon DEF Init, Table
  <2> QED
    BY <1>1, <2>1, Zenon DEF Init, Promise!Init, None, Promise!None
<1>2. ASSUME JournalInv, [Next]_vars
      PROVE  [Promise!Next]_<<Table, call, (stage = "up")>>
  <2> USE <1>2 DEF JournalInv
  <2>1. tree' = tree => Table' = Table
    BY Zenon DEF Table
  <2>2. call \in [Workers -> Requests \union {None}]
    BY Zenon DEF TypeOK
  <2>3. CASE OpenShard
    <3>1. /\ tree' = tree /\ call' = call /\ stage = "opening"
          /\ stage' \in {"opening", "reading", "up"}
      BY <2>3, Zenon DEF OpenShard, files, calls
    <3> QED
      BY <2>1, <3>1, Zenon DEF Promise!Next, Promise!Open
  <2>4. CASE ReadNext
    <3>1. /\ tree' = tree /\ call' = call /\ stage = "reading"
          /\ stage' \in {"reading", "discarding"}
      BY <2>4, Zenon DEF ReadNext, files, calls
    <3> QED
      BY <2>1, <3>1, Zenon
  <2>5. CASE Discard
    <3>1. stage = "discarding" /\ call' = call
      BY <2>5, Zenon DEF Discard, calls
    <3>2. CASE StopDiscarding
      BY <2>1, <3>1, <3>2, Zenon DEF StopDiscarding, Promise!Next, Promise!Open
    <3>3. ASSUME NEW i \in transientList, DiscardOne(i)
          PROVE  Promise!Drop(i) /\ i \in Ids
      <4>1. i \in Ids /\ i \in Transient /\ Table' = {r \in Table : r.id # i}
        BY <3>1, <3>3, DiscardEffect, Zenon
      <4>2. stage' = stage
        BY <3>3, Zenon DEF DiscardOne
      <4> QED
        BY <3>1, <4>1, <4>2, Zenon DEF Promise!Drop, Promise!Delete
    <3> QED
      BY <2>5, <3>2, <3>3, Zenon DEF Discard, Promise!Next
  <2>6. ASSUME NEW w \in Workers, NEW i \in Ids,
               DequeueData(w, i) \/ \E s \in Sizes : EnqueueData(w, i, s)
        PROVE  \E op \in Promise!Requests : Promise!Ask(w, op)
    <3>1. tree' = tree /\ stage' = stage /\ stage = "up" /\ call[w] = None
      BY <2>6, Zenon DEF DequeueData, EnqueueData, Others, files
    <3>2. PICK op \in Requests : call' = [call EXCEPT ![w] = op]
      BY <2>6, Zenon DEF DequeueData, EnqueueData, Requests
    <3>3. Promise!Requests = Requests /\ Promise!None = None
      BY Zenon DEF Requests, Promise!Requests, None, Promise!None
    <3> QED
      BY <2>1, <3>1, <3>2, <3>3, Zenon DEF Promise!Ask
  <2>7. ASSUME NEW w \in Workers, TxnBegin(w) \/ Lock(w) \/ Write(w) \/ WriteThrows(w)
        PROVE  UNCHANGED <<Table, call, (stage = "up")>>
    BY <2>1, <2>7, Zenon DEF TxnBegin, Lock, Write, WriteThrows, Others, files
  <2>8. ASSUME NEW w \in Workers, BeginThrows(w) \/ Abort(w)
        PROVE  Promise!Fail(w)
    <3>1. tree' = tree /\ stage' = stage /\ call[w] # None /\ call' = [call EXCEPT ![w] = None]
      BY <2>8, SMTT(30) DEF BeginThrows, Abort, Others, files, Returns, Calls
    <3> QED
      BY <2>1, <3>1, Zenon DEF Promise!Fail, Promise!Done, None, Promise!None
  <2>9. ASSUME NEW w \in Workers, Commit(w)
        PROVE  Promise!Put(w) \/ Promise!Remove(w)
    <3>1. /\ call[w].kind \in {"put", "remove"}
          /\ Table' = IF call[w].kind = "remove" THEN {r \in Table : r.id # call[w].id}
                      ELSE IF call[w].id \in StoredIds THEN Table
                      ELSE Table \union {[id |-> call[w].id, size |-> call[w].size]}
      BY <2>9, CommitEffect, SMTT(30)
    <3>2. call' = [call EXCEPT ![w] = None] /\ stage' = stage
      BY <2>9, Zenon DEF Commit, Returns
    <3>3. Promise!Done(w)
      BY <3>2, Zenon DEF Promise!Done, None, Promise!None
    <3>4. CASE call[w].kind = "remove"
      BY <3>1, <3>3, <3>4, SMTT(30) DEF Promise!Remove, Promise!Delete
    <3>5. CASE call[w].kind = "put"
      <4>1. Promise!Has(Table, call[w].id) <=> call[w].id \in StoredIds
        BY InStored, Zenon DEF Promise!Has
      <4> QED
        BY <3>1, <3>3, <3>5, <4>1, Zenon DEF Promise!Put, Promise!Insert
    <3> QED
      BY <3>1, <3>4, <3>5, SMTT(30)
  <2>10. ASSUME Down PROVE Promise!Crash
    BY <2>1, <2>10, Zenon DEF Down, Promise!Crash, None, Promise!None
  <2>11. CASE UNCHANGED vars
    BY <2>1, <2>11, Zenon DEF vars
  <2>12. ASSUME NEW w \in Workers, Step(w)
         PROVE  [Promise!Next]_<<Table, call, (stage = "up")>>
    BY <2>7, <2>8, <2>9, <2>10, <2>12, Zenon DEF Step, AbortDies, Promise!Next
  <2> QED
    BY <2>3, <2>4, <2>5, <2>6, <2>10, <2>11, <2>12, SMTT(30) DEF Next, Recover, Crash, Promise!Next
<1> QED
  BY <1>1, <1>2, JournalInvariance, PTL DEF Spec, ImplementsTable, Promise!Spec
===============================================================================
