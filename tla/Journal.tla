------------------------------- MODULE Journal -------------------------------
(***************************************************************************)
(* JournalImpl: the messages of a queue, spread by their id over Files     *)
(* B-trees whose keys are compared by a difference cast to int; each       *)
(* insertion and deletion in a TxnCtxt of its own under globalSerialiser;  *)
(* opening, recovery and the deletion of transient messages.               *)
(***************************************************************************)
EXTENDS PidRecord, Sequences, FiniteSets

CONSTANTS
    Ids, Sizes, Transient, Workers,
    Files,          \* num_jfiles
    MaxLength,      \* bound: lengths asked of loadMsgContent
    MaxFaults,      \* bound: calls of the database that throw
    MaxCrashes      \* bound: crashes

Free == "free"

ASSUME JournalAssumptions ==
    /\ Ids \subseteq Nat \ {0} /\ Sizes \subseteq Nat /\ Transient \subseteq Ids
    /\ Free \notin Workers
    /\ Files \in Nat \ {0} /\ HalfInt \in Nat \ {0}
    /\ MaxLength \in Nat /\ MaxFaults \in Nat /\ MaxCrashes \in Nat

VARIABLES
    tree,           \* the databases: sets of an id and a size, as committed
    stage,          \* "opening", "reading", "discarding" or "up"
    opened,         \* databases opened so far
    recovering,     \* the queue is read back, not created
    call,           \* enqueue_data and dequeue_data under way
    txn,            \* where its transaction is
    mutex,          \* the worker in globalSerialiser, or Free
    cursor,         \* recoverMessages: what each cursor has not returned
    sindex,         \* and the database to read next
    done,           \* databases read to the end (cursorsDone)
    recovered,      \* the messages read, in the order they are read
    transientList,  \* ids still to be discarded
    old,            \* history: transient ids put in an earlier run of the process
    faults, crashes

files == <<tree, old>>
reading == <<cursor, sindex, done, recovered>>
calls == <<call, txn, mutex>>
vars == <<tree, stage, opened, recovering, call, txn, mutex, cursor, sindex, done, recovered,
          transientList, old, faults, crashes>>

None == [kind |-> "none", id |-> 0, size |-> 0]
Requests ==
    [kind : {"put"}, id : Ids, size : Sizes] \union [kind : {"remove"}, id : Ids, size : {0}]
Records == [id : Ids, size : Sizes]
TxnStates ==
    {"none", "starting", "begun", "locked", "written", "refused", "failed", "dangling"}
Shards == 0..(Files - 1)
Table == UNION {tree[k] : k \in Shards}
StoredIds == {r.id : r \in Table}

\* Mutant: the difference is cast to a type that holds its lowest bit only.
NarrowCompare(a, b) == (a - b) % 2

\* bt_compare_func.
Compare(a, b) == IntDiff(a, b)

\* The records of a database that the key i finds.
Find(k, i) == {r \in tree[k] : Compare(r.id, i) = 0}

Init ==
    /\ tree = [k \in Shards |-> {}]
    /\ stage = "opening" /\ opened = 0 /\ recovering = FALSE
    /\ call = [w \in Workers |-> None] /\ txn = [w \in Workers |-> "none"] /\ mutex = Free
    /\ cursor = [k \in Shards |-> {}] /\ sindex = 0 /\ done = {} /\ recovered = <<>>
    /\ transientList = {}
    /\ old = {}
    /\ faults = 0 /\ crashes = 0

-----------------------------------------------------------------------------
StopReading == cursor' = [k \in Shards |-> {}] /\ sindex' = 0 /\ done' = {} /\ recovered' = <<>>

\* One round of init_message_db; then initialize() returns, or recoverMessages opens its cursors.
OpenShard ==
    /\ stage = "opening" /\ opened < Files
    /\ opened' = opened + 1
    /\ IF opened' < Files THEN UNCHANGED <<stage, cursor>>
       ELSE /\ stage' = IF recovering THEN "reading" ELSE "up"
            /\ cursor' = IF recovering THEN [k \in Shards |-> {r.id : r \in tree[k]}] ELSE cursor
    /\ UNCHANGED <<files, recovering, calls, sindex, done, recovered, transientList, faults,
                   crashes>>

\* Cursor::next: the least key that is left, in the order of the comparison.
First(S) == CHOOSE i \in S : \A j \in S : Compare(i, j) <= 0

NextIndex(k) == (k + 1) % Files

\* Mutant: the loop ends with the first cursor that does.
AnyRead(d) == d # {}

AllRead(d) == d = Shards

(***************************************************************************)
(* One round of the loop of recoverMessages.  After the last one the       *)
(* provider registers the transient messages it was given, and discards    *)
(* them.                                                                   *)
(***************************************************************************)
ReadNext ==
    /\ stage = "reading" /\ ~ AllRead(done)
    /\ IF sindex \in done THEN UNCHANGED <<done, recovered, cursor>>
       ELSE IF cursor[sindex] # {}
       THEN /\ recovered' = Append(recovered, First(cursor[sindex]))
            /\ cursor' = [cursor EXCEPT ![sindex] = @ \ {First(@)}]
            /\ UNCHANGED done
       ELSE done' = done \union {sindex} /\ UNCHANGED <<recovered, cursor>>
    /\ sindex' = NextIndex(sindex)
    /\ IF AllRead(done')
       THEN /\ stage' = "discarding"
            /\ transientList' = {recovered[n] : n \in DOMAIN recovered} \intersect Transient
       ELSE UNCHANGED <<stage, transientList>>
    /\ UNCHANGED <<files, opened, recovering, calls, faults, crashes>>

StopDiscarding == stage' = "up" /\ StopReading /\ UNCHANGED <<tree, transientList>>

DiscardOne(i) ==
    /\ tree' = [tree EXCEPT ![i % Files] = @ \ Find(i % Files, i)]
    /\ transientList' = transientList \ {i}
    /\ UNCHANGED <<stage, reading>>

\* Mutant: the last one of the list is passed over.
DiscardAllButOne ==
    /\ stage = "discarding"
    /\ \/ Cardinality(transientList) <= 1 /\ StopDiscarding
       \/ Cardinality(transientList) > 1 /\ \E i \in transientList : DiscardOne(i)
    /\ UNCHANGED <<opened, recovering, calls, old, faults, crashes>>

\* One round of discard_transient_message; after the last the queue is in use.
Discard ==
    /\ stage = "discarding"
    /\ \/ transientList = {} /\ StopDiscarding
       \/ \E i \in transientList : DiscardOne(i)
    /\ UNCHANGED <<opened, recovering, calls, old, faults, crashes>>

-----------------------------------------------------------------------------
(***************************************************************************)
(* store_msg and remove_msg.  Ids are given out in ascending order, and    *)
(* those in use at the same time are less than HalfInt apart.              *)
(***************************************************************************)
Near(i, j) == i - j < HalfInt /\ j - i < HalfInt

InUse == StoredIds \union {call[w].id : w \in {v \in Workers : call[v] # None}}

Others == <<files, stage, opened, recovering, reading, transientList, crashes>>

EnqueueData(w, i, s) ==
    /\ stage = "up" /\ call[w] = None
    /\ \A j \in InUse : Near(i, j)
    /\ call' = [call EXCEPT ![w] = [kind |-> "put", id |-> i, size |-> s]]
    /\ txn' = [txn EXCEPT ![w] = "starting"]
    /\ UNCHANGED <<Others, mutex, faults>>

DequeueData(w, i) ==
    /\ stage = "up" /\ call[w] = None
    /\ \A j \in InUse : Near(i, j)
    /\ call' = [call EXCEPT ![w] = [kind |-> "remove", id |-> i, size |-> 0]]
    /\ txn' = [txn EXCEPT ![w] = "starting"]
    /\ UNCHANGED <<Others, mutex, faults>>

\* TxnCtxt::begin: txn_begin, then the lock.
TxnBegin(w) ==
    /\ txn[w] = "starting"
    /\ txn' = [txn EXCEPT ![w] = "begun"]
    /\ UNCHANGED <<Others, call, mutex, faults>>

Lock(w) ==
    /\ txn[w] = "begun" /\ mutex = Free
    /\ mutex' = w
    /\ txn' = [txn EXCEPT ![w] = "locked"]
    /\ UNCHANGED <<Others, call, faults>>

\* put with DB_NOOVERWRITE, or del: the status, seen by this transaction only.
Write(w) ==
    LET found == Find(call[w].id % Files, call[w].id) # {} IN
    /\ txn[w] = "locked"
    /\ txn' = [txn EXCEPT ![w] = IF found = (call[w].kind = "remove") THEN "written" ELSE "refused"]
    /\ UNCHANGED <<Others, call, mutex, faults>>

Returns(w) == call' = [call EXCEPT ![w] = None] /\ txn' = [txn EXCEPT ![w] = "none"]

\* TxnCtxt::commit, which releases the lock.
Commit(w) ==
    LET k == call[w].id % Files IN
    /\ txn[w] \in {"written", "refused"}
    /\ IF txn[w] = "refused" THEN UNCHANGED files
       ELSE IF call[w].kind = "put"
       THEN /\ tree' = [tree EXCEPT ![k] = @ \union {[id |-> call[w].id, size |-> call[w].size]}]
            /\ old' = old \ {call[w].id}
       ELSE tree' = [tree EXCEPT ![k] = @ \ Find(k, call[w].id)] /\ UNCHANGED old
    /\ Returns(w)
    /\ mutex' = Free
    /\ UNCHANGED <<stage, opened, recovering, reading, transientList, faults, crashes>>

\* txn_begin throws: there is no transaction and no lock to give back.
BeginThrows(w) ==
    /\ txn[w] = "starting"
    /\ faults < MaxFaults /\ faults' = faults + 1
    /\ Returns(w)
    /\ UNCHANGED <<Others, mutex>>

\* put or del throws, or commit does, which leaves a handle the database has given up.
WriteThrows(w) ==
    /\ faults < MaxFaults /\ faults' = faults + 1
    /\ \/ txn[w] = "locked" /\ txn' = [txn EXCEPT ![w] = "failed"]
       \/ txn[w] \in {"written", "refused"} /\ txn' = [txn EXCEPT ![w] = "dangling"]
    /\ UNCHANGED <<Others, call, mutex>>

\* Mutant: the lock is kept.
AbortLocked(w) ==
    /\ txn[w] \in {"failed", "dangling"}
    /\ Returns(w)
    /\ UNCHANGED <<Others, mutex, faults>>

\* TxnCtxt::abort in the handler; the exception goes on.  On a dangling handle it may do this too.
Abort(w) ==
    /\ txn[w] \in {"failed", "dangling"}
    /\ Returns(w)
    /\ mutex' = Free
    /\ UNCHANGED <<Others, faults>>

\* The process ends, and the next one recovers.
Down ==
    /\ stage' = "opening" /\ opened' = 0 /\ recovering' = TRUE
    /\ call' = [w \in Workers |-> None] /\ txn' = [w \in Workers |-> "none"] /\ mutex' = Free
    /\ StopReading /\ transientList' = {}
    /\ old' = StoredIds \intersect Transient
    /\ UNCHANGED <<tree, faults>>

\* abort() on a dangling handle is undefined: the process may die.
AbortDies(w) == txn[w] = "dangling" /\ Down /\ UNCHANGED crashes

Crash == crashes < MaxCrashes /\ crashes' = crashes + 1 /\ Down

\* Mutant: the last byte of the content is not appended.
LoadShort(i, length, offset) ==
    LET found == Find(i % Files, i)
        size == (CHOOSE r \in found : TRUE).size
    IN  IF found = {} THEN -1
        ELSE IF offset + length >= size THEN size - offset - 1 ELSE length

(***************************************************************************)
(* loadMsgContent: how many bytes are appended, from `offset' on, or -1    *)
(* when it returns false.  Offsets lie within the content.                 *)
(***************************************************************************)
LoadMsgContent(i, length, offset) ==
    LET found == Find(i % Files, i)
        size == (CHOOSE r \in found : TRUE).size
    IN  IF found = {} THEN -1
        ELSE IF offset + length > size THEN size - offset ELSE length

-----------------------------------------------------------------------------
Step(w) ==
    \/ TxnBegin(w) \/ Lock(w) \/ Write(w) \/ Commit(w)
    \/ BeginThrows(w) \/ WriteThrows(w) \/ Abort(w) \/ AbortDies(w)

Recover == OpenShard \/ ReadNext \/ Discard

Next ==
    \/ Recover
    \/ \E w \in Workers :
        \/ \E i \in Ids : DequeueData(w, i) \/ \E s \in Sizes : EnqueueData(w, i, s)
        \/ Step(w)
    \/ Crash

Spec == Init /\ [][Next]_vars

FairSpec ==
    /\ Spec
    /\ WF_vars(Recover)
    /\ \A w \in Workers : SF_vars(Step(w))

-----------------------------------------------------------------------------
TypeOK ==
    /\ tree \in [Shards -> SUBSET Records]
    /\ stage \in {"opening", "reading", "discarding", "up"}
    /\ opened \in 0..Files /\ recovering \in BOOLEAN
    /\ call \in [Workers -> Requests \union {None}]
    /\ txn \in [Workers -> TxnStates]
    /\ mutex \in Workers \union {Free}
    /\ cursor \in [Shards -> SUBSET Ids] /\ sindex \in Shards /\ done \subseteq Shards
    /\ recovered \in Seq(Ids) /\ transientList \subseteq Transient /\ old \subseteq Transient

(***************************************************************************)
(* The insertions and deletions of the workers are those of a table that   *)
(* each changes at once or not at all, whatever throws and wherever the    *)
(* process dies: the cast in bt_compare_func never takes two messages for  *)
(* one, nothing is overwritten, and only transient messages disappear.     *)
(***************************************************************************)
Promise == INSTANCE MessageTable WITH table <- Table, request <- call, open <- (stage = "up")
ImplementsTable == Promise!Spec

(***************************************************************************)
(* recoverMessages returns every message of every database exactly once,   *)
(* those of a database in ascending order, although it turns from one      *)
(* cursor to the next and some end before others.                          *)
(***************************************************************************)
ReadOnce ==
    LET left == UNION {cursor[k] : k \in Shards}
        read == {recovered[n] : n \in 1..Len(recovered)}
    IN  /\ stage = "reading" =>
            /\ read \union left = StoredIds /\ read \intersect left = {}
            /\ Len(recovered) = Cardinality(read)
            /\ \A m, n \in 1..Len(recovered) :
                m < n /\ recovered[m] % Files = recovered[n] % Files => recovered[m] < recovered[n]
        /\ stage = "discarding" => StoredIds \subseteq read

(***************************************************************************)
(* When the queue is in use no transient message of an earlier run is      *)
(* left, also if a crash interrupted the deletion the last time.           *)
(***************************************************************************)
TransientsGone ==
    stage = "up" => StoredIds \intersect old = {}

(***************************************************************************)
(* loadMsgContent gives the part of a stored message that lies in the      *)
(* range asked for, to the byte, and finds no message that is not stored.  *)
(***************************************************************************)
LoadExact ==
    /\ \A r \in Table, length \in 0..MaxLength : \A offset \in 0..r.size :
        LoadMsgContent(r.id, length, offset) =
            Cardinality({b \in 1..r.size : offset < b /\ b <= offset + length})
    /\ \A i \in Ids \ StoredIds :
        (\A j \in StoredIds : Near(i, j)) => LoadMsgContent(i, 0, 0) = -1

(***************************************************************************)
(* Every call comes to an end, also when another throws while it holds     *)
(* globalSerialiser.                                                       *)
(***************************************************************************)
CallsEnd == \A w \in Workers : call[w] # None ~> call[w] = None
===============================================================================
