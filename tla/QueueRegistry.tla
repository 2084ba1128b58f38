---------------------------- MODULE QueueRegistry ----------------------------
(***************************************************************************)
(* The registry of BdbStoreProvider: queues, exchanges, configurations and *)
(* bindings, created, destroyed and bound by the threads of the broker,    *)
(* with the journal directory of each queue, the insertions still pending  *)
(* in the operation log, crashes between any two commits, and the recovery *)
(* in the order of MessageStorePlugin::recover.                            *)
(*                                                                         *)
(* An object has a name and, each time it is created, a new incarnation    *)
(* (inc), which the code does not know: it goes by names and ids, and ids  *)
(* start again after a recovery.  Two calls about the same object do not   *)
(* overlap; calls about different objects do.                              *)
(***************************************************************************)
EXTENDS StorePlugin, FiniteSetsExt

CONSTANTS
    Queues, Exchanges, Configs,     \* names of durable objects
    Keys,           \* binding keys
    Msgs,           \* messages, each sent to one queue once
    Threads,        \* broker threads that call the store
    Files,          \* num_jfiles, the databases of a journal
    Shard,          \* the database that each message goes to
    MaxInc,         \* bound: objects created
    MaxCrashes,     \* bound: crashes and shutdowns
    MaxFails        \* bound: calls that fail on the file system

Objects == Queues \union Exchanges \union Configs

ASSUME RegistryAssumptions ==
    /\ Queues \intersect Exchanges = {} /\ (Queues \union Exchanges) \intersect Configs = {}
    /\ "none" \notin Objects
    /\ Files \in Nat \ {0} /\ Shard \in [Msgs -> 0..(Files - 1)]
    /\ MaxInc \in Nat /\ MaxCrashes \in Nat /\ MaxFails \in Nat

VARIABLES
    db,             \* queueDb, exchangeDb and generalDb: rows of an id and a name
    bindingDb,      \* rows of an exchange id, a queue id and a key
    dir,            \* queues whose journal directory exists
    rows,           \* messages in the journal files of each queue name
    log,            \* pending insertions in the log: a message and a queue id
    seq,            \* the id sequences
    obj,            \* the broker's objects: id and incarnation, or Absent
    journals,       \* the JournalImpl objects: id and name
    call,           \* what each thread is doing
    tasks,          \* scheduled insertions: message and journal
    sent,           \* the incarnation each message was enqueued on, or 0
    bound,          \* the bindings the broker made, by incarnation
    recovered,      \* what the last recovery put on which incarnation
    marks,          \* incarnations and messages some crash or failure hit
    born, crashes, fails

durable == <<db, bindingDb, dir, rows, log>>
volatile == <<seq, obj, journals, call, tasks>>
history == <<sent, bound, recovered, marks>>
bounds == <<born, crashes, fails>>
vars == <<plugin, durable, volatile, history, bounds>>

Kinds == {"queue", "exchange", "general"}
Kind(n) == IF n \in Queues THEN "queue" ELSE IF n \in Exchanges THEN "exchange" ELSE "general"
Absent == [id |-> 0, inc |-> 0]
Idle == [op |-> "none", name |-> "none", step |-> 0]
Busy(n) == \E t \in Threads : call[t].name = n
NoMarks == [interrupted |-> {}, halfDestroyed |-> {}, pendingAtDestroy |-> {}, tainted |-> {}]

Init ==
    /\ PluginInit
    /\ db = [k \in Kinds |-> {}] /\ bindingDb = {}
    /\ dir = {} /\ rows = [q \in Queues |-> {}] /\ log = {}
    /\ seq = [k \in Kinds |-> 1]
    /\ obj = [n \in Objects |-> Absent] /\ journals = {}
    /\ call = [t \in Threads |-> Idle] /\ tasks = {}
    /\ sent = [m \in Msgs |-> 0] /\ bound = {} /\ recovered = {} /\ marks = NoMarks
    /\ born = 0 /\ crashes = 0 /\ fails = 0

-----------------------------------------------------------------------------
(***************************************************************************)
(* Creating.  create(db, seq, p) takes the next id and puts the row in a   *)
(* transaction of its own; the directory and the journal come after it.    *)
(***************************************************************************)

Up == stage = "up" /\ UNCHANGED <<plugin, crashes>>
Working == stage \in {"up", "closing"} /\ UNCHANGED <<plugin, crashes>>
Starts(t, c) == call[t] = Idle /\ call' = [call EXCEPT ![t] = c]
Goes(t, op, from, to) ==
    /\ call[t].op = op /\ call[t].step = from
    /\ call' = [call EXCEPT ![t].step = to]
Ends(t, op, from) ==
    /\ call[t].op = op /\ call[t].step = from
    /\ call' = [call EXCEPT ![t] = Idle]

Created(n) == Up /\ obj[n] # Absent /\ ~ Busy(n)

\* The plugin asks for an object that has no persistence id.
Creatable(n) == Up /\ obj[n] = Absent /\ ~ Busy(n)

Taken(n) == \E r \in db[Kind(n)] : r.id = seq[Kind(n)]

\* create(db, seq, p).
PutRow(n) ==
    LET row == [id |-> seq[Kind(n)], name |-> n, inc |-> born'] IN
    /\ born < MaxInc /\ born' = born + 1
    /\ seq' = [seq EXCEPT ![Kind(n)] = @ + 1]
    /\ db' = IF Taken(n) THEN db ELSE [db EXCEPT ![Kind(n)] = @ \union {row}]
    /\ UNCHANGED <<bindingDb, dir, rows, log, journals, tasks, history, fails>>

\* With an id that is in use, "already exists" is thrown.
TakeId(t, n) ==
    /\ call[t] = Idle
    /\ obj' = IF Taken(n) THEN obj ELSE [obj EXCEPT ![n] = [id |-> seq[Kind(n)], inc |-> born']]
    /\ UNCHANGED call

CreateQueue(t, q) ==
    /\ Creatable(q)
    /\ PutRow(q)
    /\ IF Taken(q) THEN call[t] = Idle /\ UNCHANGED call
       ELSE Starts(t, [op |-> "create", name |-> q, step |-> 1])
    /\ UNCHANGED obj

CreateExchange(t, x) == Creatable(x) /\ PutRow(x) /\ TakeId(t, x)
CreateConfig(t, g) == Creatable(g) /\ PutRow(g) /\ TakeId(t, g)

\* The row that a create() in progress has put: the last one of that name.
NewRow(n) == CHOOSE r \in db["queue"] : r.name = n /\ \A s \in db["queue"] : s.name = n => s.inc <= r.inc

CreateDir(t) ==
    /\ Up
    /\ Goes(t, "create", 1, 2)
    /\ dir' = dir \union {call[t].name}
    /\ UNCHANGED <<db, bindingDb, rows, log, seq, obj, journals, tasks, history, born, fails>>

\* JournalImpl opens or creates its databases, whatever they hold, and is registered.
OpenJournal(t) ==
    LET n == call[t].name
        r == NewRow(n)
    IN  /\ Up
        /\ Ends(t, "create", 2)
        /\ obj' = [obj EXCEPT ![n] = [id |-> r.id, inc |-> r.inc]]
        /\ journals' = journals \union {[id |-> r.id, name |-> n]}
        /\ UNCHANGED <<durable, seq, tasks, history, born, fails>>

\* The directory or a database cannot be made: the exception leaves the row behind.
CreateFails(t) ==
    /\ Up
    /\ fails < MaxFails /\ fails' = fails + 1
    /\ \/ Ends(t, "create", 1)
       \/ Ends(t, "create", 2)
    /\ marks' = [marks EXCEPT !.tainted = @ \union {call[t].name}]
    /\ UNCHANGED <<durable, seq, obj, journals, tasks, sent, bound, recovered, born>>

-----------------------------------------------------------------------------
(***************************************************************************)
(* Destroying: the row, then the bindings, then the databases of the       *)
(* journal one by one, then its directory and the journal object.          *)
(***************************************************************************)

\* Mutant: the row stays when the files are deleted.
KeepRow(n) == UNCHANGED db

\* destroy(db, p).
DelRow(n) == db' = [db EXCEPT ![Kind(n)] = {r \in @ : r.id # obj[n].id}]

DestroyQueue(t, q) ==
    /\ Created(q)
    /\ DelRow(q)
    /\ Starts(t, [op |-> "destroy", name |-> q, step |-> 1])
    /\ marks' = [marks EXCEPT
        !.pendingAtDestroy = @ \union {e.m : e \in {x \in log : x.id = obj[q].id}}]
    /\ UNCHANGED <<bindingDb, dir, rows, log, seq, obj, journals, tasks, sent, bound, recovered,
                   born, fails>>

DestroyExchange(t, x) ==
    /\ Created(x)
    /\ DelRow(x)
    /\ Starts(t, [op |-> "destroy", name |-> x, step |-> 1])
    /\ UNCHANGED <<bindingDb, dir, rows, log, seq, obj, journals, tasks, history, born, fails>>

DestroyConfig(t, g) ==
    /\ Created(g) /\ call[t] = Idle
    /\ DelRow(g)
    /\ obj' = [obj EXCEPT ![g] = Absent]
    /\ UNCHANGED <<bindingDb, dir, rows, log, seq, journals, call, tasks, history, born, fails>>

DeleteBindingsForQueue(t) ==
    LET q == call[t].name IN
    /\ Up
    /\ q \in Queues /\ Goes(t, "destroy", 1, 2)
    /\ bindingDb' = {b \in bindingDb : b.q # obj[q].id}
    /\ UNCHANGED <<db, dir, rows, log, seq, obj, journals, tasks, history, born, fails>>

\* The rest of destroy(exchange).
DeleteBindingsOfExchange(t) ==
    LET x == call[t].name IN
    /\ Up
    /\ x \in Exchanges /\ Ends(t, "destroy", 1)
    /\ bindingDb' = {b \in bindingDb : b.x # obj[x].id}
    /\ obj' = [obj EXCEPT ![x] = Absent]
    /\ UNCHANGED <<db, dir, rows, log, seq, journals, tasks, history, born, fails>>

\* One round of the loop of delete_jrnl_files: database k is closed and removed.
DeleteShard(t, k) ==
    LET n == call[t].name IN
    /\ Up
    /\ n \in Queues /\ Goes(t, "destroy", 2 + k, 3 + k)
    /\ rows' = [rows EXCEPT ![n] = {m \in @ : Shard[m] # k}]
    /\ UNCHANGED <<db, bindingDb, dir, log, seq, obj, journals, tasks, history, born, fails>>

\* journalDeleted, the callback of the destructor.
Unlisted(id) == {j \in journals : j.id # id}

\* delete_dir with what is left in it, and setExternalQueueStore(0), which deletes the journal.
DeleteJournal(t) ==
    LET n == call[t].name IN
    /\ Up
    /\ n \in Queues /\ Ends(t, "destroy", 2 + Files)
    /\ dir' = dir \ {n} /\ rows' = [rows EXCEPT ![n] = {}]
    /\ journals' = Unlisted(obj[n].id)
    /\ obj' = [obj EXCEPT ![n] = Absent]
    /\ UNCHANGED <<db, bindingDb, log, seq, tasks, history, born, fails>>

-----------------------------------------------------------------------------
(***************************************************************************)
(* Binding.  The broker may hold an object that another thread is          *)
(* destroying.                                                             *)
(***************************************************************************)

\* put(): a row that is there already is refused, and the call throws.
PutBinding(row) ==
    /\ row \notin bindingDb
    /\ bindingDb' = bindingDb \union {row}

Bind(x, q, key) ==
    /\ Up
    /\ obj[x] # Absent /\ obj[q] # Absent
    /\ PutBinding([x |-> obj[x].id, q |-> obj[q].id, key |-> key])
    /\ bound' = bound \union {[x |-> obj[x].inc, q |-> obj[q].inc, key |-> key]}
    /\ UNCHANGED <<db, dir, rows, log, volatile, sent, recovered, marks, born, fails>>

DeleteBinding(row) == bindingDb' = bindingDb \ {row}

Unbind(x, q, key) ==
    /\ Up
    /\ obj[x] # Absent /\ obj[q] # Absent
    /\ DeleteBinding([x |-> obj[x].id, q |-> obj[q].id, key |-> key])
    /\ bound' = bound \ {[x |-> obj[x].inc, q |-> obj[q].inc, key |-> key]}
    /\ UNCHANGED <<db, dir, rows, log, volatile, sent, recovered, marks, born, fails>>

-----------------------------------------------------------------------------
(***************************************************************************)
(* Messages: enqueue logs the insertion and schedules it with a pointer to *)
(* the journal; flush() and outstandingQueueAIO() wait for nothing.        *)
(***************************************************************************)

Enqueue(m, q) ==
    /\ Created(q)
    /\ sent[m] = 0
    /\ sent' = [sent EXCEPT ![m] = obj[q].inc]
    /\ log' = log \union {[m |-> m, id |-> obj[q].id]}
    /\ tasks' = tasks \union {[m |-> m, id |-> obj[q].id, name |-> q]}
    /\ UNCHANGED <<db, bindingDb, dir, rows, seq, obj, journals, call, bound, recovered, marks,
                   born, fails>>

\* The journal of a task is there, with the database the message goes to.
JournalOpen(task) ==
    /\ [id |-> task.id, name |-> task.name] \in journals
    /\ \A t \in Threads :
        call[t].op = "destroy" /\ call[t].name = task.name => call[t].step <= 2 + Shard[task.m]

\* Mutant: the completion is logged and the insertion is not committed.
StoreUncommitted(task) ==
    /\ Working
    /\ JournalOpen(task)
    /\ log' = log \ {[m |-> task.m, id |-> task.id]}
    /\ tasks' = tasks \ {task}
    /\ UNCHANGED <<db, bindingDb, dir, rows, seq, obj, journals, call, history, born, fails>>

Store(task) ==
    /\ Working
    /\ JournalOpen(task)
    /\ rows' = [rows EXCEPT ![task.name] = @ \union {task.m}]
    /\ log' = log \ {[m |-> task.m, id |-> task.id]}
    /\ tasks' = tasks \ {task}
    /\ UNCHANGED <<db, bindingDb, dir, seq, obj, journals, call, history, born, fails>>

Down ==
    /\ obj' = [n \in Objects |-> Absent] /\ journals' = {}
    /\ call' = [t \in Threads |-> Idle] /\ tasks' = {}
    /\ seq' = [k \in Kinds |-> 1]
    /\ stage' = "down" /\ attempts' = 0 /\ isInit' = FALSE
    /\ providers' = {} /\ provider' = End /\ storeSet' = FALSE
    /\ marks' = [marks EXCEPT
        !.interrupted = @ \union {NewRow(call[t].name).inc :
                t \in {u \in Threads : call[u].op = "create" /\ call[u].step = 1}},
        !.halfDestroyed = @ \union {obj[call[t].name].inc :
                t \in {u \in Threads : call[u].op = "destroy"}}]
    /\ UNCHANGED <<durable, sent, bound, recovered, born, fails>>

(***************************************************************************)
(* A task with a dangling pointer: the process may die, or the task finds  *)
(* nothing to write to.                                                    *)
(***************************************************************************)
StoreDangling(task) ==
    /\ stage \in {"up", "closing"} /\ ~ JournalOpen(task)
    /\ \/ Down /\ UNCHANGED crashes
       \/ /\ tasks' = tasks \ {task}
          /\ UNCHANGED <<plugin, durable, seq, obj, journals, call, history, bounds>>

(***************************************************************************)
(* finalizeMe, when the broker's threads are done: the tasks no worker has *)
(* taken are dropped, the others end, and the process with them.           *)
(***************************************************************************)
ClearPools ==
    /\ stage = "up" /\ stage' = "closing"
    /\ \A t \in Threads : call[t] = Idle
    /\ crashes < MaxCrashes /\ crashes' = crashes + 1
    /\ tasks' \in SUBSET tasks
    /\ UNCHANGED <<attempts, isInit, providers, provider, storeSet, durable, seq, obj, journals,
                   call, history, born, fails>>

Finalized ==
    /\ stage = "closing" /\ tasks = {}
    /\ Down
    /\ UNCHANGED crashes

Crash ==
    /\ crashes < MaxCrashes /\ crashes' = crashes + 1
    /\ stage # "down"
    /\ Down

-----------------------------------------------------------------------------
(***************************************************************************)
(* MessageStorePlugin::recover.                                            *)
(***************************************************************************)

Recovers(from, to) ==
    /\ stage = from /\ stage' = to
    /\ UNCHANGED <<attempts, isInit, providers, provider, storeSet, call, born,
                   crashes, fails>>

Ids(k) == {r.id : r \in db[k]}

\* Mutant: the sequence starts again at the highest id in use.
MaxId(k) == Max(Ids(k) \union {1})

\* Mutant: the sequence of an empty database starts at 0, the id of what is not durable.
NextIdFromZero(k) == IF Ids(k) = {} THEN 0 ELSE 1 + Max(Ids(k))

NextId(k) == 1 + Max(Ids(k) \union {1})

\* The row of a name that is read last, which the recovered object keeps.
LastRow(k, n) == CHOOSE r \in db[k] : r.name = n /\ \A s \in db[k] : s.name = n => s.id <= r.id
Names(k) == {r.name : r \in db[k]}

RecoverRows(k) ==
    /\ seq' = [seq EXCEPT ![k] = NextId(k)]
    /\ obj' = [n \in Objects |->
                IF n \in Names(k) THEN [id |-> LastRow(k, n).id, inc |-> LastRow(k, n).inc] ELSE obj[n]]

RecoverConfigs ==
    /\ Recovers("configs", "exchanges") /\ RecoverRows("general")
    /\ UNCHANGED <<durable, journals, tasks, history>>

RecoverExchanges ==
    /\ Recovers("exchanges", "queues") /\ RecoverRows("exchange")
    /\ UNCHANGED <<durable, journals, tasks, history>>

RecoverQueues ==
    /\ Recovers("queues", "bindings") /\ RecoverRows("queue")
    /\ journals' = {[id |-> LastRow("queue", n).id, name |-> n] : n \in Names("queue")}
    /\ UNCHANGED <<durable, tasks, history>>

Stale(b) == b.x \notin Ids("exchange") \/ b.q \notin Ids("queue")

\* Mutant: a binding is kept when only its exchange is there.
RecoverBindingsOfExchanges ==
    /\ Recovers("bindings", "messages")
    /\ bindingDb' = {b \in bindingDb : b.x \in Ids("exchange")}
    /\ UNCHANGED <<db, dir, rows, log, seq, obj, journals, tasks, history>>

RecoverBindings ==
    /\ Recovers("bindings", "messages")
    /\ bindingDb' = {b \in bindingDb : ~ Stale(b)}
    /\ UNCHANGED <<db, dir, rows, log, seq, obj, journals, tasks, history>>

\* Mutant: the queue id of a pending insertion is not looked at.
HeldForAny(j) == rows[j.name] \union {e.m : e \in log}

\* What the files and the log hold for a journal.
Held(j) == rows[j.name] \union {e.m : e \in {x \in log : x.id = j.id}}

(***************************************************************************)
(* recoverMessages and the loop of recover() that puts the messages on the *)
(* queues.  A database cannot be opened in a directory that is not there:  *)
(* the DbException ends the start.  Pending insertions whose queue id is   *)
(* not known stay in the log.                                              *)
(***************************************************************************)
RecoverMessages ==
    \/ /\ Names("queue") \subseteq dir
       /\ Recovers("messages", "up")
       /\ recovered' = UNION {{<<m, obj[j.name].inc>> : m \in Held(j)} : j \in journals}
       /\ tasks' = UNION {{[m |-> e.m, id |-> j.id, name |-> j.name] :
                            e \in {x \in log : x.id = j.id}} : j \in journals}
       /\ UNCHANGED <<durable, seq, obj, journals, sent, bound, marks>>
    \/ /\ ~ (Names("queue") \subseteq dir)
       /\ Recovers("messages", "stuck")
       /\ UNCHANGED <<durable, seq, obj, journals, tasks, history>>

Recovery ==
    RecoverConfigs \/ RecoverExchanges \/ RecoverQueues \/ RecoverBindings \/ RecoverMessages

-----------------------------------------------------------------------------
Next ==
    \/ Starting /\ UNCHANGED <<durable, volatile, history, bounds>>
    \/ Recovery
    \/ \E t \in Threads :
        \/ \E q \in Queues : CreateQueue(t, q) \/ DestroyQueue(t, q)
        \/ \E x \in Exchanges : CreateExchange(t, x) \/ DestroyExchange(t, x)
        \/ \E g \in Configs : CreateConfig(t, g) \/ DestroyConfig(t, g)
        \/ CreateDir(t) \/ OpenJournal(t) \/ CreateFails(t)
        \/ DeleteBindingsForQueue(t) \/ DeleteBindingsOfExchange(t) \/ DeleteJournal(t)
        \/ \E k \in 0..(Files - 1) : DeleteShard(t, k)
    \/ \E x \in Exchanges, q \in Queues, key \in Keys : Bind(x, q, key) \/ Unbind(x, q, key)
    \/ \E m \in Msgs, q \in Queues : Enqueue(m, q)
    \/ \E task \in tasks : Store(task) \/ StoreDangling(task)
    \/ ClearPools \/ Finalized \/ Crash

Spec == Init /\ [][Next]_vars

-----------------------------------------------------------------------------
Stages ==
    StartStages \union {"other", "configs", "exchanges", "queues", "bindings", "messages", "up", "closing",
                          "stuck"}

Rows == [id : Nat \ {0}, name : Objects, inc : 1..MaxInc]
Calls == [op : {"none", "create", "destroy"}, name : Objects \union {"none"}, step : 0..(2 + Files)]

TypeOK ==
    /\ PluginTypeOK /\ stage \in Stages
    /\ db \in [Kinds -> SUBSET Rows]
    /\ bindingDb \subseteq [x : Nat \ {0}, q : Nat \ {0}, key : Keys]
    /\ dir \subseteq Queues /\ rows \in [Queues -> SUBSET Msgs]
    /\ log \subseteq [m : Msgs, id : Nat \ {0}]
    /\ seq \in [Kinds -> Nat \ {0}]
    /\ obj \in [Objects -> [id : Nat, inc : 0..MaxInc]]
    /\ journals \subseteq [id : Nat \ {0}, name : Queues]
    /\ call \in [Threads -> Calls]
    /\ tasks \subseteq [m : Msgs, id : Nat \ {0}, name : Queues]
    /\ sent \in [Msgs -> 0..MaxInc]
    /\ bound \subseteq [x : 1..MaxInc, q : 1..MaxInc, key : Keys]
    /\ recovered \subseteq Msgs \X (1..MaxInc)
    /\ marks \in [interrupted : SUBSET (1..MaxInc), halfDestroyed : SUBSET (1..MaxInc),
                  pendingAtDestroy : SUBSET Msgs, tainted : SUBSET Queues]
    /\ born \in 0..MaxInc /\ crashes \in 0..MaxCrashes /\ fails \in 0..MaxFails

(***************************************************************************)
(* create() never meets an id that is in use, and no two objects share one *)
(* (so "Queue already exists" cannot be thrown for a new queue), although  *)
(* recovery sets the sequences back.                                       *)
(***************************************************************************)
IdsFresh ==
    \A k \in Kinds :
        /\ stage = "up" => \A r \in db[k] : r.id < seq[k]
        /\ \A r, s \in db[k] : r.id = s.id => r = s

(***************************************************************************)
(* The bindings in the database are those the broker made and did not take *)
(* back, between objects that exist, whatever was destroyed, interrupted   *)
(* or bound meanwhile: no binding is lost, none comes back, and none moves *)
(* to another object that was given the id of a destroyed one.             *)
(***************************************************************************)
BindingsExact ==
    \A e \in db["exchange"], r \in db["queue"], key \in Keys :
        [x |-> e.id, q |-> r.id, key |-> key] \in bindingDb
            <=> [x |-> e.inc, q |-> r.inc, key |-> key] \in bound

(***************************************************************************)
(* A message is recovered only on the queue it was sent to, and not on a   *)
(* later queue of the same name or the same id.  The exceptions are what   *)
(* the store cannot tell: the files of a queue whose destroy() a crash     *)
(* interrupted, and insertions that were pending when their queue was      *)
(* destroyed.                                                              *)
(***************************************************************************)
NoForeignMessage ==
    \A m \in Msgs, i \in 1..MaxInc : <<m, i>> \in recovered =>
        \/ sent[m] = i
        \/ sent[m] \in marks.halfDestroyed
        \/ m \in marks.pendingAtDestroy

(***************************************************************************)
(* As long as a queue is in the database, so is each of its messages, or   *)
(* the log has it, also where a create() that failed left a second row     *)
(* with the name of the queue.                                             *)
(***************************************************************************)
MessagesKept ==
    \A r \in db["queue"], m \in Msgs :
        sent[m] = r.inc =>
            m \in rows[r.name] \/ [m |-> m, id |-> r.id] \in log

(***************************************************************************)
(* The store can be recovered: each queue in the database has its journal  *)
(* directory, without which the broker does not start, unless its create() *)
(* is between the two, was interrupted there by a crash, or failed.        *)
(***************************************************************************)
Recoverable ==
    \A r \in db["queue"] :
        \/ r.name \in dir
        \/ r.name \in marks.tainted \/ r.inc \in marks.interrupted
        \/ \E t \in Threads : call[t].op = "create" /\ call[t].step = 1 /\ call[t].name = r.name
===============================================================================
