-------------------------- MODULE RegistryInvariant ---------------------------
(***************************************************************************)
(* The inductive invariant of QueueRegistry, for any names, keys,          *)
(* messages, threads and providers, and any number of objects, crashes and *)
(* failures, and what its steps may leave alone.                           *)
(***************************************************************************)
EXTENDS QueueRegistry

\* The stages in which the objects of a kind are known.
Known(k) ==
    \/ stage \in {"bindings", "messages", "up", "closing", "stuck"}
    \/ stage = "queues" /\ k # "queue"
    \/ stage = "exchanges" /\ k = "general"

Creating(n) == \E t \in Threads : call[t].op = "create" /\ call[t].name = n
Destroying(n) == \E t \in Threads : call[t].op = "destroy" /\ call[t].name = n

\* The provider registers when its init() succeeded, within RetryMax attempts.
PluginReady ==
    /\ ForwardsToReady
    /\ "BDB" \in providers => isInit
    /\ stage = "init" => attempts < RetryMax

\* Neither an id nor an incarnation is in a database twice; ids grow with incarnations.
RowsUnique ==
    \A k \in Kinds :
        /\ seq[k] <= born + 2
        /\ \A r \in db[k] : Kind(r.name) = k /\ r.inc <= born /\ r.id <= born + 1
        /\ \A r, s \in db[k] : (r.id <= s.id <=> r.inc <= s.inc) /\ (r.id = s.id => r = s)
        /\ Known(k) => \A r \in db[k] : r.id < seq[k]

\* Calls are made when the store is up, by one thread for each object.
CallsOwn ==
    /\ stage # "up" => \A t \in Threads : call[t] = Idle
    /\ \A t \in Threads :
        \/ call[t] = Idle
        \/ call[t].op = "create" /\ call[t].name \in Queues /\ call[t].step \in {1, 2}
        \/ call[t].op = "destroy" /\ call[t].name \in Queues \union Exchanges /\ call[t].step > 0
    /\ \A t, u \in Threads : call[t].name = call[u].name => t = u \/ call[t] = Idle

\* An object of the broker goes with one row, until its destroy() has deleted that.
Match(n) ==
    /\ obj[n] # Absent =>
        /\ Known(Kind(n))
        /\ obj[n].id \in 1..(seq[Kind(n)] - 1) /\ obj[n].inc \in 1..born
        /\ \A r \in db[Kind(n)] : r.id = obj[n].id <=> r.inc = obj[n].inc
        /\ \A r \in db[Kind(n)] : r.id = obj[n].id => r.name = n
        /\ (\E r \in db[Kind(n)] : r.id = obj[n].id) <=> ~ Destroying(n)
    /\ Creating(n) => obj[n] = Absent /\ \E r \in db["queue"] : r.name = n
    /\ Destroying(n) => obj[n] # Absent

ObjectsMatch == \A n \in Objects : Match(n)

\* Rows of a queue that the broker does not know by them are left by a create() that failed,
\* before the one it knows.
Leftovers ==
    /\ \A r, s \in db["queue"] : r.name = s.name => r = s \/ r.name \in marks.tainted
    /\ Known("queue") => \A r \in db["queue"] :
        obj[r.name].inc = r.inc \/ Creating(r.name) \/ r.name \in marks.tainted
    /\ \A n \in Queues : obj[n] # Absent =>
        \A r \in db["queue"] : r.name = n => r.id <= obj[n].id

JournalsMatch ==
    /\ journals # {} \/ tasks # {} => Known("queue")
    /\ tasks # {} => stage \in {"up", "closing"}
    /\ \A j \in journals : obj[j.name].id = j.id

\* Of the rows of a name the one that has messages is the last.
SentToLast ==
    /\ \A m \in Msgs : sent[m] <= born
    /\ \A r \in db["queue"], m \in Msgs : sent[m] = r.inc =>
        /\ \A s \in db["queue"] : s.name = r.name => s.id <= r.id
        /\ Known("queue") => obj[r.name].inc = r.inc

\* No binding names an id that create() may still give.
BindingIds ==
    /\ stage \in {"messages", "up", "closing"} =>
        \A b \in bindingDb : b.x < seq["exchange"] /\ b.q < seq["queue"]
    /\ \A b \in bound : b.x <= born /\ b.q <= born

Marked(m) == sent[m] \in marks.halfDestroyed \/ m \in marks.pendingAtDestroy

\* Whose messages the files, the log and the scheduled tasks hold.
Owned ==
    /\ \A n \in Queues : \A m \in rows[n] :
        \/ Marked(m)
        \/ \E r \in db["queue"] : r.name = n /\ r.inc = sent[m]
        \/ Destroying(n) /\ obj[n].inc = sent[m]
    /\ \A e \in log : Marked(e.m) \/ \E r \in db["queue"] : r.id = e.id /\ r.inc = sent[e.m]
    /\ \A task \in tasks :
        /\ task.id < seq["queue"]
        /\ \A r \in db["queue"] : r.id = task.id =>
            r.name = task.name /\ (Marked(task.m) \/ r.inc = sent[task.m])
        /\ obj[task.name].id = task.id => Marked(task.m) \/ obj[task.name].inc = sent[task.m]

RegistryInv ==
    /\ TypeOK /\ PluginReady /\ RowsUnique /\ CallsOwn /\ ObjectsMatch /\ Leftovers
    /\ JournalsMatch /\ SentToLast /\ BindingIds /\ Owned
    /\ BindingsExact /\ NoForeignMessage /\ MessagesKept /\ Recoverable

-----------------------------------------------------------------------------
(***************************************************************************)
(* What a step leaves alone: which objects a call is creating or           *)
(* destroying, what the invariant says of queues, which kinds are known.   *)
(***************************************************************************)
SameCalls ==
    \A n \in Objects : (Creating(n)' <=> Creating(n)) /\ (Destroying(n)' <=> Destroying(n))

SameOtherCalls(n) ==
    \A p \in Objects \ {n} : (Creating(p)' <=> Creating(p)) /\ (Destroying(p)' <=> Destroying(p))

\* The call of a thread about an object has ended.
CallEnds(t, n) ==
    /\ CallsOwn' /\ call' \in [Threads -> Calls] /\ SameOtherCalls(n)
    /\ ~ Creating(n)' /\ ~ Destroying(n)' /\ call'[t] = Idle
    /\ \A u \in Threads : u # t => call'[u] = call[u] /\ call[u].name # n

\* create() has put the row of an object, whose id and incarnation are above all that are known.
RowPut(n, row) ==
    /\ ~ Taken(n) /\ born' = born + 1 /\ born' \in 1..MaxInc /\ row \in Rows
    /\ db' \in [Kinds -> SUBSET Rows] /\ seq' \in [Kinds -> Nat \ {0}]
    /\ \A k \in Kinds : db'[k] = IF k = Kind(n) THEN db[k] \union {row} ELSE db[k]
    /\ \A k \in Kinds : seq'[k] = IF k = Kind(n) THEN seq[k] + 1 ELSE seq[k]
    /\ \A r \in db[Kind(n)] : r.id < row.id /\ r.inc < row.inc
    /\ UNCHANGED <<bindingDb, dir, rows, log, journals, tasks, sent, bound, recovered, marks, fails>>
    /\ RowsUnique' /\ BindingIds' /\ BindingsExact'

\* What the invariant says of queues does not depend on other objects.
SameQueues ==
    /\ Known("queue")' <=> Known("queue")
    /\ db'["queue"] = db["queue"] /\ seq'["queue"] = seq["queue"]
    /\ \A n \in Queues : /\ obj'[n] = obj[n]
                         /\ (Creating(n)' <=> Creating(n)) /\ (Destroying(n)' <=> Destroying(n))
    /\ UNCHANGED <<dir, rows, log, tasks, journals, sent, recovered, marks>>
    /\ tasks # {} => stage' \in {"up", "closing"}
    /\ born' \in Nat /\ born' >= born

NowKnown(k) == \A j \in Kinds : Known(j)' <=> (Known(j) \/ j = k)

SameKnown == \A k \in Kinds : Known(k)' <=> Known(k)
===============================================================================
